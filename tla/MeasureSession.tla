--------------------------- MODULE MeasureSession ---------------------------
(***************************************************************************)
(* The measure session of drplay, pkg/drp_player/measuresession: four      *)
(* goroutines below MeasureSession.Start and the two buffered channels     *)
(* between them.                                                           *)
(*                                                                         *)
(*   poll       reads the records of the qdisc: packet records go to the   *)
(*              aggregation, queue records straight to the persistor       *)
(*   agg        aggregateMeasures: batches packets of about 10 ms and      *)
(*              makes one sample per flow of a batch                       *)
(*   persistor  stores the samples once a second                           *)
(*   exiter     waits for the exit signal and passes it on to poll and     *)
(*              to the persistor                                           *)
(*                                                                         *)
(* The exit listener of DrpPlayer.Start takes one report and is gone.      *)
(*                                                                         *)
(* Records are numbered in the order poll reads them; the number stands    *)
(* for the timestamp.  The sums of an AggregateMeasure are abstracted to   *)
(* the set of packets that went into them, a capacity to whether it is     *)
(* known, that is not 0.                                                   *)
(***************************************************************************)
EXTENDS Integers, Sequences, FiniteSets, Functions

CONSTANTS
    Flows,            \* the network flows seen on the device
    Csv,              \* ParentBenchmark.CsvOuptut
    AggCapacity,      \* the buffer of chan_to_aggregation (10000)
    PerCapacity,      \* the buffer of chan_to_persistence (10000)
    MaxRecords,       \* bound: how many records the qdisc emits
    ReadFaults,       \* what may go wrong reading: "open", "short", "type"
    FlowFaults,       \* bound: how often Persist(net_flow) fails
    StoreFaults,      \* bound: how often Persist(sample) fails
    MayExit           \* may the exit signal come from outside

ASSUME MeasureAssumption ==
    /\ Csv \in BOOLEAN
    /\ AggCapacity \in Nat \ {0}
    /\ PerCapacity \in Nat \ {0}
    /\ MaxRecords \in Nat
    /\ ReadFaults \subseteq {"open", "short", "type"}
    /\ FlowFaults \in Nat
    /\ StoreFaults \in Nat
    /\ MayExit \in BOOLEAN

VARIABLES
    exit,             \* On_extern_exit_c is closed
    should_end,       \* m.should_end
    exit_persistor,   \* the channel of that name is closed
    to_agg,           \* chan_to_aggregation
    agg_closed,
    to_per,           \* chan_to_persistence
    per_closed,
    wg,               \* the counter of m.wg
    pc,               \* where each goroutine stands
    records,          \* how many records poll has read
    in_hand,          \* the record, error or sample poll is about to send
    capacity,         \* currentCapacityKbits is known
    last,             \* the timestamp of the message agg received last
    batch,            \* mapMeasures: the packets of each flow, and a capacity
    db_flows,         \* the flows the database knows
    stored,           \* the samples in the database, in order
    read_faults, flow_faults, store_faults,   \* what has gone wrong so far
    panicked          \* a send on a closed channel

signals == <<exit, should_end, exit_persistor>>
channels == <<to_agg, agg_closed, to_per, per_closed>>
reading == <<records, in_hand, capacity>>
aggregating == <<last, batch>>
database == <<db_flows, stored>>
faults == <<read_faults, flow_faults, store_faults>>
vars == <<signals, channels, wg, pc, reading, aggregating, database, faults, panicked>>

\* Bound: how many records are read wrongly.  The first report uses the
\* listener up, the second meets nobody.
MaxReadFaults == 2

Goroutines == {"start", "exiter", "poll", "agg", "persistor", "listener"}

\* A goroutine moves from one place to the next.
Moves(g, from, to) ==
    /\ ~panicked
    /\ pc[g] = from
    /\ pc' = [pc EXCEPT ![g] = to]

\* All but pc stays as it is.
NothingElse ==
    UNCHANGED <<signals, channels, wg, reading, aggregating, database, faults, panicked>>

None == [kind |-> "none"]
Empty == [packets |-> {}, drops |-> {}, known |-> FALSE]

-----------------------------------------------------------------------------

\* Start has launched its goroutines and waits for three of them.
Init ==
    /\ exit = FALSE
    /\ should_end = FALSE
    /\ exit_persistor = FALSE
    /\ to_agg = <<>>
    /\ agg_closed = FALSE
    /\ to_per = <<>>
    /\ per_closed = FALSE
    /\ wg = 3
    /\ pc = [g \in Goroutines |->
                CASE g = "start" -> "wait"
                  [] g = "exiter" -> "wait"
                  [] g = "poll" -> "open"
                  [] g = "agg" -> "first"
                  [] g = "persistor" -> "select"
                  [] g = "listener" -> "select"]
    /\ records = 0
    /\ in_hand = None
    /\ capacity = FALSE
    /\ last = 0
    /\ batch = [f \in Flows |-> Empty]
    /\ db_flows = {}
    /\ stored = <<>>
    /\ read_faults = 0
    /\ flow_faults = 0
    /\ store_faults = 0
    /\ panicked = FALSE

-----------------------------------------------------------------------------
(* The exit signal, the listener and Start.                                *)

\* Somebody outside closes On_extern_exit_c.
ExternExit ==
    /\ MayExit
    /\ ~exit
    /\ exit' = TRUE
    /\ UNCHANGED <<should_end, exit_persistor, channels, wg, pc, reading,
                   aggregating, database, faults, panicked>>

\* The listener answers a fatal report with ExitNoWait.
ListenerExits ==
    /\ Moves("listener", "exit_nowait", "done")
    /\ exit' = TRUE
    /\ UNCHANGED <<should_end, exit_persistor, channels, wg, reading,
                   aggregating, database, faults, panicked>>

ListenerSeesExit ==
    /\ Moves("listener", "select", "done")
    /\ exit
    /\ NothingElse

ExitPoll ==
    /\ Moves("exiter", "wait", "exit_persistor")
    /\ exit
    /\ should_end' = TRUE
    /\ UNCHANGED <<exit, exit_persistor, channels, wg, reading, aggregating,
                   database, faults, panicked>>

\* Slip (NoSendOnClosed): the exiter closes the samples channel as well.
ExitPersistorAndChannel ==
    /\ Moves("exiter", "exit_persistor", "done")
    /\ exit_persistor' = TRUE
    /\ per_closed' = TRUE
    /\ UNCHANGED <<exit, should_end, to_agg, agg_closed, to_per, wg, reading,
                   aggregating, database, faults, panicked>>

ExitPersistor ==
    /\ Moves("exiter", "exit_persistor", "done")
    /\ exit_persistor' = TRUE
    /\ UNCHANGED <<exit, should_end, channels, wg, reading, aggregating,
                   database, faults, panicked>>

\* m.wg.Wait() returns, and with it Start.
StartReturns ==
    /\ Moves("start", "wait", "done")
    /\ wg = 0
    /\ NothingElse

\* The listener takes the report a goroutine offers ...
Taken(g, from, to, level) ==
    /\ ~panicked
    /\ pc[g] = from
    /\ pc["listener"] = "select"
    /\ pc' = [pc EXCEPT ![g] = to,
                        !["listener"] = IF level = "fatal" THEN "exit_nowait" ELSE "done"]

\* ... or Report gives up after 100 ms.
Dropped(g, from, to) == Moves(g, from, to) /\ pc["listener"] # "select"

Report(g, from, to, level) == Taken(g, from, to, level) \/ Dropped(g, from, to)

-----------------------------------------------------------------------------
(* poll                                                                    *)

\* MM_FILE cannot be opened: a fatal report, and poll goes on without it.
PollOpenFails ==
    /\ Moves("poll", "open", "report_open")
    /\ "open" \in ReadFaults
    /\ NothingElse

\* Slip (SessionEnds): poll returns, before its defer is registered.
PollReportsOpenReturns ==
    /\ Report("poll", "report_open", "done", "fatal")
    /\ NothingElse

PollReportsOpen ==
    /\ Report("poll", "report_open", "blind", "fatal")
    /\ NothingElse

PollOpens ==
    /\ Moves("poll", "open", "loop")
    /\ NothingElse

\* for !m.should_end: once more round the loop, or the deferred function.
PollGoesOn ==
    /\ Moves("poll", "loop", "read")
    /\ ~should_end
    /\ NothingElse

PollEnds ==
    /\ \E from \in {"loop", "blind"} : Moves("poll", from, "wg_done")
    /\ should_end
    /\ NothingElse

\* C.poll times out, or the record is of a packet without an IP address.
PollNothing ==
    /\ Moves("poll", "read", "loop")
    /\ NothingElse

\* A record that is too short or of no known type is reported.
PollReadFails ==
    /\ Moves("poll", "read", "report")
    /\ \E fault \in ReadFaults \ {"open"} :
           in_hand' = [kind |-> fault]
    /\ read_faults < MaxReadFaults
    /\ read_faults' = read_faults + 1
    /\ UNCHANGED <<signals, channels, wg, records, capacity, aggregating, database,
                   flow_faults, store_faults, panicked>>

\* Slip (PipelineFlows): the report has no timeout.
PollReportsBlocking ==
    /\ Taken("poll", "report", "loop", IF in_hand.kind = "short" THEN "info" ELSE "warn")
    /\ in_hand' = None
    /\ UNCHANGED <<signals, channels, wg, records, capacity, aggregating, database,
                   faults, panicked>>

PollReports ==
    /\ Report("poll", "report", "loop", IF in_hand.kind = "short" THEN "info" ELSE "warn")
    /\ in_hand' = None
    /\ UNCHANGED <<signals, channels, wg, records, capacity, aggregating, database,
                   faults, panicked>>

PollPacket ==
    /\ Moves("poll", "read", "send_packet")
    /\ records < MaxRecords
    /\ records' = records + 1
    /\ \E f \in Flows, drop \in BOOLEAN :
           in_hand' = [kind |-> "packet", flow |-> f, time |-> records', drop |-> drop]
    /\ UNCHANGED <<signals, channels, wg, capacity, aggregating, database, faults, panicked>>

\* Slip (TypeOK): a send that does not block.
PollSendsPacketAnyway ==
    /\ Moves("poll", "send_packet", "loop")
    /\ to_agg' = Append(to_agg, in_hand)
    /\ in_hand' = None
    /\ UNCHANGED <<signals, agg_closed, to_per, per_closed, wg, records, capacity,
                   aggregating, database, faults, panicked>>

\* The send blocks while the channel is full.
PollSendsPacket ==
    /\ Moves("poll", "send_packet", "loop")
    /\ Len(to_agg) < AggCapacity
    /\ to_agg' = Append(to_agg, in_hand)
    /\ in_hand' = None
    /\ UNCHANGED <<signals, agg_closed, to_per, per_closed, wg, records, capacity,
                   aggregating, database, faults, panicked>>

\* A queue record tells the capacity; its sample is sent unless should_end.
PollQueue ==
    /\ Moves("poll", "read", IF should_end THEN "wg_done" ELSE "send_queue")
    /\ records < MaxRecords
    /\ records' = records + 1
    /\ capacity' = TRUE
    /\ in_hand' = IF should_end THEN None ELSE [kind |-> "queue", time |-> records']
    /\ UNCHANGED <<signals, channels, wg, aggregating, database, faults, panicked>>

PollSendsQueue ==
    /\ Moves("poll", "send_queue", "loop")
    /\ per_closed \/ Len(to_per) < PerCapacity
    /\ to_per' = IF per_closed THEN to_per ELSE Append(to_per, in_hand)
    /\ panicked' = per_closed
    /\ in_hand' = None
    /\ UNCHANGED <<signals, to_agg, agg_closed, per_closed, wg, records, capacity,
                   aggregating, database, faults>>

\* The deferred function: first Done, then the channel is closed.
PollDone ==
    /\ Moves("poll", "wg_done", "close")
    /\ wg' = wg - 1
    /\ UNCHANGED <<signals, channels, reading, aggregating, database, faults, panicked>>

PollCloses ==
    /\ Moves("poll", "close", "done")
    /\ agg_closed' = TRUE
    /\ UNCHANGED <<signals, to_agg, to_per, per_closed, wg, reading, aggregating,
                   database, faults, panicked>>

-----------------------------------------------------------------------------
(* agg                                                                     *)

Received == Head(to_agg)
Receive == to_agg # <<>> /\ to_agg' = Tail(to_agg)

\* A tick: the first message of a batch is waited for.  It gives the batch
\* its start time; it is not added to a measure.
AggFirst ==
    /\ Moves("agg", "first", "batch")
    /\ Receive
    /\ last' = Received.time
    /\ UNCHANGED <<signals, agg_closed, to_per, per_closed, wg, reading, batch,
                   database, faults, panicked>>

\* The channel is closed and empty: return, from either receive.  What the
\* batch holds is discarded.
AggEnds ==
    /\ \E from \in {"first", "batch"} : Moves("agg", from, "close")
    /\ to_agg = <<>> /\ agg_closed
    /\ batch' = [f \in Flows |-> Empty]
    /\ UNCHANGED <<signals, channels, wg, reading, last, database, faults, panicked>>

\* AggregateMeasure.add
Add(m, packet) ==
    IF packet.drop
    THEN [m EXCEPT !.drops = @ \cup {packet.time}]
    ELSE [m EXCEPT !.packets = @ \cup {packet.time}, !.known = @ \/ capacity]

\* The next message: its flow is persisted, the message added to the
\* measure of its flow.  Ten milliseconds after the first the batch is full.
AggAdds ==
    /\ \E to \in {"batch", "samples"} : Moves("agg", "batch", to)
    /\ Receive
    /\ last' = Received.time
    /\ db_flows' = db_flows \cup {Received.flow}
    /\ batch' = [batch EXCEPT ![Received.flow] = Add(@, Received)]
    /\ UNCHANGED <<signals, agg_closed, to_per, per_closed, wg, reading, stored,
                   faults, panicked>>

\* Persist(net_flow) fails: a fatal report, and aggregation is over.
AggAddFails ==
    /\ Moves("agg", "batch", "report")
    /\ Receive
    /\ flow_faults < FlowFaults
    /\ flow_faults' = flow_faults + 1
    /\ last' = Received.time
    /\ UNCHANGED <<signals, agg_closed, to_per, per_closed, wg, reading, batch,
                   database, read_faults, store_faults, panicked>>

AggReports ==
    /\ Report("agg", "report", "close", "fatal")
    /\ NothingElse

\* default: nothing to receive, the batch ends early.
AggPauses ==
    /\ Moves("agg", "batch", "samples")
    /\ to_agg = <<>> /\ ~agg_closed
    /\ NothingElse

Sample(f) ==
    [kind |-> "sample", flow |-> f, time |-> last,
     packets |-> batch[f].packets, drops |-> batch[f].drops, known |-> batch[f].known]

\* Slip (SamplesAreSound): only the capacity is asked for.
SkippedForCsv(f) == Csv /\ ~batch[f].known

\* A flow whose packets were all dropped gives no sample, and none whose
\* capacity is 0 when a csv file is written.
Skipped(f) == batch[f].packets = {} \/ (Csv /\ ~batch[f].known)

\* Slip (PacketsCountOnce): the map outlives the batch.
AggSampleKept(f) ==
    /\ ~panicked
    /\ pc["agg"] = "samples"
    /\ batch[f] # Empty
    /\ IF Skipped(f)
       THEN UNCHANGED to_per
       ELSE Len(to_per) < PerCapacity /\ to_per' = Append(to_per, Sample(f))
    /\ UNCHANGED <<signals, to_agg, agg_closed, per_closed, wg, pc, reading,
                   aggregating, database, faults, panicked>>

\* One flow of the batch, in any order.  The send blocks when the channel
\* is full.
AggSample(f) ==
    /\ ~panicked
    /\ pc["agg"] = "samples"
    /\ batch[f] # Empty
    /\ IF Skipped(f)
       THEN UNCHANGED to_per
       ELSE Len(to_per) < PerCapacity /\ to_per' = Append(to_per, Sample(f))
    /\ batch' = [batch EXCEPT ![f] = Empty]
    /\ UNCHANGED <<signals, to_agg, agg_closed, per_closed, wg, pc, reading, last,
                   database, faults, panicked>>

AggNext ==
    /\ Moves("agg", "samples", "first")
    /\ \A f \in Flows : batch[f] = Empty
    /\ NothingElse

\* The deferred function: first the channel is closed, then Done.
AggCloses ==
    /\ Moves("agg", "close", "wg_done")
    /\ per_closed' = TRUE
    /\ UNCHANGED <<signals, to_agg, agg_closed, to_per, wg, reading, aggregating,
                   database, faults, panicked>>

AggDone ==
    /\ Moves("agg", "wg_done", "done")
    /\ wg' = wg - 1
    /\ UNCHANGED <<signals, channels, reading, aggregating, database, faults, panicked>>

-----------------------------------------------------------------------------
(* persistor                                                               *)

\* Run's select: the exit signal ends it, the ticker makes it drain.  When
\* both are ready either may be chosen.
PersistorExits ==
    /\ Moves("persistor", "select", "wg_done")
    /\ exit_persistor
    /\ NothingElse

PersistorTick ==
    /\ Moves("persistor", "select", "drain")
    /\ NothingElse

\* A sample without a capacity is not stored.
Stores(sample) ==
    IF sample.kind = "sample" /\ ~sample.known THEN stored ELSE Append(stored, sample)

PersistorStores ==
    /\ ~panicked
    /\ pc["persistor"] = "drain"
    /\ to_per # <<>>
    /\ to_per' = Tail(to_per)
    /\ stored' = Stores(Head(to_per))
    /\ UNCHANGED <<signals, to_agg, agg_closed, per_closed, wg, pc, reading,
                   aggregating, db_flows, faults, panicked>>

\* Slip (SamplesInOrder): a sample that fails is queued once more.
PersistorRequeues ==
    /\ Moves("persistor", "drain", "report")
    /\ to_per # <<>>
    /\ store_faults < StoreFaults
    /\ store_faults' = store_faults + 1
    /\ to_per' = Append(Tail(to_per), Head(to_per))
    /\ UNCHANGED <<signals, to_agg, agg_closed, per_closed, wg, reading, aggregating,
                   database, read_faults, flow_faults, panicked>>

\* Persist fails: the sample is lost, report_error sends without a timeout.
PersistorFails ==
    /\ Moves("persistor", "drain", "report")
    /\ to_per # <<>>
    /\ store_faults < StoreFaults
    /\ store_faults' = store_faults + 1
    /\ to_per' = Tail(to_per)
    /\ UNCHANGED <<signals, to_agg, agg_closed, per_closed, wg, reading, aggregating,
                   database, read_faults, flow_faults, panicked>>

PersistorReports ==
    /\ Taken("persistor", "report", "drain", "fatal")
    /\ NothingElse

\* Nothing left to receive: commit, and back to the select.
PersistorDrained ==
    /\ Moves("persistor", "drain", "select")
    /\ to_per = <<>> /\ ~per_closed
    /\ NothingElse

\* Slip (StartReturnsLast): a return without done().
PersistorSeesClosedReturns ==
    /\ Moves("persistor", "drain", "done")
    /\ to_per = <<>> /\ per_closed
    /\ NothingElse

PersistorSeesClosed ==
    /\ Moves("persistor", "drain", "wg_done")
    /\ to_per = <<>> /\ per_closed
    /\ NothingElse

\* close() and done()
PersistorDone ==
    /\ Moves("persistor", "wg_done", "done")
    /\ wg' = wg - 1
    /\ UNCHANGED <<signals, channels, reading, aggregating, database, faults, panicked>>

-----------------------------------------------------------------------------

Exiter == ExitPoll \/ ExitPersistor

Listener == ListenerExits \/ ListenerSeesExit

PollReads == PollNothing \/ PollReadFails \/ PollPacket \/ PollQueue

PollTidies ==
    \/ PollOpenFails \/ PollReportsOpen \/ PollOpens
    \/ PollGoesOn \/ PollEnds
    \/ PollReports
    \/ PollSendsPacket \/ PollSendsQueue
    \/ PollDone \/ PollCloses

Poll == PollReads \/ PollTidies

Agg ==
    \/ AggFirst \/ AggAdds \/ AggAddFails \/ AggReports \/ AggPauses
    \/ (\E f \in Flows : AggSample(f))
    \/ AggNext
    \/ AggEnds \/ AggCloses \/ AggDone

Persistor ==
    \/ PersistorExits \/ PersistorTick
    \/ PersistorStores \/ PersistorFails \/ PersistorReports
    \/ PersistorDrained \/ PersistorSeesClosed
    \/ PersistorDone

\* Start has returned, or the process is gone.
Over == (pc["start"] = "done" \/ panicked) /\ UNCHANGED vars

Next == ExternExit \/ Listener \/ Exiter \/ StartReturns \/ Poll \/ Agg \/ Persistor \/ Over

(***************************************************************************)
(* Go schedules every goroutine that can go on.  The persistor's select    *)
(* chooses at random between the ticker and the exit channel, so it takes  *)
(* the exit that is always offered eventually: strong fairness, because    *)
(* each drain in between disables it.                                      *)
(***************************************************************************)
Fairness ==
    /\ WF_vars(Listener)
    /\ WF_vars(Exiter)
    /\ WF_vars(StartReturns)
    /\ WF_vars(Poll)
    /\ WF_vars(Agg)
    /\ WF_vars(Persistor)
    /\ SF_vars(PersistorExits)

SafetySpec == Init /\ [][Next]_vars

Spec == SafetySpec /\ Fairness

-----------------------------------------------------------------------------

Times == 1..MaxRecords

Measures == [packets : SUBSET Times, drops : SUBSET Times, known : BOOLEAN]

Packets == [kind : {"packet"}, flow : Flows, time : Times, drop : BOOLEAN]
QueueSamples == [kind : {"queue"}, time : Times]
PacketSamples ==
    [kind : {"sample"}, flow : Flows, time : Times,
     packets : SUBSET Times, drops : SUBSET Times, known : BOOLEAN]
Samples == QueueSamples \cup PacketSamples

Places == [
    start |-> {"wait", "done"},
    exiter |-> {"wait", "exit_persistor", "done"},
    poll |-> {"open", "report_open", "blind", "loop", "read", "report", "send_packet",
              "send_queue", "wg_done", "close", "done"},
    agg |-> {"first", "batch", "samples", "report", "close", "wg_done", "done"},
    persistor |-> {"select", "drain", "report", "wg_done", "done"},
    listener |-> {"select", "exit_nowait", "done"}]

TypeOK ==
    /\ {exit, should_end, exit_persistor, agg_closed, per_closed, capacity, panicked}
           \subseteq BOOLEAN
    /\ to_agg \in Seq(Packets) /\ Len(to_agg) <= AggCapacity
    /\ to_per \in Seq(Samples) /\ Len(to_per) <= PerCapacity
    /\ wg \in 0..3
    /\ DOMAIN pc = Goroutines
    /\ \A g \in Goroutines : pc[g] \in Places[g]
    /\ records \in 0..MaxRecords
    /\ in_hand \in {None, [kind |-> "short"], [kind |-> "type"]} \cup Packets \cup QueueSamples
    /\ last \in 0..MaxRecords
    /\ batch \in [Flows -> Measures]
    /\ db_flows \subseteq Flows
    /\ stored \in Seq(Samples)
    /\ read_faults \in 0..MaxReadFaults
    /\ flow_faults \in 0..FlowFaults
    /\ store_faults \in 0..StoreFaults

\* All that has reached the persistor and is not lost, oldest first, and the
\* places of the samples the aggregation has sent.
Sent == stored \o to_per

Emitted == {i \in DOMAIN Sent : Sent[i].kind = "sample"}

Counted(m) == m.packets \cup m.drops

(***************************************************************************)
(* No packet is counted twice: neither in two samples, nor in one that has *)
(* left and one that is being built, nor again while it is still queued,   *)
(* even though a batch ends by time, by an empty channel or by a closed    *)
(* one, and the map of the batch is walked in any order.                   *)
(***************************************************************************)
PacketsCountOnce ==
    /\ \A i, j \in Emitted : i # j => Counted(Sent[i]) \cap Counted(Sent[j]) = {}
    /\ \A f, g \in Flows : f # g => Counted(batch[f]) \cap Counted(batch[g]) = {}
    /\ \A i \in Emitted, f \in Flows : Counted(Sent[i]) \cap Counted(batch[f]) = {}
    /\ \A k \in DOMAIN to_agg :
           /\ \A f \in Flows : to_agg[k].time \notin Counted(batch[f])
           /\ \A i \in Emitted : to_agg[k].time \notin Counted(Sent[i])

(***************************************************************************)
(* A sample can be computed and stored: it has a packet that was not       *)
(* dropped (toDB_measure_packet divides by their number), its flow is in   *)
(* the database before it (Fk_flow_id refers to it) and none of its        *)
(* packets is younger than the time it is given.                           *)
(***************************************************************************)
SamplesAreSound ==
    \A i \in Emitted :
        /\ Sent[i].packets # {}
        /\ Sent[i].flow \in db_flows
        /\ \A t \in Counted(Sent[i]) : t <= Sent[i].time

(***************************************************************************)
(* The samples of a flow reach the database in the order of their times:   *)
(* whatever drplay prints or stores later never goes back in time.         *)
(***************************************************************************)
SamplesInOrder ==
    \A i, j \in Emitted :
        i < j /\ Sent[i].flow = Sent[j].flow => Sent[i].time <= Sent[j].time

(***************************************************************************)
(* No goroutine sends on a channel that is closed: poll is done with       *)
(* chan_to_persistence when the aggregation closes it.  The only panic is  *)
(* that of poll after a flow could not be stored, when the aggregation     *)
(* returns, and closes the channel, on its own.                            *)
(***************************************************************************)
NoSendOnClosed == panicked => flow_faults > 0

\* Where a goroutine stands once it has called m.wg.Done().
DoneCalled == [poll |-> {"close", "done"}, agg |-> {"done"}, persistor |-> {"done"}]

(***************************************************************************)
(* Start returns, and DrpPlayer tears the session down, only when poll,    *)
(* aggregation and persistor are done with it: the counter of m.wg is the  *)
(* number of those that have not called Done.                              *)
(***************************************************************************)
StartReturnsLast ==
    /\ wg = Cardinality({g \in {"poll", "agg", "persistor"} : pc[g] \notin DoneCalled[g]})
    /\ pc["start"] = "done" =>
           \A g \in {"poll", "agg", "persistor"} : pc[g] \in DoneCalled[g]

(***************************************************************************)
(* After the exit signal the measure session ends, unless what is still to *)
(* be sent to the persistor finds its channel full: that is the only place *)
(* where a goroutine can be stuck.                                         *)
(***************************************************************************)
SessionEnds == <>[](exit => pc["start"] = "done" \/ Len(to_per) = PerCapacity)

(***************************************************************************)
(* While nobody asks for the exit nothing gets stuck: poll comes back to   *)
(* its loop and everything that was sent is stored or left out for lack    *)
(* of a capacity, even when the channels are as small as can be.           *)
(***************************************************************************)
PipelineFlows ==
    \A n \in Times :
        (records = n) ~> (exit \/ (in_hand = None /\ to_agg = <<>> /\ to_per = <<>>))

(***************************************************************************)
(* "Blocking, releases Wg" (persistor.go:149): Run releases the WaitGroup  *)
(* once it is told to exit.  It is violated when Persist fails after the   *)
(* listener is gone.                                                       *)
(***************************************************************************)
PersistorReleases == exit_persistor ~> pc["persistor"] = "done"

=============================================================================

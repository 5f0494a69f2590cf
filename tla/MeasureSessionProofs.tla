------------------------ MODULE MeasureSessionProofs ------------------------
(***************************************************************************)
(* What MeasureSession promises of its goroutines and channels, for any    *)
(* number of flows, records and failures and channels of any size: types,  *)
(* who may still send on which channel, when Start returns, and that every *)
(* packet is counted once, in samples that are sound and in order.         *)
(***************************************************************************)
EXTENDS MeasureSession, FiniteSetTheorems, TLAPS

\* What a goroutine that Start waits for still owes m.wg.
Owes(g) == IF pc[g] \in DoneCalled[g] THEN 0 ELSE 1

\* poll has in its hand what it is about to send.
Sends ==
    /\ pc["poll"] = "send_packet" => in_hand \in Packets
    /\ pc["poll"] = "send_queue" => in_hand \in QueueSamples

\* A batch has the time of a message.
Timed == pc["agg"] \in {"batch", "samples", "report"} => last \in Times

\* Every goroutine calls Done once, and Start has seen all three.
Counts ==
    /\ wg = Owes("poll") + Owes("agg") + Owes("persistor")
    /\ pc["start"] = "done" => wg = 0

\* A channel is closed by its last sender, unless a flow could not be stored.
ClosedLast ==
    /\ agg_closed => pc["poll"] = "done"
    /\ pc["agg"] = "report" => flow_faults > 0
    /\ pc["agg"] \in {"close", "wg_done", "done"} => agg_closed \/ flow_faults > 0
    /\ per_closed => pc["agg"] \in {"wg_done", "done"}
    /\ panicked => flow_faults > 0

Inv == TypeOK /\ Sends /\ Timed /\ Counts /\ ClosedLast

-----------------------------------------------------------------------------

(***************************************************************************)
(* What a receive and a send leave of a channel.                           *)
(***************************************************************************)
LEMMA TailFacts ==
    ASSUME NEW S, NEW s \in Seq(S), s # <<>>
    PROVE  Head(s) \in S /\ Tail(s) \in Seq(S) /\ Len(Tail(s)) <= Len(s) /\ Len(s) \in Nat
OBVIOUS

\* The types of a channel that was sent on.
LEMMA AppendFacts ==
    ASSUME NEW S, NEW s \in Seq(S), NEW e \in S
    PROVE  Append(s, e) \in Seq(S) /\ Len(Append(s, e)) = Len(s) + 1 /\ Len(s) \in Nat
OBVIOUS

\* The types of a packet that is received.
LEMMA ReceiveFacts ==
    ASSUME TypeOK, Receive
    PROVE  /\ Received \in Packets /\ Received.time \in Times /\ Received.flow \in Flows
           /\ to_agg' \in Seq(Packets) /\ Len(to_agg') <= AggCapacity
<1>1. to_agg \in Seq(Packets) /\ Len(to_agg) <= AggCapacity
  BY DEF TypeOK
<1>2. to_agg # <<>> /\ to_agg' = Tail(to_agg)
  BY DEF Receive
<1>3. Head(to_agg) \in Packets /\ Tail(to_agg) \in Seq(Packets) /\ Len(Tail(to_agg)) <= Len(to_agg)
      /\ Len(to_agg) \in Nat /\ Len(Tail(to_agg)) \in Nat
  BY <1>1, <1>2, TailFacts
<1>4. Len(to_agg') <= AggCapacity
  BY <1>1, <1>2, <1>3, MeasureAssumption
<1>5. QED
  BY <1>1, <1>2, <1>3, <1>4 DEF Received, Packets

(***************************************************************************)
(* AggregateMeasure.add returns a measure.                                 *)
(***************************************************************************)
LEMMA AddFacts ==
    ASSUME NEW m \in Measures, NEW packet \in Packets, capacity \in BOOLEAN
    PROVE  Add(m, packet) \in Measures
<1>1. packet.time \in Times
  BY DEF Packets
<1>2. CASE packet.drop
  BY <1>1, <1>2 DEF Add, Measures
<1>3. CASE ~packet.drop
  <2>1. Add(m, packet) = [m EXCEPT !.packets = m.packets \cup {packet.time},
                                   !.known = m.known \/ capacity]
    BY <1>3 DEF Add
  <2>2. (m.known \/ capacity) \in BOOLEAN
    OBVIOUS
  <2>3. m.packets \cup {packet.time} \in SUBSET Times
    BY <1>1 DEF Measures
  <2>4. QED
    BY <2>1, <2>2, <2>3 DEF Measures
<1>4. QED
  BY <1>2, <1>3

(***************************************************************************)
(* The exit signal, the listener and Start.                                *)
(***************************************************************************)
LEMMA OutsideInv == Inv /\ (ExternExit \/ Listener \/ Exiter \/ StartReturns) => Inv'
<1> SUFFICES ASSUME Inv, (ExternExit \/ Listener \/ Exiter \/ StartReturns) PROVE Inv'
  OBVIOUS
<1> USE DEF Inv, TypeOK, Sends, Timed, Counts, ClosedLast, Owes, DoneCalled, Goroutines, Places,
            Moves, NothingElse, signals, channels, reading, aggregating, database, faults
<1>1. CASE ExternExit
  BY <1>1, MeasureAssumption DEF ExternExit
<1>2. CASE ListenerExits
  BY <1>2, MeasureAssumption DEF ListenerExits
<1>3. CASE ListenerSeesExit
  BY <1>3, MeasureAssumption DEF ListenerSeesExit
<1>4. CASE ExitPoll
  BY <1>4, MeasureAssumption DEF ExitPoll
<1>5. CASE ExitPersistor
  BY <1>5, MeasureAssumption DEF ExitPersistor
<1>6. CASE StartReturns
  BY <1>6, MeasureAssumption DEF StartReturns
<1>7. QED
  BY <1>1, <1>2, <1>3, <1>4, <1>5, <1>6 DEF Listener, Exiter

(***************************************************************************)
(* poll, from the open to the close of its channel.                        *)
(***************************************************************************)
LEMMA PollInv == Inv /\ Poll => Inv'
<1> SUFFICES ASSUME Inv, Poll PROVE Inv'
  OBVIOUS
<1> USE DEF Inv, TypeOK, Sends, Timed, Counts, ClosedLast, Owes, DoneCalled, Goroutines, Places,
            Moves, NothingElse, signals, channels, reading, aggregating, database, faults
<1>1. CASE PollNothing
  BY <1>1, MeasureAssumption DEF PollNothing
<1>2. CASE PollReadFails
  <2>1. /\ in_hand' \in {[kind |-> "short"], [kind |-> "type"]}
        /\ read_faults' \in 0..MaxReadFaults
    BY <1>2, MeasureAssumption DEF PollReadFails, MaxReadFaults
  <2>2. /\ Moves("poll", "read", "report")
        /\ UNCHANGED <<signals, channels, wg, records, capacity, aggregating, database,
                       flow_faults, store_faults, panicked>>
    BY <1>2 DEF PollReadFails
  <2>3. QED
    BY <2>1, <2>2
<1>3. CASE PollPacket
  <2>1. records' \in Times
    BY <1>3, MeasureAssumption DEF PollPacket, Times
  <2>2. in_hand' \in Packets
    BY <1>3, <2>1 DEF PollPacket, Packets
  <2>3. /\ Moves("poll", "read", "send_packet")
        /\ UNCHANGED <<signals, channels, wg, capacity, aggregating, database, faults, panicked>>
    BY <1>3 DEF PollPacket
  <2>4. QED
    BY <2>1, <2>2, <2>3 DEF Times
<1>4. CASE PollQueue
  <2>1. records' \in Times
    BY <1>4, MeasureAssumption DEF PollQueue, Times
  <2>2. in_hand' = None \/ in_hand' \in QueueSamples
    BY <1>4, <2>1 DEF PollQueue, QueueSamples
  <2>3. /\ capacity' = TRUE
        /\ UNCHANGED <<signals, channels, wg, aggregating, database, faults, panicked>>
    BY <1>4 DEF PollQueue
  <2>4. CASE should_end
    BY <1>4, <2>1, <2>2, <2>3, <2>4 DEF PollQueue, Times
  <2>5. CASE ~should_end
    <3>1. in_hand' \in QueueSamples /\ Moves("poll", "read", "send_queue")
      BY <1>4, <2>1, <2>5 DEF PollQueue, QueueSamples
    <3>2. QED
      BY <2>1, <2>3, <3>1 DEF Times
  <2>6. QED
    BY <2>4, <2>5
<1>5. CASE PollOpenFails
  BY <1>5, MeasureAssumption DEF PollOpenFails
<1>6. CASE PollReportsOpen
  BY <1>6, MeasureAssumption DEF PollReportsOpen, Report, Taken, Dropped
<1>7. CASE PollOpens
  BY <1>7, MeasureAssumption DEF PollOpens
<1>8. CASE PollGoesOn
  BY <1>8, MeasureAssumption DEF PollGoesOn
<1>9. CASE PollEnds
  BY <1>9, MeasureAssumption DEF PollEnds
<1>10. CASE PollReports
  BY <1>10, MeasureAssumption DEF PollReports, Report, Taken, Dropped
<1>11. CASE PollSendsPacket
  BY <1>11, MeasureAssumption DEF PollSendsPacket
<1>12. CASE PollSendsQueue
  <2>1. in_hand \in Samples
    BY <1>12 DEF PollSendsQueue, Samples
  <2>2. to_per' \in Seq(Samples) /\ Len(to_per') <= PerCapacity
    BY <1>12, <2>1, MeasureAssumption DEF PollSendsQueue
  <2>3. panicked' \in BOOLEAN /\ (panicked' => flow_faults > 0)
    BY <1>12 DEF PollSendsQueue
  <2>4. /\ Moves("poll", "send_queue", "loop") /\ in_hand' = None
        /\ UNCHANGED <<signals, to_agg, agg_closed, per_closed, wg, records, capacity,
                       aggregating, database, faults>>
    BY <1>12 DEF PollSendsQueue
  <2>5. QED
    BY <2>2, <2>3, <2>4
<1>13. CASE PollDone
  BY <1>13, MeasureAssumption DEF PollDone
<1>14. CASE PollCloses
  BY <1>14, MeasureAssumption DEF PollCloses
<1>15. QED
  BY <1>1, <1>2, <1>3, <1>4, <1>5, <1>6, <1>7, <1>8, <1>9, <1>10, <1>11, <1>12, <1>13, <1>14 DEF Poll, PollReads, PollTidies

(***************************************************************************)
(* The aggregation.                                                        *)
(***************************************************************************)
LEMMA AggInv == Inv /\ Agg => Inv'
<1> SUFFICES ASSUME Inv, Agg PROVE Inv'
  OBVIOUS
<1> USE DEF Inv, TypeOK, Sends, Timed, Counts, ClosedLast, Owes, DoneCalled, Goroutines, Places,
            Moves, NothingElse, signals, channels, reading, aggregating, database, faults
<1>1. CASE AggFirst
  <2>1. /\ Received \in Packets /\ Received.time \in Times /\ Received.flow \in Flows
        /\ to_agg' \in Seq(Packets) /\ Len(to_agg') <= AggCapacity
    BY <1>1, ReceiveFacts DEF AggFirst
  <2>2. last' \in Times
    BY <1>1, <2>1 DEF AggFirst
  <2>3. /\ Moves("agg", "first", "batch")
        /\ UNCHANGED <<signals, agg_closed, to_per, per_closed, wg, reading, batch,
                       database, faults, panicked>>
    BY <1>1 DEF AggFirst
  <2>4. QED
    BY <2>1, <2>2, <2>3 DEF Times
<1>2. CASE AggAdds
  <2>1. /\ Received \in Packets /\ Received.time \in Times /\ Received.flow \in Flows
        /\ to_agg' \in Seq(Packets) /\ Len(to_agg') <= AggCapacity
    BY <1>2, ReceiveFacts DEF AggAdds
  <2>2. last' \in Times /\ db_flows' \subseteq Flows
    BY <1>2, <2>1 DEF AggAdds
  <2>3. Add(batch[Received.flow], Received) \in Measures
    BY <2>1, AddFacts
  <2>4. batch' \in [Flows -> Measures]
    BY <1>2, <2>1, <2>3 DEF AggAdds
  <2>5. /\ \E to \in {"batch", "samples"} : Moves("agg", "batch", to)
        /\ UNCHANGED <<signals, agg_closed, to_per, per_closed, wg, reading, stored,
                       faults, panicked>>
    BY <1>2 DEF AggAdds
  <2>6. QED
    BY <2>1, <2>2, <2>4, <2>5 DEF Times
<1>3. CASE AggAddFails
  <2>1. /\ Received \in Packets /\ Received.time \in Times /\ Received.flow \in Flows
        /\ to_agg' \in Seq(Packets) /\ Len(to_agg') <= AggCapacity
    BY <1>3, ReceiveFacts DEF AggAddFails
  <2>2. last' \in Times
    BY <1>3, <2>1 DEF AggAddFails
  <2>3. flow_faults' \in 0..FlowFaults /\ flow_faults' > 0
    BY <1>3, MeasureAssumption DEF AggAddFails
  <2>4. /\ Moves("agg", "batch", "report")
        /\ UNCHANGED <<signals, agg_closed, to_per, per_closed, wg, reading, batch,
                       database, read_faults, store_faults, panicked>>
    BY <1>3 DEF AggAddFails
  <2>5. QED
    BY <2>1, <2>2, <2>3, <2>4 DEF Times
<1>4. CASE AggReports
  BY <1>4, MeasureAssumption DEF AggReports, Report, Taken, Dropped
<1>5. CASE AggPauses
  BY <1>5, MeasureAssumption DEF AggPauses
<1>6. CASE \E f \in Flows : AggSample(f)
  <2> PICK f \in Flows : AggSample(f)
    BY <1>6
  <2>1. Sample(f) \in Samples
    BY DEF AggSample, Sample, Samples, PacketSamples, Measures
  <2>2. to_per' = to_per \/ (to_per' = Append(to_per, Sample(f)) /\ Len(to_per) < PerCapacity)
    BY DEF AggSample
  <2>3. to_per' \in Seq(Samples) /\ Len(to_per') <= PerCapacity
    <3>1. CASE to_per' = to_per
      BY <3>1
    <3>2. CASE to_per' = Append(to_per, Sample(f)) /\ Len(to_per) < PerCapacity
      <4>1. /\ to_per' \in Seq(Samples) /\ Len(to_per') = Len(to_per) + 1
            /\ Len(to_per) \in Nat
        BY <2>1, <3>2, AppendFacts
      <4>2. QED
        BY <3>2, <4>1, MeasureAssumption
    <3>3. QED
      BY <2>2, <3>1, <3>2
  <2>4. batch' \in [Flows -> Measures]
    BY DEF AggSample, Empty, Measures
  <2>5. UNCHANGED <<signals, to_agg, agg_closed, per_closed, wg, pc, reading, last,
                    database, faults, panicked>>
    BY DEF AggSample
  <2>6. QED
    BY <2>3, <2>4, <2>5
<1>7. CASE AggNext
  BY <1>7, MeasureAssumption DEF AggNext
<1>8. CASE AggEnds
  <2>1. batch' \in [Flows -> Measures]
    BY <1>8 DEF AggEnds, Empty, Measures
  <2>2. /\ \E from \in {"first", "batch"} : Moves("agg", from, "close")
        /\ agg_closed
        /\ UNCHANGED <<signals, channels, wg, reading, last, database, faults, panicked>>
    BY <1>8 DEF AggEnds
  <2>3. QED
    BY <2>1, <2>2
<1>9. CASE AggCloses
  BY <1>9, MeasureAssumption DEF AggCloses
<1>10. CASE AggDone
  BY <1>10, MeasureAssumption DEF AggDone
<1>11. QED
  BY <1>1, <1>2, <1>3, <1>4, <1>5, <1>6, <1>7, <1>8, <1>9, <1>10 DEF Agg

(***************************************************************************)
(* The persistor.                                                          *)
(***************************************************************************)
LEMMA PersistorInv == Inv /\ Persistor => Inv'
<1> SUFFICES ASSUME Inv, Persistor PROVE Inv'
  OBVIOUS
<1> USE DEF Inv, TypeOK, Sends, Timed, Counts, ClosedLast, Owes, DoneCalled, Goroutines, Places,
            Moves, NothingElse, signals, channels, reading, aggregating, database, faults
<1>1. CASE PersistorExits
  BY <1>1, MeasureAssumption DEF PersistorExits
<1>2. CASE PersistorTick
  BY <1>2, MeasureAssumption DEF PersistorTick
<1>3. CASE PersistorStores
  <2>1. /\ Head(to_per) \in Samples
        /\ to_per' \in Seq(Samples) /\ Len(to_per') <= PerCapacity
    BY <1>3, MeasureAssumption DEF PersistorStores
  <2>2. stored' \in Seq(Samples)
    BY <1>3, <2>1 DEF PersistorStores, Stores
  <2>3. UNCHANGED <<signals, to_agg, agg_closed, per_closed, wg, pc, reading,
                    aggregating, db_flows, faults, panicked>>
    BY <1>3 DEF PersistorStores
  <2>4. QED
    BY <2>1, <2>2, <2>3
<1>4. CASE PersistorFails
  BY <1>4, MeasureAssumption DEF PersistorFails
<1>5. CASE PersistorReports
  <2>1. pc' = [pc EXCEPT !["persistor"] = "drain", !["listener"] = "exit_nowait"]
    BY <1>5 DEF PersistorReports, Taken
  <2>2. pc["persistor"] = "report" /\ NothingElse
    BY <1>5 DEF PersistorReports, Taken
  <2>3. /\ DOMAIN pc' = Goroutines
        /\ \A g \in {"start", "exiter", "poll", "agg"} : pc'[g] = pc[g]
        /\ pc'["persistor"] = "drain" /\ pc'["listener"] = "exit_nowait"
    BY <2>1
  <2>4. TypeOK'
    BY <2>2, <2>3
  <2>5. QED
    BY <2>2, <2>3, <2>4
<1>6. CASE PersistorDrained
  BY <1>6, MeasureAssumption DEF PersistorDrained
<1>7. CASE PersistorSeesClosed
  BY <1>7, MeasureAssumption DEF PersistorSeesClosed
<1>8. CASE PersistorDone
  BY <1>8, MeasureAssumption DEF PersistorDone
<1>9. QED
  BY <1>1, <1>2, <1>3, <1>4, <1>5, <1>6, <1>7, <1>8 DEF Persistor

(***************************************************************************)
(* Inv is inductive.                                                       *)
(***************************************************************************)
LEMMA Invariance == SafetySpec => []Inv
<1>1. Init => Inv
  <2> SUFFICES ASSUME Init PROVE Inv
    OBVIOUS
  <2>1. /\ pc["poll"] = "open" /\ pc["agg"] = "first" /\ pc["persistor"] = "select"
        /\ pc["start"] = "wait" /\ pc["exiter"] = "wait" /\ pc["listener"] = "select"
        /\ DOMAIN pc = Goroutines
    BY DEF Init, Goroutines
  <2>2. /\ to_agg = <<>> /\ to_per = <<>> /\ stored = <<>> /\ wg = 3 /\ in_hand = None
        /\ records = 0 /\ last = 0 /\ db_flows = {}
        /\ read_faults = 0 /\ flow_faults = 0 /\ store_faults = 0
        /\ exit = FALSE /\ should_end = FALSE /\ exit_persistor = FALSE /\ agg_closed = FALSE
        /\ per_closed = FALSE /\ capacity = FALSE /\ panicked = FALSE
    BY DEF Init
  <2>3. batch \in [Flows -> Measures]
    BY DEF Init, Empty, Measures
  <2>4. \A g \in Goroutines : pc[g] \in Places[g]
    BY <2>1 DEF Goroutines, Places
  <2>5. /\ to_agg \in Seq(Packets) /\ Len(to_agg) <= AggCapacity
        /\ to_per \in Seq(Samples) /\ Len(to_per) <= PerCapacity
        /\ stored \in Seq(Samples)
    BY <2>2, MeasureAssumption
  <2>6. /\ records \in 0..MaxRecords /\ last \in 0..MaxRecords /\ read_faults \in 0..MaxReadFaults
        /\ flow_faults \in 0..FlowFaults /\ store_faults \in 0..StoreFaults
    BY <2>2, MeasureAssumption DEF MaxReadFaults
  <2>7. /\ wg = 3 /\ in_hand = None /\ db_flows = {}
        /\ {exit, should_end, exit_persistor, agg_closed, per_closed, capacity, panicked}
               \subseteq BOOLEAN
    BY DEF Init
  <2>8. in_hand \in {None, [kind |-> "short"], [kind |-> "type"]} \cup Packets \cup QueueSamples
    BY <2>7
  <2>9. wg \in 0..3 /\ db_flows \subseteq Flows
    BY <2>7
  <2>10. TypeOK
    BY <2>1, <2>3, <2>4, <2>5, <2>6, <2>7, <2>8, <2>9 DEF TypeOK
  <2>11. QED
    BY <2>1, <2>2, <2>10 DEF Inv, Sends, Timed, Counts, ClosedLast, Owes, DoneCalled
<1>2. Inv /\ [Next]_vars => Inv'
  <2>1. Inv /\ UNCHANGED vars => Inv'
    BY DEF Inv, TypeOK, Sends, Timed, Counts, ClosedLast, Owes, vars, signals, channels, reading,
       aggregating, database, faults
  <2>2. QED
    BY <2>1, OutsideInv, PollInv, AggInv, PersistorInv DEF Next, Over
<1>3. QED
  BY <1>1, <1>2, PTL DEF SafetySpec

-----------------------------------------------------------------------------

(***************************************************************************)
(* The channels hold what their readers expect and never more than their   *)
(* buffers, whatever those are.                                            *)
(***************************************************************************)
THEOREM TypeCorrect == SafetySpec => []TypeOK
<1>1. Inv => TypeOK
  BY DEF Inv
<1>2. QED
  BY <1>1, Invariance, PTL

(***************************************************************************)
(* Nobody sends on a closed channel as long as every flow can be stored.   *)
(***************************************************************************)
THEOREM NoPanic == SafetySpec => []NoSendOnClosed
<1>1. Inv => NoSendOnClosed
  BY DEF Inv, ClosedLast, NoSendOnClosed
<1>2. QED
  BY <1>1, Invariance, PTL

(***************************************************************************)
(* Adding to a finite set one element that may be there or not.            *)
(***************************************************************************)
LEMMA CardinalityStep ==
    ASSUME NEW S, IsFiniteSet(S), NEW x, x \notin S, NEW b \in BOOLEAN
    PROVE  LET T == IF b THEN S \cup {x} ELSE S
           IN  IsFiniteSet(T) /\ Cardinality(T) = Cardinality(S) + (IF b THEN 1 ELSE 0)
BY FS_AddElement, FS_CardinalityType

(***************************************************************************)
(* Start returns after all three workers have called Done.                 *)
(***************************************************************************)
THEOREM StartCorrect == SafetySpec => []StartReturnsLast
<1>1. Inv => StartReturnsLast
  <2> SUFFICES ASSUME Inv PROVE StartReturnsLast
    OBVIOUS
  <2> DEFINE Owing(g) == pc[g] \notin DoneCalled[g]
  <2> DEFINE A == IF Owing("poll") THEN {"poll"} ELSE {}
  <2> DEFINE B == IF Owing("agg") THEN A \cup {"agg"} ELSE A
  <2> DEFINE C == IF Owing("persistor") THEN B \cup {"persistor"} ELSE B
  <2>1. IsFiniteSet({}) /\ Cardinality({}) = 0
    BY FS_EmptySet
  <2>2. IsFiniteSet(A) /\ Cardinality(A) = Owes("poll")
    <3>1. CASE Owing("poll")
      BY <3>1, FS_Singleton DEF Owes
    <3>2. CASE ~Owing("poll")
      BY <2>1, <3>2 DEF Owes
    <3>3. QED
      BY <3>1, <3>2
  <2>3. IsFiniteSet(B) /\ Cardinality(B) = Cardinality(A) + Owes("agg")
    <3> "agg" \notin A
      OBVIOUS
    <3> QED
      BY <2>2, CardinalityStep DEF Owes
  <2>4. Cardinality(C) = Cardinality(B) + Owes("persistor")
    <3> "persistor" \notin B
      OBVIOUS
    <3> QED
      BY <2>3, CardinalityStep DEF Owes
  <2>5. C = {g \in {"poll", "agg", "persistor"} : pc[g] \notin DoneCalled[g]}
    OBVIOUS
  <2>6. wg = Cardinality(C)
    BY <2>2, <2>3, <2>4 DEF Inv, Counts
  <2>7. pc["start"] = "done" => \A g \in {"poll", "agg", "persistor"} : Owes(g) = 0
    BY DEF Inv, Counts, Owes
  <2>8. QED
    BY <2>5, <2>6, <2>7 DEF StartReturnsLast, Owes
<1>2. QED
  BY <1>1, Invariance, PTL

-----------------------------------------------------------------------------
(* The samples.                                                            *)

\* What every sample that has left the aggregation keeps to ...
Sound(s) ==
    /\ s.packets # {}
    /\ s.flow \in db_flows
    /\ \A t \in Counted(s) : t <= s.time
    /\ s.time <= last
    /\ \A f \in Flows : Counted(s) \cap Counted(batch[f]) = {}

\* ... and every two of them.
Apart(r, s) == Counted(r) \cap Counted(s) = {} /\ r.time <= s.time

SentInOrder ==
    /\ \A i \in Emitted : Sound(Sent[i])
    /\ \A i, j \in Emitted : i < j => Apart(Sent[i], Sent[j])

\* The batch holds packets that were received, each at one flow.
BatchReceived ==
    /\ \A f \in Flows : \A t \in Counted(batch[f]) : t <= last
    /\ \A f \in Flows : batch[f] # Empty => f \in db_flows
    /\ \A f, g \in Flows : f # g => Counted(batch[f]) \cap Counted(batch[g]) = {}

\* What is received next is younger: packets are read, queued and received
\* in one order.
QueueInOrder ==
    /\ last <= records
    /\ \A k \in DOMAIN to_agg : last < to_agg[k].time /\ to_agg[k].time <= records
    /\ \A k, l \in DOMAIN to_agg : k < l => to_agg[k].time < to_agg[l].time
    /\ pc["poll"] = "send_packet" =>
           /\ in_hand.time = records
           /\ last < records
           /\ \A k \in DOMAIN to_agg : to_agg[k].time < records

Data == SentInOrder /\ BatchReceived /\ QueueInOrder

-----------------------------------------------------------------------------

(***************************************************************************)
(* Places in a concatenation, after its head has moved or gone, or an      *)
(* element was added.                                                      *)
(***************************************************************************)
LEMMA ConcatFacts ==
    ASSUME NEW S, NEW s \in Seq(S), NEW t \in Seq(S)
    PROVE  /\ s \o t \in Seq(S)
           /\ Len(s \o t) = Len(s) + Len(t)
           /\ DOMAIN (s \o t) = 1..(Len(s) + Len(t))
           /\ \A i \in 1..Len(s) : (s \o t)[i] = s[i]
           /\ \A i \in 1..Len(t) : (s \o t)[Len(s) + i] = t[i]
OBVIOUS

\* The head of the second sequence moves to the end of the first.
LEMMA ConcatMoves ==
    ASSUME NEW S, NEW s \in Seq(S), NEW t \in Seq(S), t # <<>>
    PROVE  Append(s, Head(t)) \o Tail(t) = s \o t
OBVIOUS

\* An element is added to the second sequence.
LEMMA ConcatAppends ==
    ASSUME NEW S, NEW s \in Seq(S), NEW t \in Seq(S), NEW e \in S
    PROVE  s \o Append(t, e) = Append(s \o t, e)
OBVIOUS

\* The head of the second sequence gets lost.
LEMMA ConcatLoses ==
    ASSUME NEW S, NEW s \in Seq(S), NEW t \in Seq(S), t # <<>>
    PROVE  LET k == Len(s) + 1
           IN  /\ k \in DOMAIN (s \o t)
               /\ DOMAIN (s \o Tail(t)) = 1..(Len(s \o t) - 1)
               /\ \A i \in DOMAIN (s \o Tail(t)) :
                      (s \o Tail(t))[i] = (s \o t)[IF i < k THEN i ELSE i + 1]
OBVIOUS


(***************************************************************************)
(* No step but that of the aggregation brings a sample to the persistor,   *)
(* or puts two of them in another order.                                   *)
(***************************************************************************)
NoneNew ==
    \A i, j \in Emitted' : i <= j =>
        \E k, l \in Emitted :
            (i < j => k < l) /\ Sent'[i] = Sent[k] /\ Sent'[j] = Sent[l]

\* The types of what was sent to the persistor.
LEMMA SentTypes ==
    ASSUME TypeOK
    PROVE  /\ Sent \in Seq(Samples) /\ Len(Sent) \in Nat /\ DOMAIN Sent = 1..Len(Sent)
           /\ Emitted \subseteq 1..Len(Sent)
           /\ \A i \in Emitted : Sent[i] \in PacketSamples
<1>1. Sent \in Seq(Samples)
  BY ConcatFacts DEF Sent, TypeOK
<1>2. DOMAIN Sent = 1..Len(Sent) /\ Len(Sent) \in Nat
  BY <1>1
<1>3. \A i \in 1..Len(Sent) : Sent[i] \in Samples
  BY <1>1
<1>4. \A s \in Samples : s.kind = "sample" => s \in PacketSamples
  BY DEF Samples, QueueSamples
<1>5. QED
  BY <1>1, <1>2, <1>3, <1>4 DEF Emitted

\* The same samples: the persistor stores one, or nothing happens to them.
LEMMA SameSent ==
    ASSUME TypeOK, Sent' = Sent
    PROVE  NoneNew
<1>1. Emitted' = Emitted /\ \A i \in Emitted : i \in Nat
  BY SentTypes DEF Emitted
<1>2. QED
  BY <1>1 DEF NoneNew

\* A record of the queue is no packet sample.
LEMMA QueueSent ==
    ASSUME TypeOK, NEW e \in QueueSamples, Sent' = Append(Sent, e)
    PROVE  NoneNew
<1>1. Sent \in Seq(Samples) /\ e \in Samples /\ e.kind = "queue"
  BY SentTypes DEF Samples, QueueSamples
<1>2. /\ DOMAIN Sent' = 1..(Len(Sent) + 1) /\ Sent'[Len(Sent) + 1] = e
      /\ \A i \in 1..Len(Sent) : Sent'[i] = Sent[i]
  BY <1>1
<1>3. \A i \in Emitted' : i \in Emitted /\ Sent'[i] = Sent[i]
  BY <1>1, <1>2, SentTypes DEF Emitted
<1>4. QED
  BY <1>3 DEF NoneNew

\* A sample that cannot be stored is left out, the others keep their order.
LEMMA LessSent ==
    ASSUME TypeOK, NEW k \in DOMAIN Sent, DOMAIN Sent' = 1..(Len(Sent) - 1),
           \A i \in DOMAIN Sent' : Sent'[i] = Sent[IF i < k THEN i ELSE i + 1]
    PROVE  NoneNew
<1> DEFINE from(i) == IF i < k THEN i ELSE i + 1
<1>1. k \in 1..Len(Sent) /\ Len(Sent) \in Nat
  BY SentTypes
<1>2. ASSUME NEW i \in Emitted' PROVE i \in Nat /\ from(i) \in Emitted /\ Sent'[i] = Sent[from(i)]
  <2>1. i \in 1..(Len(Sent) - 1)
    BY <1>2 DEF Emitted
  <2>2. from(i) \in 1..Len(Sent)
    BY <1>1, <2>1
  <2>3. QED
    BY <1>2, <2>1, <2>2, SentTypes DEF Emitted
<1>3. ASSUME NEW i \in Emitted', NEW j \in Emitted', i < j PROVE from(i) < from(j)
  BY <1>1, <1>2, <1>3
<1> HIDE DEF from
<1>4. QED
  BY <1>2, <1>3 DEF NoneNew

(***************************************************************************)
(* Where no sample is new, the old ones keep to what they did.             *)
(***************************************************************************)
LEMMA OldSent ==
    ASSUME TypeOK, TypeOK', SentInOrder, NoneNew, last <= last', db_flows \subseteq db_flows',
           \A i \in Emitted, f \in Flows : Counted(Sent[i]) \cap Counted(batch'[f]) = {}
    PROVE  SentInOrder'
<1>0. \A i \in Emitted' : i \in Nat
  <2>1. stored' \in Seq(Samples) /\ to_per' \in Seq(Samples) /\ Sent' = stored' \o to_per'
    BY DEF TypeOK, Sent
  <2>2. DOMAIN Sent' = 1..(Len(stored') + Len(to_per'))
    BY <2>1, ConcatFacts
  <2>3. QED
    BY <2>1, <2>2 DEF Emitted
<1>1. last \in Int /\ last' \in Int
  BY DEF TypeOK
<1>2. ASSUME NEW i \in Emitted' PROVE Sound(Sent[i])'
  <2>1. PICK k \in Emitted : Sent'[i] = Sent[k]
    BY <1>0, <1>2 DEF NoneNew
  <2>2. Sound(Sent[k]) /\ Sent[k].time \in Int
    BY SentTypes DEF SentInOrder, PacketSamples, Times
  <2>3. QED
    BY <1>1, <2>1, <2>2 DEF Sound, Counted
<1>3. ASSUME NEW i \in Emitted', NEW j \in Emitted', i < j PROVE Apart(Sent[i], Sent[j])'
  <2>1. PICK k \in Emitted, l \in Emitted : k < l /\ Sent'[i] = Sent[k] /\ Sent'[j] = Sent[l]
    BY <1>0, <1>3 DEF NoneNew
  <2>2. Apart(Sent[k], Sent[l])
    BY <2>1 DEF SentInOrder
  <2>3. QED
    BY <2>1, <2>2 DEF Apart, Counted
<1>4. QED
  BY <1>2, <1>3 DEF SentInOrder

-----------------------------------------------------------------------------

\* The types of the packets on their way to the aggregation.
LEMMA QueueTypes ==
    ASSUME TypeOK
    PROVE  /\ to_agg \in Seq(Packets) /\ Len(to_agg) \in Nat /\ DOMAIN to_agg = 1..Len(to_agg)
           /\ \A k \in DOMAIN to_agg : to_agg[k].time \in Int
<1>1. to_agg \in Seq(Packets)
  BY DEF TypeOK
<1>2. \A p \in Packets : p.time \in Int
  BY DEF Packets, Times
<1>3. \A k \in DOMAIN to_agg : to_agg[k] \in Packets
  BY <1>1
<1>4. QED
  BY <1>1, <1>2, <1>3

(***************************************************************************)
(* Most steps touch neither the samples nor the queue of packets.          *)
(***************************************************************************)
NoPacketMoves ==
    /\ UNCHANGED <<stored, to_per, last, batch, db_flows, to_agg>>
    /\ records <= records'
    /\ pc'["poll"] = "send_packet" =>
           pc["poll"] = "send_packet" /\ UNCHANGED <<records, in_hand>>

\* Steps in which no packet and no sample moves keep Data.
LEMMA IdleData == Inv /\ Inv' /\ Data /\ NoPacketMoves => Data'
<1> SUFFICES ASSUME Inv, Inv', Data, NoPacketMoves PROVE Data'
  OBVIOUS
<1>1. TypeOK /\ TypeOK' /\ last \in Int /\ records \in Int /\ records' \in Int
  BY DEF Inv, TypeOK
<1>2. SentInOrder'
  <2>1. Sent' = Sent
    BY DEF NoPacketMoves, Sent
  <2>2. NoneNew
    BY <1>1, <2>1, SameSent
  <2>3. \A i \in Emitted, f \in Flows : Counted(Sent[i]) \cap Counted(batch'[f]) = {}
    BY DEF Data, SentInOrder, Sound, NoPacketMoves
  <2>4. last <= last' /\ db_flows \subseteq db_flows'
    BY <1>1 DEF NoPacketMoves
  <2>5. QED
    BY <1>1, <2>2, <2>3, <2>4, OldSent DEF Data
<1>3. BatchReceived'
  BY DEF Data, BatchReceived, NoPacketMoves, Counted
<1>4. QueueInOrder'
  <2>1. \A k \in DOMAIN to_agg : to_agg[k].time \in Int
    BY <1>1, QueueTypes
  <2>2. QED
    BY <1>1, <2>1 DEF Data, QueueInOrder, NoPacketMoves
<1>5. QED
  BY <1>2, <1>3, <1>4 DEF Data

\* So do the goroutines that have none.
LEMMA OutsideData == Inv /\ Inv' /\ Data /\ (ExternExit \/ Listener \/ Exiter \/ StartReturns) => Data'
<1> SUFFICES ASSUME Inv, Inv', Data, ExternExit \/ Listener \/ Exiter \/ StartReturns
             PROVE  NoPacketMoves
  BY IdleData
<1>1. DOMAIN pc = Goroutines /\ records \in Int
  BY DEF Inv, TypeOK
<1>2. QED
  BY <1>1 DEF NoPacketMoves, ExternExit, Listener, Exiter, StartReturns, ListenerExits,
     ListenerSeesExit, ExitPoll, ExitPersistor, Moves, NothingElse, channels, reading,
     aggregating, database, Goroutines

(***************************************************************************)
(* poll numbers the packets and queues them in that order.                 *)
(***************************************************************************)
LEMMA PollData == Inv /\ Inv' /\ Data /\ Poll => Data'
<1> SUFFICES ASSUME Inv, Inv', Data, Poll PROVE Data'
  OBVIOUS
<1>0. TypeOK /\ TypeOK'
  BY DEF Inv
<1>a. DOMAIN pc = Goroutines /\ "poll" \in Goroutines /\ records \in Int /\ last \in Int
  BY <1>0 DEF TypeOK, Goroutines
<1>b. records' \in Int
  BY <1>0 DEF TypeOK
<1>1. /\ TypeOK /\ TypeOK' /\ DOMAIN pc = Goroutines /\ "poll" \in Goroutines
      /\ records \in Int /\ records' \in Int /\ last \in Int
      /\ \A k \in DOMAIN to_agg : to_agg[k].time \in Int
  BY <1>0, <1>a, <1>b, QueueTypes
<1>2. CASE PollNothing \/ PollReadFails \/ PollQueue
  <2>1. NoPacketMoves
    BY <1>1, <1>2 DEF NoPacketMoves, PollNothing, PollReadFails, PollQueue, Moves, NothingElse,
       channels, reading, aggregating, database
  <2>2. QED
    BY <2>1, IdleData
<1>3. CASE PollOpenFails \/ PollReportsOpen \/ PollOpens \/ PollGoesOn \/ PollEnds
           \/ PollReports \/ PollDone \/ PollCloses
  <2>1. NoPacketMoves
    BY <1>1, <1>3 DEF NoPacketMoves, PollOpenFails, PollReportsOpen, PollOpens, PollGoesOn,
       PollEnds, PollReports, PollDone, PollCloses, Report, Taken, Dropped, Moves, NothingElse,
       channels, reading, aggregating, database, Goroutines
  <2>2. QED
    BY <2>1, IdleData
<1>4. CASE PollPacket
  <2>1. /\ UNCHANGED <<stored, to_per, last, batch, db_flows, to_agg>>
        /\ records' = records + 1 /\ in_hand'.time = records'
    BY <1>4 DEF PollPacket, channels, aggregating, database
  <2>2. QueueInOrder'
    BY <1>1, <2>1 DEF Data, QueueInOrder
  <2>3. SentInOrder' /\ BatchReceived'
    <3>1. Sent' = Sent /\ Emitted' = Emitted
      BY <2>1 DEF Sent, Emitted
    <3>2. QED
      BY <2>1, <3>1 DEF Data, SentInOrder, Sound, Apart, BatchReceived, Counted
  <2>4. QED
    BY <2>2, <2>3 DEF Data
<1>5. CASE PollSendsPacket
  <2>1. /\ UNCHANGED <<stored, to_per, last, batch, db_flows, records>>
        /\ to_agg' = Append(to_agg, in_hand) /\ pc["poll"] = "send_packet"
        /\ pc'["poll"] = "loop"
    BY <1>1, <1>5 DEF PollSendsPacket, Moves, aggregating, database
  <2>2. to_agg \in Seq(Packets) /\ in_hand \in Packets
    BY <1>1, <2>1 DEF Inv, TypeOK, Sends
  <2>3. /\ DOMAIN to_agg = 1..Len(to_agg) /\ DOMAIN to_agg' = 1..(Len(to_agg) + 1)
        /\ to_agg'[Len(to_agg) + 1] = in_hand /\ Len(to_agg) \in Nat
        /\ \A k \in 1..Len(to_agg) : to_agg'[k] = to_agg[k]
    BY <2>1, <2>2
  <2>4. QueueInOrder'
    BY <1>1, <2>1, <2>3 DEF Data, QueueInOrder
  <2>5. SentInOrder' /\ BatchReceived'
    <3>1. Sent' = Sent /\ Emitted' = Emitted
      BY <2>1 DEF Sent, Emitted
    <3>2. QED
      BY <2>1, <3>1 DEF Data, SentInOrder, Sound, Apart, BatchReceived, Counted
  <2>6. QED
    BY <2>4, <2>5 DEF Data
<1>6. CASE PollSendsQueue
  <2>1. /\ UNCHANGED <<stored, last, batch, db_flows, to_agg, records>>
        /\ to_per' = to_per \/ to_per' = Append(to_per, in_hand)
        /\ pc["poll"] = "send_queue" /\ pc'["poll"] = "loop"
    BY <1>1, <1>6 DEF PollSendsQueue, Moves, aggregating, database
  <2>2. in_hand \in QueueSamples
    BY <2>1 DEF Inv, Sends
  <2>3. NoneNew
    <3>1. CASE to_per' = to_per
      BY <1>1, <2>1, <3>1, SameSent DEF Sent
    <3>2. CASE to_per' = Append(to_per, in_hand)
      <4>1. in_hand \in Samples /\ stored \in Seq(Samples) /\ to_per \in Seq(Samples)
        BY <1>1, <2>2 DEF Samples, TypeOK
      <4>2. Sent' = Append(Sent, in_hand)
        BY <2>1, <3>2, <4>1, ConcatAppends DEF Sent
      <4>3. QED
        BY <1>1, <2>2, <4>2, QueueSent
    <3>3. QED
      BY <2>1, <3>1, <3>2
  <2>4. \A i \in Emitted, f \in Flows : Counted(Sent[i]) \cap Counted(batch'[f]) = {}
    BY <2>1 DEF Data, SentInOrder, Sound
  <2>5. SentInOrder'
    BY <1>1, <2>1, <2>3, <2>4, OldSent DEF Data
  <2>6. BatchReceived' /\ QueueInOrder'
    BY <2>1 DEF Data, BatchReceived, QueueInOrder, Counted
  <2>7. QED
    BY <2>5, <2>6 DEF Data
<1>7. QED
  BY <1>2, <1>3, <1>4, <1>5, <1>6 DEF Poll, PollReads, PollTidies

(***************************************************************************)
(* What is received is younger than all that was received before.          *)
(***************************************************************************)
LEMMA ReceivedYounger ==
    ASSUME TypeOK, QueueInOrder, Receive, last' = Received.time,
           UNCHANGED <<records, in_hand>>, pc'["poll"] = pc["poll"]
    PROVE  QueueInOrder' /\ last < last'
<1>1. /\ to_agg \in Seq(Packets) /\ DOMAIN to_agg = 1..Len(to_agg) /\ Len(to_agg) \in Nat
      /\ \A k \in DOMAIN to_agg : to_agg[k].time \in Int
  BY QueueTypes
<1>2. to_agg # <<>> /\ to_agg' = Tail(to_agg) /\ Received = to_agg[1]
  BY DEF Receive, Received
<1>3. /\ 1 \in DOMAIN to_agg /\ DOMAIN to_agg' = 1..(Len(to_agg) - 1)
      /\ \A k \in DOMAIN to_agg' : to_agg'[k] = to_agg[k + 1]
  BY <1>1, <1>2
<1>4. last' = to_agg[1].time
  BY <1>2
<1>5. last < last' /\ last' <= records'
  BY <1>3, <1>4 DEF QueueInOrder
<1>6. \A k \in DOMAIN to_agg' : last' < to_agg'[k].time /\ to_agg'[k].time <= records'
  <2> SUFFICES ASSUME NEW k \in DOMAIN to_agg'
               PROVE  last' < to_agg'[k].time /\ to_agg'[k].time <= records'
    OBVIOUS
  <2>1. k + 1 \in DOMAIN to_agg /\ 1 < k + 1 /\ to_agg'[k] = to_agg[k + 1]
    BY <1>1, <1>3
  <2>2. QED
    BY <1>3, <1>4, <2>1 DEF QueueInOrder
<1>7. \A k, l \in DOMAIN to_agg' : k < l => to_agg'[k].time < to_agg'[l].time
  <2> SUFFICES ASSUME NEW k \in DOMAIN to_agg', NEW l \in DOMAIN to_agg', k < l
               PROVE  to_agg'[k].time < to_agg'[l].time
    OBVIOUS
  <2>1. k + 1 \in DOMAIN to_agg /\ l + 1 \in DOMAIN to_agg /\ k + 1 < l + 1
    BY <1>1, <1>3
  <2>2. QED
    BY <1>3, <2>1 DEF QueueInOrder
<1>8. pc'["poll"] = "send_packet" =>
          /\ in_hand'.time = records' /\ last' < records'
          /\ \A k \in DOMAIN to_agg' : to_agg'[k].time < records'
  <2> SUFFICES ASSUME pc["poll"] = "send_packet"
               PROVE  /\ in_hand'.time = records' /\ last' < records'
                      /\ \A k \in DOMAIN to_agg' : to_agg'[k].time < records'
    OBVIOUS
  <2>1. \A k \in DOMAIN to_agg' : k + 1 \in DOMAIN to_agg
    BY <1>1, <1>3
  <2>2. QED
    BY <1>3, <1>4, <2>1 DEF QueueInOrder
<1>9. QED
  BY <1>5, <1>6, <1>7, <1>8 DEF QueueInOrder

\* AggregateMeasure.add counts the message it is given, once.
LEMMA AddCounts ==
    ASSUME NEW m \in Measures, NEW packet \in Packets
    PROVE  Counted(Add(m, packet)) = Counted(m) \cup {packet.time}
<1>1. CASE packet.drop
  BY <1>1 DEF Add, Measures, Counted
<1>2. CASE ~packet.drop
  BY <1>2 DEF Add, Measures, Counted
<1>3. QED
  BY <1>1, <1>2

(***************************************************************************)
(* The aggregation receives in order and sends each batch once.            *)
(***************************************************************************)
LEMMA ReceiveData ==
    ASSUME Inv, Inv', Data, AggFirst \/ AggAddFails
    PROVE  Data'
<1>0. TypeOK /\ TypeOK' /\ "poll" \in DOMAIN pc
  BY DEF Inv, TypeOK, Goroutines
<1>1. /\ Receive /\ last' = Received.time /\ pc'["poll"] = pc["poll"]
      /\ UNCHANGED <<records, in_hand, stored, to_per, batch, db_flows>>
  BY <1>0 DEF AggFirst, AggAddFails, Moves, reading, database
<1>2. QueueInOrder' /\ last < last' /\ last \in Int /\ last' \in Int
  BY <1>0, <1>1, ReceivedYounger DEF Data, TypeOK
<1>3. SentInOrder'
  <2>1. NoneNew
    BY <1>0, <1>1, SameSent DEF Sent
  <2>2. \A i \in Emitted, f \in Flows : Counted(Sent[i]) \cap Counted(batch'[f]) = {}
    BY <1>1 DEF Data, SentInOrder, Sound
  <2>3. last <= last' /\ db_flows \subseteq db_flows'
    BY <1>1, <1>2
  <2>4. QED
    BY <1>0, <2>1, <2>2, <2>3, OldSent DEF Data
<1>4. BatchReceived'
  <2>1. \A f \in Flows : \A t \in Counted(batch[f]) : t \in Int
    BY <1>0 DEF TypeOK, Measures, Counted, Times
  <2>2. QED
    BY <1>1, <1>2, <2>1 DEF Data, BatchReceived, Counted
<1>5. QED
  BY <1>2, <1>3, <1>4 DEF Data

\* The aggregation adds the packet it received to the measure of its flow.
LEMMA AddData ==
    ASSUME Inv, Inv', Data, AggAdds
    PROVE  Data'
<1>0. TypeOK /\ TypeOK' /\ Received \in Packets /\ Received.flow \in Flows
      /\ "poll" \in DOMAIN pc
  BY ReceiveFacts DEF Inv, TypeOK, Goroutines, AggAdds
<1>1. /\ Receive /\ last' = Received.time /\ pc'["poll"] = pc["poll"]
      /\ UNCHANGED <<records, in_hand, stored, to_per>>
      /\ db_flows' = db_flows \cup {Received.flow}
      /\ batch' = [batch EXCEPT ![Received.flow] = Add(batch[Received.flow], Received)]
  BY <1>0 DEF AggAdds, Moves, reading
<1>2. QueueInOrder' /\ last < last' /\ last \in Int /\ last' \in Int
  BY <1>0, <1>1, ReceivedYounger DEF Data, TypeOK
<1>3. batch \in [Flows -> Measures] /\ \A f \in Flows : \A t \in Counted(batch[f]) : t \in Int
  BY <1>0 DEF TypeOK, Measures, Counted, Times
<1>4. /\ Counted(batch'[Received.flow]) = Counted(batch[Received.flow]) \cup {last'}
      /\ \A f \in Flows : f # Received.flow => batch'[f] = batch[f]
  BY <1>0, <1>1, <1>3, AddCounts
<1>5. SentInOrder'
  <2>1. NoneNew
    BY <1>0, <1>1, SameSent DEF Sent
  <2>2. ASSUME NEW i \in Emitted, NEW f \in Flows
        PROVE  Counted(Sent[i]) \cap Counted(batch'[f]) = {}
    <3>1. Sound(Sent[i]) /\ Sent[i] \in PacketSamples
      BY <1>0, SentTypes DEF Data, SentInOrder
    <3>2. \A t \in Counted(Sent[i]) : t \in Int /\ t <= last
      BY <1>2, <3>1 DEF Sound, PacketSamples, Times, Counted
    <3>3. last' \notin Counted(Sent[i])
      BY <1>2, <3>2
    <3>4. QED
      BY <1>4, <3>1, <3>3 DEF Sound
  <2>3. last <= last' /\ db_flows \subseteq db_flows'
    BY <1>1, <1>2
  <2>4. QED
    BY <1>0, <2>1, <2>2, <2>3, OldSent DEF Data
<1>6. BatchReceived'
  <2>1. \A f \in Flows : last' \notin Counted(batch[f])
    BY <1>2, <1>3 DEF Data, BatchReceived
  <2>2. \A f \in Flows : \A t \in Counted(batch'[f]) : t <= last'
    BY <1>2, <1>3, <1>4 DEF Data, BatchReceived
  <2>3. \A f \in Flows : batch'[f] # Empty => f \in db_flows'
    BY <1>1, <1>4 DEF Data, BatchReceived
  <2>4. \A f, g \in Flows : f # g => Counted(batch'[f]) \cap Counted(batch'[g]) = {}
    BY <1>4, <2>1 DEF Data, BatchReceived
  <2>5. QED
    BY <2>2, <2>3, <2>4 DEF BatchReceived, Counted
<1>7. QED
  BY <1>2, <1>5, <1>6 DEF Data

\* Leaving a flow out of the batch, with or without a sample.
LEMMA SampleData ==
    ASSUME Inv, Inv', Data, NEW f \in Flows, AggSample(f)
    PROVE  Data'
<1>0. TypeOK /\ TypeOK' /\ batch \in [Flows -> Measures] /\ last \in Int
  BY DEF Inv, TypeOK
<1>1. /\ batch[f] # Empty /\ batch' = [batch EXCEPT ![f] = Empty]
      /\ UNCHANGED <<last, db_flows, stored, to_agg, records, in_hand, pc>>
  BY DEF AggSample, reading, database
<1>2. /\ Counted(batch'[f]) = {} /\ batch'[f] = Empty
      /\ \A g \in Flows : g # f => batch'[g] = batch[g]
  BY <1>0, <1>1 DEF Counted, Empty
<1>3. BatchReceived' /\ QueueInOrder'
  <2>1. BatchReceived'
    BY <1>1, <1>2 DEF Data, BatchReceived, Counted
  <2>2. QueueInOrder'
    BY <1>1 DEF Data, QueueInOrder
  <2>3. QED
    BY <2>1, <2>2
<1>4. CASE Skipped(f)
  <2>1. NoneNew
    BY <1>0, <1>1, <1>4, SameSent DEF AggSample, Sent
  <2>2. \A i \in Emitted, g \in Flows : Counted(Sent[i]) \cap Counted(batch'[g]) = {}
    BY <1>2 DEF Data, SentInOrder, Sound
  <2>3. last <= last' /\ db_flows \subseteq db_flows'
    BY <1>0, <1>1
  <2>4. SentInOrder'
    BY <1>0, <2>1, <2>2, <2>3, OldSent DEF Data
  <2>5. QED
    BY <1>3, <2>4 DEF Data
<1>5. CASE ~Skipped(f)
  <2>1. Sample(f) \in Samples /\ Sample(f).kind = "sample" /\ Counted(Sample(f)) = Counted(batch[f])
        /\ Sample(f).time = last /\ Sample(f).packets = batch[f].packets /\ Sample(f).flow = f
    <3>1. last \in Times
      BY DEF AggSample, Inv, Timed
    <3>2. QED
      BY <1>0, <3>1 DEF Sample, Samples, PacketSamples, Measures, Counted
  <2>2. Sent' = Append(Sent, Sample(f))
    <3>1. to_per' = Append(to_per, Sample(f)) /\ stored \in Seq(Samples) /\ to_per \in Seq(Samples)
      BY <1>0, <1>5 DEF AggSample, TypeOK
    <3>2. QED
      BY <1>1, <2>1, <3>1, ConcatAppends DEF Sent
  <2>3. /\ DOMAIN Sent' = 1..(Len(Sent) + 1) /\ Sent'[Len(Sent) + 1] = Sample(f)
        /\ \A i \in 1..Len(Sent) : Sent'[i] = Sent[i]
        /\ Len(Sent) \in Nat /\ DOMAIN Sent = 1..Len(Sent)
    BY <1>0, <2>1, <2>2, SentTypes
  <2>4. Emitted' = Emitted \cup {Len(Sent) + 1}
    BY <2>1, <2>3 DEF Emitted
  <2>5. ASSUME NEW i \in Emitted PROVE Sound(Sent[i])'
    <3>1. Sound(Sent[i]) /\ Sent'[i] = Sent[i]
      BY <2>3 DEF Data, SentInOrder, Emitted
    <3>2. QED
      BY <1>1, <1>2, <3>1 DEF Sound, Counted
  <2>6. ASSUME NEW i \in Emitted', i = Len(Sent) + 1 PROVE Sound(Sent[i])'
    <3>1. Sent'[i] = Sample(f)
      BY <2>3, <2>6
    <3>2. Sample(f).packets # {}
      BY <1>5, <2>1 DEF Skipped
    <3>3. Sample(f).flow \in db_flows
      BY <1>1, <2>1 DEF Data, BatchReceived
    <3>4. \A t \in Counted(Sample(f)) : t <= Sample(f).time
      BY <2>1 DEF Data, BatchReceived
    <3>5. \A g \in Flows : Counted(Sample(f)) \cap Counted(batch'[g]) = {}
      BY <1>2, <2>1 DEF Data, BatchReceived
    <3>6. Sample(f).time <= last
      BY <1>0, <2>1
    <3>7. QED
      BY <1>1, <3>1, <3>2, <3>3, <3>4, <3>5, <3>6 DEF Sound, Counted
  <2>7. ASSUME NEW i \in Emitted', NEW j \in Emitted', i < j PROVE Apart(Sent[i], Sent[j])'
    <3>1. i \in Emitted /\ Sent'[i] = Sent[i]
      BY <2>3, <2>4, <2>7 DEF Emitted
    <3>2. CASE j \in Emitted
      <4>1. Sent'[j] = Sent[j] /\ Apart(Sent[i], Sent[j])
        BY <2>3, <2>7, <3>1, <3>2 DEF Data, SentInOrder, Emitted
      <4>2. QED
        BY <3>1, <4>1 DEF Apart, Counted
    <3>3. CASE j = Len(Sent) + 1
      <4>1. Sent'[j] = Sample(f)
        BY <2>3, <3>3
      <4>2. Counted(Sent[i]) \cap Counted(Sample(f)) = {} /\ Sent[i].time <= last
        BY <2>1, <3>1 DEF Data, SentInOrder, Sound
      <4>3. QED
        BY <2>1, <3>1, <4>1, <4>2 DEF Apart, Counted
    <3>4. QED
      BY <2>4, <3>2, <3>3
  <2>8. SentInOrder'
    BY <2>4, <2>5, <2>6, <2>7 DEF SentInOrder
  <2>9. QED
    BY <1>3, <2>8 DEF Data
<1>6. QED
  BY <1>4, <1>5

\* Every step of the aggregation keeps Data.
LEMMA AggData == Inv /\ Inv' /\ Data /\ Agg => Data'
<1> SUFFICES ASSUME Inv, Inv', Data, Agg PROVE Data'
  OBVIOUS
<1>1. TypeOK /\ TypeOK' /\ records \in Int /\ "poll" \in DOMAIN pc
  BY DEF Inv, TypeOK, Goroutines
<1>2. CASE AggReports \/ AggPauses \/ AggNext \/ AggCloses \/ AggDone
  <2>1. NoPacketMoves
    BY <1>1, <1>2 DEF NoPacketMoves, AggReports, AggPauses, AggNext, AggCloses, AggDone, Report,
       Taken, Dropped, Moves, NothingElse, channels, reading, aggregating, database
  <2>2. QED
    BY <2>1, IdleData
<1>3. CASE AggEnds
  <2>1. /\ UNCHANGED <<stored, to_per, to_agg, last, records, in_hand, db_flows>>
        /\ pc'["poll"] = pc["poll"]
        /\ batch' = [f \in Flows |-> Empty]
    BY <1>1, <1>3 DEF AggEnds, Moves, channels, reading, database
  <2>2. \A f \in Flows : Counted(batch'[f]) = {} /\ batch'[f] = Empty
    BY <2>1 DEF Counted, Empty
  <2>3. NoneNew
    BY <1>1, <2>1, SameSent DEF Sent
  <2>4. last <= last' /\ db_flows \subseteq db_flows'
    BY <1>1, <2>1 DEF TypeOK
  <2>5. SentInOrder'
    BY <1>1, <2>2, <2>3, <2>4, OldSent DEF Data
  <2>6. BatchReceived'
    BY <2>2 DEF BatchReceived, Counted
  <2>7. QueueInOrder'
    BY <2>1 DEF Data, QueueInOrder
  <2>8. QED
    BY <2>5, <2>6, <2>7 DEF Data
<1>4. QED
  BY <1>2, <1>3, ReceiveData, AddData, SampleData DEF Agg

(***************************************************************************)
(* The persistor stores the samples in their order, or loses one.          *)
(***************************************************************************)
LEMMA PersistorData == Inv /\ Inv' /\ Data /\ Persistor => Data'
<1> SUFFICES ASSUME Inv, Inv', Data, Persistor PROVE Data'
  OBVIOUS
<1>1. /\ TypeOK /\ TypeOK' /\ records \in Int /\ last \in Int
      /\ stored \in Seq(Samples) /\ to_per \in Seq(Samples) /\ "poll" \in DOMAIN pc
  BY DEF Inv, TypeOK, Goroutines
<1>2. CASE PersistorExits \/ PersistorTick \/ PersistorReports \/ PersistorDrained
           \/ PersistorSeesClosed \/ PersistorDone
  <2>1. NoPacketMoves
    BY <1>1, <1>2 DEF NoPacketMoves, PersistorExits, PersistorTick, PersistorReports,
       PersistorDrained, PersistorSeesClosed, PersistorDone, Taken, Moves, NothingElse,
       channels, reading, aggregating, database
  <2>2. QED
    BY <2>1, IdleData
<1>3. CASE PersistorStores \/ PersistorFails
  <2>1. /\ UNCHANGED <<to_agg, last, batch, records, in_hand, db_flows>>
        /\ pc'["poll"] = pc["poll"]
        /\ to_per # <<>> /\ to_per' = Tail(to_per)
        /\ stored' = stored \/ stored' = Append(stored, Head(to_per))
    BY <1>1, <1>3 DEF PersistorStores, PersistorFails, Stores, Moves, reading, aggregating, database
  <2>2. NoneNew
    <3>1. CASE stored' = Append(stored, Head(to_per))
      <4>1. Sent' = Sent
        BY <1>1, <2>1, <3>1, ConcatMoves DEF Sent
      <4>2. QED
        BY <1>1, <4>1, SameSent
    <3>2. CASE stored' = stored
      <4>1. Sent' = stored \o Tail(to_per)
        BY <2>1, <3>2 DEF Sent
      <4> DEFINE k == Len(stored) + 1
      <4>2. /\ k \in DOMAIN (stored \o to_per)
            /\ DOMAIN (stored \o Tail(to_per)) = 1..(Len(stored \o to_per) - 1)
            /\ \A i \in DOMAIN (stored \o Tail(to_per)) :
                   (stored \o Tail(to_per))[i] = (stored \o to_per)[IF i < k THEN i ELSE i + 1]
        BY <1>1, <2>1, ConcatLoses
      <4>3. /\ k \in DOMAIN Sent
            /\ DOMAIN Sent' = 1..(Len(Sent) - 1)
            /\ \A i \in DOMAIN Sent' : Sent'[i] = Sent[IF i < k THEN i ELSE i + 1]
        BY <4>1, <4>2 DEF Sent
      <4> HIDE DEF k
      <4>4. QED
        BY <1>1, <4>3, LessSent
    <3>3. QED
      BY <2>1, <3>1, <3>2
  <2>3. \A i \in Emitted, f \in Flows : Counted(Sent[i]) \cap Counted(batch'[f]) = {}
    BY <2>1 DEF Data, SentInOrder, Sound
  <2>4. last <= last' /\ db_flows \subseteq db_flows'
    BY <1>1, <2>1
  <2>5. SentInOrder'
    BY <1>1, <2>2, <2>3, <2>4, OldSent DEF Data
  <2>6. BatchReceived' /\ QueueInOrder'
    BY <2>1 DEF Data, BatchReceived, QueueInOrder, Counted
  <2>7. QED
    BY <2>5, <2>6 DEF Data
<1>4. QED
  BY <1>2, <1>3 DEF Persistor

\* Data holds for ever.
LEMMA DataCorrect == SafetySpec => []Data
<1>1. Init => Data
  <2> SUFFICES ASSUME Init PROVE Data
    OBVIOUS
  <2>1. Sent = <<>> /\ Emitted = {} /\ to_agg = <<>> /\ last = 0 /\ records = 0
    BY DEF Init, Sent, Emitted
  <2>2. \A f \in Flows : batch[f] = Empty /\ Counted(batch[f]) = {}
    BY DEF Init, Counted, Empty
  <2>3. pc["poll"] = "open"
    BY DEF Init, Goroutines
  <2>4. QED
    BY <2>1, <2>2, <2>3 DEF Data, SentInOrder, BatchReceived, QueueInOrder
<1>2. Inv /\ Inv' /\ Data /\ [Next]_vars => Data'
  <2>1. Inv /\ Inv' /\ Data /\ UNCHANGED vars => Data'
    <3> SUFFICES ASSUME Inv, Inv', Data, UNCHANGED vars PROVE NoPacketMoves
      BY IdleData
    <3>1. records \in Int
      BY DEF Inv, TypeOK
    <3>2. QED
      BY <3>1 DEF vars, NoPacketMoves, channels, reading, aggregating, database
  <2>2. QED
    BY <2>1, OutsideData, PollData, AggData, PersistorData DEF Next, Over
<1>3. QED
  BY <1>1, <1>2, Invariance, PTL DEF SafetySpec

(***************************************************************************)
(* Every packet is counted in one sample at most, and by one flow.         *)
(***************************************************************************)
THEOREM CountedOnce == SafetySpec => []PacketsCountOnce
<1>1. Inv /\ Data => PacketsCountOnce
  <2> SUFFICES ASSUME Inv, Data PROVE PacketsCountOnce
    OBVIOUS
  <2>1. TypeOK /\ last \in Int /\ \A k \in DOMAIN to_agg : to_agg[k].time \in Int
    BY QueueTypes DEF Inv, TypeOK
  <2>2. \A i, j \in Emitted : i # j => Counted(Sent[i]) \cap Counted(Sent[j]) = {}
    <3>1. \A i \in Emitted : i \in Int
      BY <2>1, SentTypes
    <3>2. QED
      BY <3>1 DEF Data, SentInOrder, Apart
  <2>3. ASSUME NEW k \in DOMAIN to_agg, NEW f \in Flows
        PROVE  to_agg[k].time \notin Counted(batch[f])
    <3>1. \A t \in Counted(batch[f]) : t \in Int
      BY <2>1 DEF TypeOK, Measures, Counted, Times
    <3>2. QED
      BY <2>1, <3>1 DEF Data, BatchReceived, QueueInOrder
  <2>4. ASSUME NEW k \in DOMAIN to_agg, NEW i \in Emitted
        PROVE  to_agg[k].time \notin Counted(Sent[i])
    <3>1. Sound(Sent[i]) /\ Sent[i] \in PacketSamples
      BY <2>1, SentTypes DEF Data, SentInOrder
    <3>2. \A t \in Counted(Sent[i]) : t \in Int /\ t <= last
      BY <2>1, <3>1 DEF Sound, PacketSamples, Counted, Times
    <3>3. QED
      BY <2>1, <3>2 DEF Data, QueueInOrder
  <2>5. QED
    BY <2>2, <2>3, <2>4 DEF PacketsCountOnce, Data, SentInOrder, Sound, BatchReceived
<1>2. QED
  BY <1>1, Invariance, DataCorrect, PTL

(***************************************************************************)
(* No sample divides by zero, refers to a flow the database does not have  *)
(* or is older than its packets.                                           *)
(***************************************************************************)
THEOREM SoundCorrect == SafetySpec => []SamplesAreSound
<1>1. Data => SamplesAreSound
  BY DEF Data, SentInOrder, Sound, SamplesAreSound
<1>2. QED
  BY <1>1, DataCorrect, PTL

(***************************************************************************)
(* What is stored later was sent later.                                    *)
(***************************************************************************)
THEOREM OrderCorrect == SafetySpec => []SamplesInOrder
<1>1. Data => SamplesInOrder
  BY DEF Data, SentInOrder, Apart, SamplesInOrder
<1>2. QED
  BY <1>1, DataCorrect, PTL

=============================================================================

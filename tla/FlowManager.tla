----------------------------- MODULE FlowManager -----------------------------
(***************************************************************************)
(* The data of drshow's FlowManager and what it computes from it: which    *)
(* flows are eligible and which one is selected next                       *)
(* (cmd/drshow/internal/data/flowdata).                                    *)
(*                                                                         *)
(* A flow is [key, samples, loads]: the numbers of its lines in the order  *)
(* they were appended, and how many of them (0, 1, many) had a load above  *)
(* 0.  FlowId is the place in flows.  Whether the last sample of a flow is *)
(* past the TimePastMaxInSec of the present level is a set of flows of its *)
(* own, for it changes with the clock.                                     *)
(*                                                                         *)
(* Flows are counted from 1, positions among the eligible ones from 0 as   *)
(* in the code, for the -1 that stands for "none" enters the arithmetic.   *)
(***************************************************************************)
EXTENDS Integers, Sequences, FiniteSets

CONSTANTS
    Level0Until,         \* with fewer flows than this all are shown
    AdditionalCount,     \* of levels 1 and 2
    MinimumFlowLength,   \* of levels 1, 2 and 3
    Enough               \* 3: a recent flow needs more samples than this

ASSUME FlowManagerAssumption ==
    /\ {Level0Until, Enough} \subseteq Nat
    /\ AdditionalCount \in [1..2 -> Nat]
    /\ MinimumFlowLength \in [1..3 -> Nat]

Min2(m, n) == IF m < n THEN m ELSE n

NewFlow(key) == [key |-> key, samples |-> <<>>, loads |-> 0]

\* FlowDatapointsT.Append
AppendSample(flow, line) ==
    [key |-> flow.key,
     samples |-> Append(flow.samples, line.n),
     loads |-> IF line.load THEN Min2(flow.loads + 1, 2) ELSE flow.loads]

HasLoadGreater1(flow) == flow.loads = 2

\* Flows are told apart by their end points alone.
Holding(flows, key) == {i \in DOMAIN flows : flows[i].key = key}

Contains(flows, key) == Holding(flows, key) # {}

MinimumLength(flows) ==
    LET one == Level0Until + AdditionalCount[1]
        two == one + AdditionalCount[2]
    IN  MinimumFlowLength[IF Len(flows) < one THEN 1 ELSE IF Len(flows) < two THEN 2 ELSE 3]

(***************************************************************************)
(* The test that would always let the selected flow pass never holds: it   *)
(* asks for an error of GetSelectedFlow and for its flow.                  *)
(***************************************************************************)
isFlowEligible(flows, old, i) ==
    LET length == Len(flows[i].samples)
    IN  /\ HasLoadGreater1(flows[i])
        /\ \/ Len(flows) < Level0Until
           \/ length > MinimumLength(flows)
           \/ length = 0
           \/ i \notin old /\ length > Enough

\* absoluteIndexes, as the set of the flows in it: they stand there in their order.
EligibleFlows(flows, old) == {i \in DOMAIN flows : isFlowEligible(flows, old, i)}

\* How many of them were appended before the loop comes to flow i.
Position(eligible, i) == Cardinality({j \in eligible : j < i})

(***************************************************************************)
(* Where the selected flow, or else the first one after it, stands among   *)
(* the eligible flows.                                                     *)
(***************************************************************************)
RelativeIndex(eligible, selected) ==
    IF selected \in eligible
    THEN [Index |-> Position(eligible, selected), MatchType |-> "exactMatch"]
    ELSE IF \E i \in eligible : i > selected
    THEN [Index |-> Position(eligible, selected), MatchType |-> "nextMatch"]
    ELSE [Index |-> -1, MatchType |-> "exactMatch"]

(***************************************************************************)
(* What SelectNextFlowIndex and SelectPreviousFlowIndex come to: an error, *)
(* an index out of range, or the flow that is selected from now on.        *)
(***************************************************************************)
Error == [kind |-> "error"]

AbsoluteIndex(eligible, k) ==
    IF k \in 0..(Cardinality(eligible) - 1)
    THEN [kind |-> "flow", flow |-> CHOOSE i \in eligible : Position(eligible, i) = k]
    ELSE [kind |-> "panic"]

\* Slip (NeighbourSelected): the flow after the one that is not shown is skipped.
NextSkipping(flows, old, selected) ==
    LET eligible == EligibleFlows(flows, old)
        relative == RelativeIndex(eligible, selected)
        last == Cardinality(eligible) - 1
    IN  IF last <= 0 \/ relative.Index = last THEN Error
        ELSE AbsoluteIndex(eligible, relative.Index + 1)

SelectNext(flows, old, selected) ==
    LET eligible == EligibleFlows(flows, old)
        relative == RelativeIndex(eligible, selected)
        last == Cardinality(eligible) - 1
    IN  IF last <= 0 THEN Error
        ELSE IF relative.MatchType = "nextMatch" THEN AbsoluteIndex(eligible, relative.Index)
        ELSE IF relative.Index = last THEN Error
        ELSE AbsoluteIndex(eligible, relative.Index + 1)

\* Slip (PanicsOffSelection): the beginning of the list is not looked for.
PreviousUnbounded(flows, old, selected) ==
    LET eligible == EligibleFlows(flows, old)
        relative == RelativeIndex(eligible, selected)
    IN  IF Cardinality(eligible) <= 1 THEN Error ELSE AbsoluteIndex(eligible, relative.Index - 1)

SelectPrevious(flows, old, selected) ==
    LET eligible == EligibleFlows(flows, old)
        relative == RelativeIndex(eligible, selected)
        index == IF relative.MatchType = "nextMatch" THEN relative.Index - 1 ELSE relative.Index
    IN  IF Cardinality(eligible) <= 1 \/ index = 0 THEN Error
        ELSE AbsoluteIndex(eligible, index - 1)

=============================================================================

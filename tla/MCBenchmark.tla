---------------------------- MODULE MCBenchmark ----------------------------
(***************************************************************************)
(* Definitions of three sessions for Benchmark.  They differ in what the   *)
(* levels say of the marking, the latency and the frequency, and in the    *)
(* first samples of their patterns; the int32 of a queue size is cut down  *)
(* to 16 bits.                                                             *)
(***************************************************************************)
EXTENDS Benchmark, TLC

Nothing == [f \in Fields |-> Unset]

Default == "Scale" :> 100 @@ "Frequency" :> 10 @@ Nothing

Patterns(a, b, c) ==
    [patterns |-> <<a @@ Nothing, b @@ Nothing, c @@ Nothing>>,
     setting |-> Default,
     samples |-> <<5000, 5000, 5000>>]

\* The config file has neither a scale nor a frequency.
Defaults ==
    [setting |-> [f \in Fields |->
        CASE f = "Markfree" -> 4 [] f = "Markfull" -> 14 [] f = "Queuesizepackets" -> 10000
          [] f \in {"Scale", "Frequency"} -> -1
          [] f \in {"L4sEnablePreMarking", "SignalDrpStart"} -> FALSE
          [] OTHER -> 0],
     Qosmode |-> 2]

\* Three sessions that may all be played.
Plain == Patterns(Nothing, "Queuesizepackets" :> 40000, "Extralatency" :> 200)

\* The second session mixes its Markfree with the Markfull of the config file.
Mixed == Patterns("Markfree" :> 20 @@ "Markfull" :> 30, "Markfree" :> 20, Nothing)

\* The definition's own setting is not validated; the first pattern overrides it.
Unchecked ==
    [Patterns("Markfree" :> 1, Nothing, "Extralatency" :> 20000)
        EXCEPT !.setting = "Markfree" :> 30 @@ "Markfull" :> 20 @@ Default]

\* Patterns that start at 60 kbit/s: halved, raised again, as they are.  The
\* marks of the third fit together but not into 16 bits.
Slow ==
    [Patterns("Scale" :> 50, "Scale" :> 50 @@ "MinRateKbits" :> 50,
              "Markfree" :> 60000 @@ "Markfull" :> 70000)
        EXCEPT !.samples = <<60, 60, 60>>]

\* Refused when it is loaded: a marking, a frequency, no scale anywhere.
Invalid == Patterns("Markfree" :> 30 @@ "Markfull" :> 20, Nothing, Nothing)
Unplayable == Patterns("Frequency" :> 0, Nothing, Nothing)
Scaleless == [Plain EXCEPT !.setting = Nothing]

AllDefinitions == {Plain, Mixed, Unchecked, Slow, Invalid, Unplayable, Scaleless}

\* Every field the JSON can have is left to the config file.
OneDefinition == {Patterns(Nothing, Nothing, Nothing)}

=============================================================================

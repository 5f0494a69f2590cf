---------------------------- MODULE MCDrshowPipe ----------------------------
(***************************************************************************)
(* Three flows, and levels so small that samples decide who is eligible.   *)
(***************************************************************************)
EXTENDS DrshowPipe

Row(key, load) == [key |-> key, load |-> load]

Recording == <<Row("a", TRUE), Row("a", TRUE), Row("b", TRUE)>>

Flow(key, count) == [key |-> key, samples |-> [i \in 1..count |-> 0], loads |-> Min2(count, 2)]

\* The flow that got the first line of the recording.
First(count) == [Flow("a", count) EXCEPT !.samples[count] = 1]

Loaded(fs, sel) == [flows |-> fs, selected |-> sel, old |-> {}, printed |-> 1]

Fresh == [flows |-> <<>>, selected |-> 1, old |-> {}, printed |-> 0]

\* The first flow has not had two loads yet: the other two are eligible.
FirstIdle == Loaded(<<First(1), Flow("b", 3), Flow("c", 3)>>, 1)

\* The last flow, selected when there were fewer, has too few samples by now.
LastShort == Loaded(<<Flow("b", 4), Flow("c", 4), First(2)>>, 3)

\* The second flow lives on being recent.
MiddleRecent == Loaded(<<Flow("b", 4), First(3), Flow("c", 4)>>, 2)

AllStarts == {Fresh, FirstIdle, LastShort, MiddleRecent}

Additional == <<2, 2>>
Minimum == <<3, 4, 5>>

=============================================================================

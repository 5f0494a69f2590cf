-------------------------- MODULE DrshowPipeProofs --------------------------
(***************************************************************************)
(* Proofs about drshow at the end of a pipe, for every recording, size of  *)
(* the pipe, level of eligibility and number of charts, lines and keys:    *)
(* its types, no line is lost, what the arrow keys select, and the details *)
(* follow the selection.                                                   *)
(***************************************************************************)
EXTENDS DrshowPipe, FlowManagerProofs, SequenceTheorems

(***************************************************************************)
(* The lines in the pipe are the last ones printed, the head line before   *)
(* them as long as the reader looks for it; with the ones that were read   *)
(* no number is missing.                                                   *)
(***************************************************************************)
Lines == {generator(i) : i \in 0..MaxLines}

HeadAt == IF reader.at = "header" /\ pipe # <<>> THEN 1 ELSE 0

\* How many lines the reader has taken out of the pipe.
Taken == index + 1 - (Len(pipe) - HeadAt)

SourceOK ==
    /\ simulator \in {"headline", "lines", "exited"}
    /\ index \in -1..MaxLines
    /\ simulator # "exited" => index < MaxLines
    /\ pipe \in Seq({HEADLINE} \cup Lines)
    /\ Len(pipe) <= PipeSize
    /\ stdout \in {<<>>, <<HEADLINE>>}
    /\ reader \in [at : {"header", "read", "contains", "append", "details", "redraw", "end"},
                   line : {HEADLINE} \cup Lines]
    /\ reader.at \in {"contains", "append", "details", "redraw"} => reader.line \in Lines

Piped ==
    ended = "no" =>
        /\ simulator = "headline" => /\ index = -1 /\ stdout = <<>>
                                    /\ reader.at = "header" /\ pipe = <<>>
        /\ stdout # <<>> => index = -1 /\ reader.at = "header" /\ pipe = <<>>
        /\ simulator = "lines" /\ reader.at = "header" => stdout # <<>> \/ pipe # <<>>
        /\ reader.at = "header" /\ pipe # <<>> => pipe[1] = HEADLINE
        /\ index < MaxLines
        /\ Taken \in Nat
        /\ reader.at = "header" => Taken = 0
        /\ \A k \in DOMAIN pipe : k > HeadAt => pipe[k] = generator(index + k - Len(pipe))

ManagerOK ==
    /\ flows \in Seq([key : Keys, samples : Seq(Nat), loads : 0..2])
    /\ \A i \in DOMAIN flows : flows[i].loads <= Len(flows[i].samples)
    /\ selected \in IF flows = <<>> THEN {1} ELSE DOMAIN flows
    /\ old \subseteq DOMAIN flows

ThreadsOK ==
    /\ mutex \in {Free, "updater", "keyboard", "nobody any more"}
    /\ appenders \subseteq [line : Lines, at : {"get", "append", "notify"},
                            flow : {0} \cup DOMAIN flows]
    /\ \A a \in appenders : a.at # "get" => a.flow # 0
    /\ updater \in [at : {"select", "lock", "send", "unlock"}, flow : {0} \cup DOMAIN flows,
                    n : Nat, graph : 1..Graphs]
    /\ updater.at # "select" => updater.flow # 0
    /\ afters \subseteq [n : Nat, flow : DOMAIN flows, at : {"selected", "send"},
                         selected : {0} \cup DOMAIN flows]
    /\ \A a \in afters : a.at = "send" => a.selected # 0
    /\ keyboard \in {"wait", "details", "redraw", "cancelled", "gone"}
    /\ redraw \in [at : {"receive", "selected", "send"}, flow : {0} \cup DOMAIN flows]
    /\ redraw.at = "send" => redraw.flow # 0
    /\ reader.at \in {"details", "redraw"} => flows # <<>>
    /\ keyboard \in {"details", "redraw"} => flows # <<>>
    /\ redraw.at = "selected" => flows # <<>>
    /\ ended \in {"no", "no input", "goodbye", "panic"}
    /\ keys \in 0..MaxKeys

ScreenOK ==
    /\ widgets \subseteq DOMAIN flows
    /\ shown \in Seq([1..Graphs -> Nat])
    /\ Len(shown) = Len(flows)
    /\ \A i \in DOMAIN flows, g \in 1..Graphs : shown[i][g] <= Len(flows[i].samples)
    /\ details \in {0} \cup DOMAIN flows
    /\ stale \in BOOLEAN

KeysOnce ==
    /\ \A i, j \in DOMAIN flows : flows[i].key = flows[j].key => i = j
    /\ reader.at = "append" => ~Contains(flows, reader.line.key)
    /\ \A a \in appenders : a.at = "append" => flows[a.flow].key = a.line.key

HasLine == reader.at \in {"contains", "append", "details", "redraw"}

\* Each line that is under way is in one hand, and the flow or its key is known there.
Held ==
    ended = "no" =>
        /\ HasLine => /\ reader.line.n \in 1..Taken
                      /\ reader.line = generator(reader.line.n - 1)
                      /\ \A a \in appenders : a.line.n # reader.line.n
        /\ \A a \in appenders : a.line.n \in 1..Taken /\ a.line = generator(a.line.n - 1)
        /\ \A a, b \in appenders : a.line.n = b.line.n => a = b

\* Line n became the one sample it should.
Stored(n) == \E s \in SamplesOf(n) :
                SamplesOf(n) = {s} /\ flows[s[1]].key = generator(n - 1).key

Placed ==
    ended = "no" =>
        \A n \in 1..MaxLines :
            IF n > Taken \/ InHand(n) THEN SamplesOf(n) = {} ELSE Stored(n)

Followed ==
    /\ flows # <<>> =>
        \/ details = selected
        \/ stale
        \/ reader.at = "details"
        \/ keyboard \in {"details", "redraw"}
        \/ redraw.at = "selected"
        \/ redraw.at = "send" /\ redraw.flow = selected
    /\ redraw.at = "send" /\ redraw.flow # selected => keyboard \in {"details", "redraw"}

-----------------------------------------------------------------------------
(* The source and the reader.                                              *)

\* Everybody else leaves the pipe and the reader alone.
Elsewhere ==
    /\ UNCHANGED <<source, reader>>
    /\ ended' = "no" => ended = "no"

\* The reader goes on with the line it has.
Onward ==
    /\ UNCHANGED source
    /\ ended' = "no" => ended = "no"
    /\ reader.at # "header"
    /\ reader'.line = reader.line
    /\ reader' \in [at : {"read", "append", "details", "redraw", "end"},
                    line : {HEADLINE} \cup Lines]
    /\ reader'.at \in {"append", "details", "redraw"} =>
            reader.at \in {"contains", "append", "details"}

\* What everybody else does keeps the numbering.
LEMMA ElsewhereKeeps ==
    ASSUME SourceOK, Piped, Elsewhere
    PROVE  SourceOK' /\ Piped' /\ Taken' = Taken
BY DEF SourceOK, Piped, Elsewhere, source, Taken, HeadAt

\* So does a reader that goes on with its line.
LEMMA OnwardKeeps ==
    ASSUME SourceOK, Piped, Onward
    PROVE  SourceOK' /\ Piped' /\ Taken' = Taken
<1>1. SourceOK'
  BY DEF SourceOK, Onward, source
<1>2. reader'.at # "header" /\ reader.at # "header"
  BY DEF Onward
<1>3. HeadAt' = 0 /\ HeadAt = 0
  BY <1>2 DEF HeadAt
<1>4. Taken' = Taken
  BY <1>3 DEF Taken, Onward, source
<1> QED
  BY <1>1, <1>2, <1>3, <1>4 DEF Piped, Onward, source

\* The actions of the reader that take nothing out of the pipe.
LEMMA ReaderOnward ==
    ASSUME SourceOK, ReadEnd \/ ReadContains \/ ReadAppend \/ FirstDetails \/ FirstRedraw
    PROVE  Onward
<1> USE DEF Onward, SourceOK
<1>1. CASE ReadEnd
  BY <1>1 DEF ReadEnd
<1>2. CASE ReadContains
  BY <1>2 DEF ReadContains
<1>3. CASE ReadAppend
  BY <1>3 DEF ReadAppend
<1>4. CASE FirstDetails
  BY <1>4 DEF FirstDetails
<1>5. CASE FirstRedraw
  BY <1>5 DEF FirstRedraw
<1> QED
  BY <1>1, <1>2, <1>3, <1>4, <1>5

\* The actions of everybody else.
LEMMA OthersElsewhere ==
    ASSUME NoInput \/ Appender \/ Updater \/ After \/ Keyboard \/ RunReturns \/ Redraw
           \/ TimePasses \/ UNCHANGED vars
    PROVE  Elsewhere
<1> USE DEF Elsewhere, Running
<1>1. CASE NoInput
  BY <1>1 DEF NoInput, threads
<1>2. CASE Appender
  BY <1>2 DEF Appender, AppenderGets, AppenderAppends, AppenderNotifies
<1>3. CASE Updater
  BY <1>3 DEF Updater, UpdaterLocks, UpdaterFails, UpdaterSends, UpdaterUnlocks, UpdaterOnly
<1>4. CASE After
  BY <1>4 DEF After
<1>5. CASE Keyboard
  BY <1>5 DEF Keyboard, ArrowDown, ArrowUp, Select, KeyDetails, KeyRedraw, Space, ExitKey,
              ExitMessage, KeyboardOnly
<1>6. CASE RunReturns
  BY <1>6 DEF RunReturns, threads
<1>7. CASE Redraw
  BY <1>7 DEF Redraw
<1>8. CASE TimePasses
  BY <1>8 DEF TimePasses, threads
<1>9. CASE UNCHANGED vars
  BY <1>9 DEF vars, threads
<1> QED
  BY <1>1, <1>2, <1>3, <1>4, <1>5, <1>6, <1>7, <1>8, <1>9

\* A line that was printed is one of the lines.
LEMMA GeneratorLine ==
    ASSUME NEW i \in 0..MaxLines
    PROVE  /\ generator(i) \in Lines
           /\ generator(i) # HEADLINE
           /\ generator(i).n = i + 1
           /\ generator(i).key \in Keys
BY HeadlineAssumption DEF Lines, generator, Keys

\* What is known of a line.
LEMMA LineFacts ==
    ASSUME NEW line \in Lines
    PROVE  line.n \in 1..(MaxLines + 1) /\ line.key \in Keys /\ line # HEADLINE
<1>1. PICK i \in 0..MaxLines : line = generator(i)
  BY DEF Lines
<1> QED
  BY <1>1, GeneratorLine, SimulatorAssumption

\* The pipe as a sequence.
LEMMA PipeFacts ==
    ASSUME SourceOK
    PROVE  /\ Len(pipe) \in Nat
           /\ DOMAIN pipe = 1..Len(pipe)
           /\ pipe # <<>> <=> Len(pipe) > 0
           /\ HeadAt \in {0, 1}
           /\ HeadAt <= Len(pipe)
<1>1. pipe \in Seq({HEADLINE} \cup Lines)
  BY DEF SourceOK
<1> QED
  BY <1>1, LenProperties, EmptySeq DEF HeadAt

\* The head line is printed.
LEMMA HeadlineKeeps ==
    ASSUME SourceOK, Piped, PrintHeadline, UNCHANGED <<reader, ended>>
    PROVE  SourceOK' /\ Piped' /\ Taken' = Taken
<1> USE DEF PrintHeadline
<1>1. SourceOK'
  BY DEF SourceOK
<1>2. Piped'
  BY DEF SourceOK, Piped, Taken, HeadAt
<1>3. Taken' = Taken
  BY DEF Taken, HeadAt
<1> QED
  BY <1>1, <1>2, <1>3

\* What print flushes with the first line.
LEMMA HeadlineFirst ==
    ASSUME NEW line \in Lines
    PROVE  <<HEADLINE>> \o <<line>> = <<HEADLINE, line>>
<1> DEFINE S == {HEADLINE} \cup Lines
<1>1. <<HEADLINE>> \in Seq(S) /\ <<line>> \in Seq(S) /\ <<HEADLINE, line>> \in Seq(S)
  OBVIOUS
<1>2. /\ Len(<<HEADLINE>>) = 1 /\ Len(<<line>>) = 1 /\ Len(<<HEADLINE, line>>) = 2
      /\ <<HEADLINE>>[1] = HEADLINE /\ <<line>>[1] = line
      /\ <<HEADLINE, line>>[1] = HEADLINE /\ <<HEADLINE, line>>[2] = line
  OBVIOUS
<1> HIDE DEF S
<1>3. /\ <<HEADLINE>> \o <<line>> \in Seq(S)
      /\ Len(<<HEADLINE>> \o <<line>>) = 1 + 1
      /\ \A i \in 1..(1 + 1) : (<<HEADLINE>> \o <<line>>)[i] =
              IF i <= 1 THEN <<HEADLINE>>[i] ELSE <<line>>[i - 1]
  BY <1>1, <1>2, ConcatProperties
<1>4. \A i \in 1..2 : (<<HEADLINE>> \o <<line>>)[i] = <<HEADLINE, line>>[i]
  BY <1>2, <1>3
<1>5. Len(<<HEADLINE>> \o <<line>>) = Len(<<HEADLINE, line>>)
  BY <1>2, <1>3
<1>6. \A i \in 1..Len(<<HEADLINE>> \o <<line>>) :
          (<<HEADLINE>> \o <<line>>)[i] = <<HEADLINE, line>>[i]
  BY <1>3, <1>4
<1>7. \A s, t \in Seq(S) :
          Len(s) = Len(t) /\ (\A i \in 1..Len(s) : s[i] = t[i]) => s = t
  BY SeqEqual
<1> QED
  BY <1>1, <1>3, <1>5, <1>6, <1>7, Zenon

\* A line is printed and, with it, what was not flushed.
LEMMA LineKeeps ==
    ASSUME SourceOK, Piped, PrintLine(ended # "no"), UNCHANGED <<reader, ended>>
    PROVE  SourceOK' /\ Piped' /\ Taken' = Taken
<1> DEFINE line == generator(index + 1)
<1>1. /\ ended = "no" /\ simulator = "lines" /\ simulator' = "lines" /\ stdout' = <<>>
      /\ index' = index + 1 /\ index + 1 < MaxLines
      /\ pipe' = pipe \o stdout \o <<line>>
      /\ reader' = reader /\ ended' = ended
  BY DEF PrintLine
<1>2. index + 1 \in 0..MaxLines /\ line \in Lines
  BY <1>1, GeneratorLine, SimulatorAssumption DEF SourceOK
<1>3. index + 1 \in 0..MaxLines /\ index + 1 < MaxLines /\ index \in Int
  BY <1>1, <1>2 DEF SourceOK
<1>4. pipe \in Seq({HEADLINE} \cup Lines) /\ Len(pipe) \in Nat /\ HeadAt \in {0, 1}
  BY PipeFacts DEF SourceOK
<1> HIDE DEF line
<1>5. CASE stdout = <<HEADLINE>>
  <2>1. index = -1 /\ reader.at = "header" /\ pipe = <<>>
    BY <1>1, <1>5 DEF Piped
  <2>2. pipe' = <<HEADLINE, line>>
    <3>1. <<>> \o <<HEADLINE>> = <<HEADLINE>>
      OBVIOUS
    <3>2. <<HEADLINE>> \o <<line>> = <<HEADLINE, line>>
      BY <1>2, HeadlineFirst
    <3> QED
      BY <1>1, <1>5, <2>1, <3>1, <3>2, Zenon
  <2>3. pipe' \in Seq({HEADLINE} \cup Lines) /\ Len(pipe') = 2 /\ pipe'[1] = HEADLINE
        /\ pipe'[2] = line /\ DOMAIN pipe' = 1..2 /\ pipe' # <<>>
    BY <2>2, <1>2
  <2>4. HeadAt' = 1 /\ Taken' = 0 /\ index' = 0
    BY <2>1, <2>3, <1>1 DEF HeadAt, Taken
  <2>5. Len(pipe') <= PipeSize
    BY <2>3, SimulatorAssumption
  <2>6. SourceOK'
    BY <1>1, <1>3, <2>3, <2>5, SimulatorAssumption DEF SourceOK
  <2>7. \A k \in DOMAIN pipe' : k > 1 => pipe'[k] = generator(index' + k - Len(pipe'))
    BY <1>1, <2>1, <2>3 DEF line
  <2>8. Piped'
    BY <1>1, <2>1, <2>3, <2>4, <2>7 DEF Piped
  <2>9. Taken = 0
    BY <1>1, <2>1 DEF Piped
  <2> QED
    BY <2>4, <2>6, <2>8, <2>9
<1>6. CASE stdout = <<>>
  <2>1. pipe' = Append(pipe, line)
    BY <1>1, <1>4, <1>6
  <2>2. /\ pipe' \in Seq({HEADLINE} \cup Lines) /\ pipe' # <<>>
        /\ Len(pipe') = Len(pipe) + 1
        /\ DOMAIN pipe' = 1..(Len(pipe) + 1)
        /\ pipe'[Len(pipe) + 1] = line
        /\ \A k \in 1..Len(pipe) : pipe'[k] = pipe[k]
    BY <2>1, <1>2, <1>4, AppendProperties
  <2>3. reader.at = "header" => pipe # <<>> /\ pipe[1] = HEADLINE
    BY <1>1, <1>6 DEF Piped
  <2>4. HeadAt' = HeadAt
    BY <2>2, <2>3, <1>1 DEF HeadAt
  <2>5. Taken' = Taken
    BY <2>2, <2>4, <1>1, <1>3, <1>4 DEF Taken
  <2>6. Len(pipe') <= PipeSize
    <3>1. Len(pipe \o stdout) < PipeSize
      BY DEF PrintLine
    <3>2. pipe \o stdout = pipe
      BY <1>4, <1>6
    <3> QED
      BY <1>4, <2>2, <3>1, <3>2, SimulatorAssumption
  <2>7. SourceOK'
    BY <1>1, <1>3, <2>2, <2>6, SimulatorAssumption DEF SourceOK
  <2>8. ASSUME NEW k \in DOMAIN pipe', k > HeadAt'
        PROVE  pipe'[k] = generator(index' + k - Len(pipe'))
    <3>1. CASE k \in 1..Len(pipe)
      <4>1. pipe[k] = generator(index + k - Len(pipe))
        BY <1>1, <2>4, <2>8, <3>1, PipeFacts DEF Piped
      <4>2. index' + k - Len(pipe') = index + k - Len(pipe)
        BY <1>1, <1>3, <1>4, <2>2, <3>1
      <4> QED
        BY <2>2, <3>1, <4>1, <4>2
    <3>2. CASE k = Len(pipe) + 1
      <4>1. index' + k - Len(pipe') = index + 1
        <5>1. index' = index + 1 /\ Len(pipe') = Len(pipe) + 1
          BY <1>1, <2>2
        <5> QED
          BY <5>1, <1>3, <1>4, <3>2
      <4> QED
        BY <2>2, <3>2, <4>1 DEF line
    <3> QED
      BY <1>4, <2>2, <2>8, <3>1, <3>2
  <2>9. pipe'[1] = HEADLINE \/ reader.at # "header"
    <3>1. pipe # <<>> => 1 \in 1..Len(pipe)
      BY PipeFacts
    <3> QED
      BY <2>2, <2>3, <3>1
  <2>10. Taken \in Nat /\ (reader.at = "header" => Taken = 0)
    BY <1>1 DEF Piped
  <2>11. Piped'
    BY <1>1, <2>2, <2>5, <2>8, <2>9, <2>10 DEF Piped
  <2> QED
    BY <2>5, <2>7, <2>11
<1> QED
  BY <1>5, <1>6 DEF SourceOK

\* The simulator ends.
LEMMA EndKeeps ==
    ASSUME SourceOK, Piped, BrokenPipe(ended # "no") \/ Killed, UNCHANGED <<reader, ended>>
    PROVE  SourceOK' /\ Piped' /\ (ended = "no" => Taken' = Taken)
<1>1. CASE BrokenPipe(ended # "no")
  <2>1. SourceOK'
    BY <1>1, SimulatorAssumption DEF BrokenPipe, SourceOK
  <2>2. Piped'
    BY <1>1 DEF BrokenPipe, Piped
  <2> QED
    BY <1>1, <2>1, <2>2 DEF BrokenPipe
<1>2. CASE Killed
  BY <1>2 DEF Killed, SourceOK, Piped, Taken, HeadAt
<1> QED
  BY <1>1, <1>2

\* What the reader takes out of the pipe is the next line.
LEMMA NextLine ==
    ASSUME SourceOK, Piped, ended = "no", reader.at # "header", pipe # <<>>
    PROVE  /\ Head(pipe) = generator(Taken)
           /\ Taken \in 0..index
           /\ Head(pipe) \in Lines
<1>1. pipe \in Seq({HEADLINE} \cup Lines) /\ Len(pipe) \in Nat /\ Len(pipe) > 0
  BY PipeFacts DEF SourceOK
<1>2. HeadAt = 0 /\ Taken = index + 1 - Len(pipe) /\ Taken \in Nat
  BY DEF HeadAt, Taken, Piped
<1>3. index \in Int /\ index <= MaxLines
  BY SimulatorAssumption DEF SourceOK
<1>4. 1 \in DOMAIN pipe /\ Head(pipe) = pipe[1]
  BY <1>1, PipeFacts
<1>5. pipe[1] = generator(index + 1 - Len(pipe))
  BY <1>2, <1>4 DEF Piped
<1>6. Taken \in 0..index
  BY <1>1, <1>2, <1>3
<1>7. Taken \in 0..MaxLines
  BY <1>3, <1>6, SimulatorAssumption
<1> QED
  BY <1>2, <1>4, <1>5, <1>6, <1>7, GeneratorLine

\* It leaves the rest.
LEMMA RestOfPipe ==
    ASSUME SourceOK, pipe # <<>>
    PROVE  /\ Tail(pipe) \in Seq({HEADLINE} \cup Lines)
           /\ Len(Tail(pipe)) = Len(pipe) - 1
           /\ DOMAIN Tail(pipe) = 1..(Len(pipe) - 1)
           /\ \A k \in 1..(Len(pipe) - 1) : Tail(pipe)[k] = pipe[k + 1] /\ k + 1 \in DOMAIN pipe
<1>1. pipe \in Seq({HEADLINE} \cup Lines) /\ Len(pipe) \in Nat /\ DOMAIN pipe = 1..Len(pipe)
  BY PipeFacts DEF SourceOK
<1> QED
  BY <1>1

\* The reader takes the head line, or the next line, out of the pipe.
LEMMA ReadsKeeps ==
    ASSUME SourceOK, Piped, Reads,
           IF reader.at = "header" THEN reader'.at = "read"
           ELSE reader' = [at |-> "contains", line |-> Head(pipe)],
           reader' \in [at : {"read", "contains"}, line : {HEADLINE} \cup Lines]
    PROVE  /\ SourceOK' /\ Piped'
           /\ Taken' = IF reader.at = "header" THEN Taken ELSE Taken + 1
<1>1. /\ ended = "no" /\ pipe # <<>> /\ pipe' = Tail(pipe) /\ ended' = ended
      /\ simulator' = simulator /\ index' = index /\ stdout' = stdout
  BY DEF Reads, Running
<1>2. Len(pipe) \in Nat /\ Len(pipe) > 0 /\ index \in Int /\ PipeSize \in Nat
  BY <1>1, PipeFacts, SimulatorAssumption DEF SourceOK
<1>3. reader'.at # "header" /\ HeadAt' = 0
  BY DEF HeadAt
<1>4. Len(pipe') = Len(pipe) - 1
  BY <1>1, RestOfPipe
<1>5. reader'.at = "contains" => reader'.line \in Lines
  BY <1>1, NextLine
<1>6. SourceOK'
  BY <1>1, <1>2, <1>4, <1>5, RestOfPipe DEF SourceOK
<1>7. CASE reader.at = "header"
  <2>1. HeadAt = 1 /\ Taken = 0 /\ Taken' = Taken
    BY <1>1, <1>2, <1>3, <1>4, <1>7 DEF HeadAt, Taken, Piped
  <2>2. ASSUME NEW k \in DOMAIN pipe'
        PROVE  pipe'[k] = generator(index' + k - Len(pipe'))
    <3>1. k \in 1..(Len(pipe) - 1) /\ pipe'[k] = pipe[k + 1] /\ k + 1 \in DOMAIN pipe
      BY <1>1, RestOfPipe
    <3>2. pipe[k + 1] = generator(index + (k + 1) - Len(pipe))
      BY <1>1, <2>1, <3>1 DEF Piped
    <3>3. index + (k + 1) - Len(pipe) = index' + k - Len(pipe')
      BY <1>1, <1>2, <1>4, <3>1
    <3> QED
      BY <3>1, <3>2, <3>3
  <2>3. stdout' = <<>> /\ simulator' # "headline"
    BY <1>1 DEF Piped, SourceOK
  <2>4. Piped'
    BY <1>1, <1>3, <2>1, <2>2, <2>3 DEF Piped
  <2> QED
    BY <1>7, <1>6, <2>1, <2>4
<1>8. CASE reader.at # "header"
  <2>1. HeadAt = 0 /\ Taken \in Nat /\ Taken' = Taken + 1
    <3>1. HeadAt = 0 /\ Taken \in Nat
      BY <1>1, <1>8 DEF HeadAt, Piped
    <3>2. Taken = index + 1 - (Len(pipe) - 0) /\ Taken' = index + 1 - (Len(pipe) - 1 - 0)
      BY <3>1, <1>1, <1>3, <1>4 DEF Taken
    <3> QED
      BY <3>1, <3>2, <1>2
  <2>2. ASSUME NEW k \in DOMAIN pipe'
        PROVE  pipe'[k] = generator(index' + k - Len(pipe'))
    <3>1. k \in 1..(Len(pipe) - 1) /\ pipe'[k] = pipe[k + 1] /\ k + 1 \in DOMAIN pipe
      BY <1>1, RestOfPipe
    <3>2. pipe[k + 1] = generator(index + (k + 1) - Len(pipe))
      BY <1>1, <2>1, <3>1 DEF Piped
    <3>3. index + (k + 1) - Len(pipe) = index' + k - Len(pipe')
      BY <1>1, <1>2, <1>4, <3>1
    <3> QED
      BY <3>1, <3>2, <3>3
  <2>3. stdout' = <<>> /\ simulator' # "headline"
    BY <1>1, <1>8 DEF Piped, SourceOK
  <2>4. Piped'
    BY <1>1, <1>3, <2>1, <2>2, <2>3 DEF Piped
  <2> QED
    BY <1>8, <1>6, <2>1, <2>4
<1> QED
  BY <1>7, <1>8

(***************************************************************************)
(* Every step keeps the numbering of the pipe.                             *)
(***************************************************************************)
LEMMA SourceStep ==
    ASSUME SourceOK, Piped, [Next]_vars
    PROVE  /\ SourceOK' /\ Piped'
           /\ ended = "no" => (Taken' = Taken \/ (ReadLine /\ Taken' = Taken + 1))
<1>1. CASE Source
  <2>1. UNCHANGED <<reader, ended>>
    BY <1>1 DEF Source, threads
  <2>2. PrintHeadline \/ PrintLine(ended # "no") \/ BrokenPipe(ended # "no")
    BY <1>1 DEF Source, Simulator
  <2> QED
    BY <2>1, <2>2, HeadlineKeeps, LineKeeps, EndKeeps
<1>2. CASE SourceKilled
  <2>1. UNCHANGED <<reader, ended>> /\ Killed
    BY <1>2 DEF SourceKilled, threads
  <2> QED
    BY <2>1, EndKeeps
<1>3. CASE SkipToMeasures
  <2>1. Reads /\ reader.at = "header" /\ Head(pipe) = HEADLINE /\ reader'.at = "read"
    <3>1. Reads /\ reader.at = "header" /\ pipe # <<>> /\ ended = "no"
      BY <1>3 DEF SkipToMeasures, Reads, Running
    <3>2. pipe[1] = HEADLINE /\ pipe \in Seq({HEADLINE} \cup Lines)
      BY <3>1 DEF Piped, SourceOK
    <3>3. Head(pipe) = HEADLINE
      BY <3>1, <3>2
    <3> QED
      BY <1>3, <3>1, <3>3 DEF SkipToMeasures, SourceOK
  <2>2. reader' \in [at : {"read", "contains"}, line : {HEADLINE} \cup Lines]
    BY <1>3, <2>1 DEF SkipToMeasures, SourceOK
  <2> QED
    BY <2>1, <2>2, ReadsKeeps
<1>4. CASE ReadLine
  <2>1. Reads /\ reader.at # "header" /\ reader' = [at |-> "contains", line |-> Head(pipe)]
        /\ pipe # <<>> /\ ended = "no"
    BY <1>4 DEF ReadLine, Reads, Running
  <2>2. Head(pipe) \in Lines
    BY <2>1, NextLine
  <2> QED
    BY <1>4, <2>1, <2>2, ReadsKeeps
<1>5. CASE ReadEnd \/ ReadContains \/ ReadAppend \/ FirstDetails \/ FirstRedraw
  BY <1>5, ReaderOnward, OnwardKeeps
<1>6. CASE NoInput \/ Appender \/ Updater \/ After \/ Keyboard \/ RunReturns \/ Redraw
           \/ TimePasses \/ UNCHANGED vars
  BY <1>6, OthersElsewhere, ElsewhereKeeps
<1> QED
  BY <1>1, <1>2, <1>3, <1>4, <1>5, <1>6 DEF Next, Reader

-----------------------------------------------------------------------------
(* The flows and the selection.                                            *)

FlowRecord == [key : Keys, samples : Seq(Nat), loads : 0..2]

\* The flows as a sequence, and the selected one among them.
LEMMA FlowsFacts ==
    ASSUME ManagerOK
    PROVE  /\ flows \in Seq(FlowRecord)
           /\ Len(flows) \in Nat
           /\ DOMAIN flows = 1..Len(flows)
           /\ flows = <<>> <=> DOMAIN flows = {}
           /\ selected \in Nat \ {0}
           /\ flows # <<>> => selected \in DOMAIN flows
           /\ \A i \in DOMAIN flows : /\ flows[i] \in FlowRecord
                                      /\ flows[i].samples \in Seq(Nat)
                                      /\ Len(flows[i].samples) \in Nat
<1>1. flows \in Seq(FlowRecord)
  BY DEF ManagerOK, FlowRecord
<1>2. Len(flows) \in Nat /\ DOMAIN flows = 1..Len(flows) /\ (flows = <<>> <=> DOMAIN flows = {})
  BY <1>1, LenProperties, EmptySeq
<1>3. \A i \in DOMAIN flows : flows[i] \in FlowRecord
  BY <1>1, <1>2, ElementOfSeq
<1>4. \A i \in DOMAIN flows : flows[i].samples \in Seq(Nat) /\ Len(flows[i].samples) \in Nat
  BY <1>3, LenProperties DEF FlowRecord
<1>5. flows = <<>> => selected = 1
  BY DEF ManagerOK
<1>6. flows # <<>> => selected \in DOMAIN flows
  BY DEF ManagerOK
<1>7. selected \in Nat \ {0}
  BY <1>2, <1>5, <1>6
<1> QED
  BY <1>1, <1>2, <1>3, <1>4, <1>6, <1>7

\* A new flow comes last and has no samples.
LEMMA NewFlowFacts ==
    ASSUME SourceOK, ManagerOK, ReadAppend
    PROVE  /\ flows' \in Seq(FlowRecord)
           /\ Len(flows') = Len(flows) + 1
           /\ DOMAIN flows' = DOMAIN flows \cup {Len(flows) + 1}
           /\ Len(flows) + 1 \notin DOMAIN flows
           /\ \A i \in DOMAIN flows : flows'[i] = flows[i]
           /\ flows'[Len(flows) + 1] = [key |-> reader.line.key, samples |-> <<>>, loads |-> 0]
<1>1. flows' = Append(flows, [key |-> reader.line.key, samples |-> <<>>, loads |-> 0])
  BY DEF ReadAppend, NewFlow
<1>2. reader.line.key \in Keys
  BY LineFacts DEF SourceOK, ReadAppend
<1>3. [key |-> reader.line.key, samples |-> <<>>, loads |-> 0] \in FlowRecord
  BY <1>2 DEF FlowRecord
<1> QED
  BY <1>1, <1>3, FlowsFacts, AppendProperties

\* A sample comes last in its flow; nothing else changes.
LEMMA AppendSampleFacts ==
    ASSUME ManagerOK, NEW a, a.flow \in DOMAIN flows, a.line \in Lines, AppenderAppends(a)
    PROVE  /\ flows' \in Seq(FlowRecord)
           /\ Len(flows') = Len(flows)
           /\ DOMAIN flows' = DOMAIN flows
           /\ \A i \in DOMAIN flows : i # a.flow => flows'[i] = flows[i]
           /\ \A i \in DOMAIN flows : flows'[i].key = flows[i].key
           /\ flows'[a.flow].samples = Append(flows[a.flow].samples, a.line.n)
           /\ flows'[a.flow].loads <= Len(flows'[a.flow].samples)
<1> DEFINE f == flows[a.flow]
           g == AppendSample(f, a.line)
<1>1. flows' = [flows EXCEPT ![a.flow] = g]
  BY DEF AppenderAppends
<1>2. f \in FlowRecord /\ f.samples \in Seq(Nat) /\ Len(f.samples) \in Nat /\ f.loads \in 0..2
      /\ f.loads <= Len(f.samples)
  BY FlowsFacts DEF FlowRecord, ManagerOK
<1>3. a.line.n \in Nat
  BY LineFacts, SimulatorAssumption
<1>4. Append(f.samples, a.line.n) \in Seq(Nat)
      /\ Len(Append(f.samples, a.line.n)) = Len(f.samples) + 1
  BY <1>2, <1>3, AppendProperties
<1> DEFINE loads == IF a.line.load THEN Min2(f.loads + 1, 2) ELSE f.loads
<1>5. g = [key |-> f.key, samples |-> Append(f.samples, a.line.n), loads |-> loads]
  BY DEF AppendSample
<1>6. loads \in 0..2 /\ loads <= Len(f.samples) + 1
  <2> HIDE DEF f, g
  <2> QED
    BY <1>2 DEF Min2
<1> HIDE DEF f, g, loads
<1>7. g \in FlowRecord
  BY <1>2, <1>4, <1>5, <1>6 DEF FlowRecord
<1>8. flows' \in Seq(FlowRecord) /\ Len(flows') = Len(flows)
      /\ \A i \in 1..Len(flows) : flows'[i] = IF i = a.flow THEN g ELSE flows[i]
  BY <1>1, <1>7, FlowsFacts, ExceptSeq
<1>9. DOMAIN flows' = DOMAIN flows
  BY <1>8, FlowsFacts, LenProperties
<1>10. flows'[a.flow] = g /\ a.flow \in 1..Len(flows) /\ f = flows[a.flow]
  BY <1>8, FlowsFacts DEF f
<1>11. \A i \in DOMAIN flows : i # a.flow => flows'[i] = flows[i]
  BY <1>8, FlowsFacts
<1>12. \A i \in DOMAIN flows : flows'[i].key = flows[i].key
  BY <1>5, <1>10, <1>11
<1>13. g.samples = Append(f.samples, a.line.n) /\ g.loads = loads
  BY <1>5
<1>14. flows'[a.flow].loads <= Len(flows'[a.flow].samples)
  BY <1>4, <1>6, <1>10, <1>13
<1> QED
  BY <1>8, <1>9, <1>10, <1>11, <1>12, <1>13, <1>14

\* An appender of an Appender step.
LEMMA AppenderFacts ==
    ASSUME ManagerOK, ThreadsOK, NEW a \in appenders
    PROVE  /\ a \in [line : Lines, at : {"get", "append", "notify"},
                     flow : {0} \cup DOMAIN flows]
           /\ a.line \in Lines
           /\ a.at # "get" => a.flow \in DOMAIN flows
BY DEF ThreadsOK

\* What an arrow key comes to.
LEMMA ArrowSelects ==
    ASSUME ManagerOK, ArrowDown \/ ArrowUp
    PROVE  /\ mutex = Free /\ keyboard = "wait" /\ keys' = keys + 1 /\ keys < MaxKeys
           /\ UNCHANGED <<source, flows, old, reader, appenders, updater, afters, redraw, screen>>
           /\ \/ UNCHANGED <<selected, keyboard, mutex, ended>>
              \/ /\ UNCHANGED <<selected, keyboard, mutex>>
                 /\ ended' = "panic" /\ selected \notin Eligible
              \/ /\ Neighbour(Eligible, selected, selected')
                 /\ mutex' = "keyboard" /\ keyboard' = "details"
                 /\ UNCHANGED ended
<1>1. DOMAIN flows = 1..Len(flows) /\ Len(flows) \in Nat /\ selected \in Nat
  BY FlowsFacts
<1>2. ASSUME NEW result,
             Select(result),
             \/ result = Error
             \/ result = [kind |-> "panic"] /\ selected \notin Eligible
             \/ \E i \in Eligible :
                    result = [kind |-> "flow", flow |-> i] /\ Neighbour(Eligible, selected, i)
      PROVE  /\ mutex = Free /\ keyboard = "wait" /\ keys' = keys + 1 /\ keys < MaxKeys
             /\ UNCHANGED <<source, flows, old, reader, appenders, updater, afters, redraw,
                            screen>>
             /\ \/ UNCHANGED <<selected, keyboard, mutex, ended>>
                \/ /\ UNCHANGED <<selected, keyboard, mutex>>
                   /\ ended' = "panic" /\ selected \notin Eligible
                \/ /\ Neighbour(Eligible, selected, selected')
                   /\ mutex' = "keyboard" /\ keyboard' = "details"
                   /\ UNCHANGED ended
  <2>1. /\ mutex = Free /\ keyboard = "wait" /\ keys' = keys + 1 /\ keys < MaxKeys
        /\ UNCHANGED <<source, flows, old, reader, appenders, updater, afters, redraw, screen>>
    BY <1>2 DEF Select, Press, KeyboardOnly
  <2>2. CASE result = Error
    BY <1>2, <2>1, <2>2 DEF Select, Error
  <2>3. CASE result = [kind |-> "panic"] /\ selected \notin Eligible
    BY <1>2, <2>1, <2>3 DEF Select
  <2>4. ASSUME NEW i \in Eligible, result = [kind |-> "flow", flow |-> i],
               Neighbour(Eligible, selected, i)
        PROVE  /\ Neighbour(Eligible, selected, selected')
               /\ mutex' = "keyboard" /\ keyboard' = "details"
               /\ UNCHANGED ended
    BY <1>2, <2>4 DEF Select
  <2> QED
    BY <1>2, <2>1, <2>2, <2>3, <2>4
<1>3. CASE ArrowDown
  <2>1. Select(SelectNext(flows, old, selected))
    BY <1>3 DEF ArrowDown
  <2> QED
    BY <1>1, <1>2, <2>1, NextSelects DEF Eligible
<1>4. CASE ArrowUp
  <2>1. Select(SelectPrevious(flows, old, selected))
    BY <1>4 DEF ArrowUp
  <2> QED
    BY <1>1, <1>2, <2>1, PreviousSelects DEF Eligible
<1> QED
  BY <1>3, <1>4

\* An arrow key selects a flow that exists.
LEMMA NeighbourIsFlow ==
    ASSUME Neighbour(Eligible, selected, selected')
    PROVE  selected' \in DOMAIN flows
BY DEF Neighbour, Eligible, EligibleFlows

\* The steps that leave the flows and the selection alone.
Sideways ==
    \/ Source \/ SourceKilled
    \/ SkipToMeasures \/ NoInput \/ ReadLine \/ ReadEnd \/ ReadContains
    \/ FirstDetails \/ FirstRedraw
    \/ Running /\ \E a \in appenders : AppenderGets(a) \/ AppenderNotifies(a)
    \/ Updater \/ After
    \/ KeyDetails \/ KeyRedraw \/ Space \/ ExitKey \/ ExitMessage
    \/ RunReturns \/ Redraw \/ UNCHANGED vars

\* Those steps leave the fields of the manager alone.
LEMMA SidewaysKeeps ==
    ASSUME Sideways
    PROVE  UNCHANGED manager
<1>1. CASE Source \/ SourceKilled
  BY <1>1 DEF Source, SourceKilled, manager
<1>2. CASE SkipToMeasures \/ NoInput \/ ReadLine \/ ReadEnd \/ ReadContains
           \/ FirstDetails \/ FirstRedraw
  BY <1>2 DEF SkipToMeasures, NoInput, ReadLine, Reads, ReadEnd, ReadContains, FirstDetails,
              FirstRedraw, manager
<1>3. CASE Running /\ \E a \in appenders : AppenderGets(a) \/ AppenderNotifies(a)
  BY <1>3 DEF AppenderGets, AppenderNotifies, manager
<1>4. CASE Updater
  BY <1>4 DEF Updater, UpdaterLocks, UpdaterFails, UpdaterSends, UpdaterUnlocks, UpdaterOnly,
              manager
<1>5. CASE After
  BY <1>5 DEF After, manager
<1>6. CASE KeyDetails \/ KeyRedraw \/ Space \/ ExitKey \/ ExitMessage
  BY <1>6 DEF KeyDetails, KeyRedraw, Space, ExitKey, ExitMessage, KeyboardOnly, manager
<1>7. CASE RunReturns \/ Redraw \/ UNCHANGED vars
  BY <1>7 DEF RunReturns, Redraw, vars, manager
<1> QED
  BY <1>1, <1>2, <1>3, <1>4, <1>5, <1>6, <1>7 DEF Sideways

\* What a step does with the flows: nothing, a new flow, a new sample, a key, or time.
LEMMA Steps ==
    ASSUME [Next]_vars
    PROVE  \/ Sideways
           \/ ReadAppend
           \/ Running /\ \E a \in appenders : AppenderAppends(a)
           \/ ArrowDown \/ ArrowUp
           \/ TimePasses
<1>1. Reader => Sideways \/ ReadAppend
  BY DEF Reader, Sideways
<1>2. Appender => Sideways \/ (Running /\ \E a \in appenders : AppenderAppends(a))
  BY DEF Appender, Sideways
<1>3. Keyboard => Sideways \/ ArrowDown \/ ArrowUp
  BY DEF Keyboard, Sideways
<1>4. Source \/ SourceKilled \/ Updater \/ After \/ RunReturns \/ Redraw \/ UNCHANGED vars
        => Sideways
  BY DEF Sideways
<1> QED
  BY <1>1, <1>2, <1>3, <1>4 DEF Next

\* Every step keeps the manager's fields in order, and every flow.
LEMMA ManagerStep ==
    ASSUME SourceOK, ManagerOK, ThreadsOK, [Next]_vars
    PROVE  /\ ManagerOK'
           /\ DOMAIN flows \subseteq DOMAIN flows'
           /\ flows # <<>> => flows' # <<>>
<1>1. CASE Sideways
  BY <1>1, SidewaysKeeps DEF ManagerOK, manager
<1>2. CASE ReadAppend
  <2>1. flows' \in Seq(FlowRecord) /\ DOMAIN flows' = DOMAIN flows \cup {Len(flows) + 1}
    BY <1>2, NewFlowFacts
  <2>2. ASSUME NEW i \in DOMAIN flows' PROVE flows'[i].loads <= Len(flows'[i].samples)
    <3>1. CASE i \in DOMAIN flows
      BY <1>2, <3>1, NewFlowFacts DEF ManagerOK
    <3>2. CASE i = Len(flows) + 1
      BY <1>2, <3>2, NewFlowFacts
    <3> QED
      BY <2>1, <3>1, <3>2
  <2>3. flows' # <<>>
    BY <1>2 DEF ReadAppend
  <2>4. selected' = selected /\ old' = old
    BY <1>2 DEF ReadAppend
  <2>5. selected \in DOMAIN flows'
    BY <2>1, FlowsFacts DEF ManagerOK
  <2> QED
    BY <2>1, <2>2, <2>3, <2>4, <2>5 DEF ManagerOK, FlowRecord
<1>3. CASE Running /\ \E a \in appenders : AppenderAppends(a)
  <2>1. PICK a \in appenders : AppenderAppends(a)
    BY <1>3
  <2>2. a.flow \in DOMAIN flows /\ a.line \in Lines
    BY <2>1, AppenderFacts DEF AppenderAppends
  <2>3. flows' \in Seq(FlowRecord) /\ DOMAIN flows' = DOMAIN flows
        /\ \A i \in DOMAIN flows : flows'[i].loads <= Len(flows'[i].samples)
    BY <2>1, <2>2, AppendSampleFacts DEF ManagerOK
  <2>4. flows' # <<>>
    BY <2>2, <2>3, EmptySeq, LenProperties
  <2>5. selected' = selected /\ old' \subseteq old
    BY <2>1 DEF AppenderAppends
  <2>6. flows # <<>>
    BY <2>2, FlowsFacts
  <2> QED
    BY <2>3, <2>4, <2>5, <2>6 DEF ManagerOK, FlowRecord
<1>4. CASE ArrowDown \/ ArrowUp
  <2>1. flows' = flows /\ old' = old
    BY <1>4, ArrowSelects
  <2>2. selected' = selected \/ selected' \in DOMAIN flows
    BY <1>4, ArrowSelects, NeighbourIsFlow
  <2>3. selected' \in IF flows = <<>> THEN {1} ELSE DOMAIN flows
    BY <2>2, FlowsFacts DEF ManagerOK
  <2> QED
    BY <2>1, <2>3 DEF ManagerOK
<1>5. CASE TimePasses
  BY <1>5 DEF TimePasses, ManagerOK
<1> QED
  BY <1>1, <1>2, <1>3, <1>4, <1>5, Steps

-----------------------------------------------------------------------------
(* The goroutines.                                                         *)

\* The flows that are there stay there.
FlowsStay == DOMAIN flows \subseteq DOMAIN flows' /\ (flows # <<>> => flows' # <<>>)

\* Goroutines that stay where they are while flows are added.
LEMMA ThreadsStay ==
    ASSUME ThreadsOK, FlowsStay,
           UNCHANGED <<mutex, appenders, updater, afters, keyboard, redraw, ended, keys>>,
           reader'.at \in {"details", "redraw"} => flows' # <<>>
    PROVE  ThreadsOK'
<1>1. {0} \cup DOMAIN flows \subseteq {0} \cup DOMAIN flows'
  BY DEF FlowsStay
<1>2. appenders' \subseteq [line : Lines, at : {"get", "append", "notify"},
                            flow : {0} \cup DOMAIN flows']
  BY <1>1 DEF ThreadsOK
<1>3. afters' \subseteq [n : Nat, flow : DOMAIN flows', at : {"selected", "send"},
                         selected : {0} \cup DOMAIN flows']
  BY <1>1 DEF ThreadsOK, FlowsStay
<1>4. /\ updater' \in [at : {"select", "lock", "send", "unlock"}, flow : {0} \cup DOMAIN flows',
                       n : Nat, graph : 1..Graphs]
      /\ redraw' \in [at : {"receive", "selected", "send"}, flow : {0} \cup DOMAIN flows']
  BY <1>1 DEF ThreadsOK
<1> QED
  BY <1>2, <1>3, <1>4 DEF ThreadsOK, FlowsStay

\* A line of the reader gets a goroutine.
LEMMA SpawnKeeps ==
    ASSUME ThreadsOK, FlowsStay, reader.line \in Lines, Spawn(reader.line),
           UNCHANGED <<mutex, updater, afters, keyboard, ended, keys>>,
           reader'.at \notin {"details", "redraw"},
           redraw' = redraw \/ (flows # <<>> /\ SendRedraw)
    PROVE  ThreadsOK'
<1>1. {0} \cup DOMAIN flows \subseteq {0} \cup DOMAIN flows'
  BY DEF FlowsStay
<1> DEFINE new == [line |-> reader.line, at |-> "get", flow |-> 0]
           Sorts == [line : Lines, at : {"get", "append", "notify"},
                     flow : {0} \cup DOMAIN flows']
<1>n. new \in Sorts /\ new.at = "get"
  OBVIOUS
<1>a. \A a \in appenders : a \in Sorts /\ (a.at # "get" => a.flow # 0)
  BY <1>1 DEF ThreadsOK
<1>b. appenders' = appenders \cup {new}
  BY DEF Spawn
<1> HIDE DEF new
<1>2. appenders' \subseteq Sorts
  BY <1>n, <1>a, <1>b
<1>3. \A a \in appenders' : a.at # "get" => a.flow # 0
  BY <1>n, <1>a, <1>b
<1>4. afters' \subseteq [n : Nat, flow : DOMAIN flows', at : {"selected", "send"},
                         selected : {0} \cup DOMAIN flows']
  BY <1>1 DEF ThreadsOK, FlowsStay
<1>5. updater' \in [at : {"select", "lock", "send", "unlock"}, flow : {0} \cup DOMAIN flows',
                    n : Nat, graph : 1..Graphs]
  BY <1>1 DEF ThreadsOK
<1>6. /\ redraw' \in [at : {"receive", "selected", "send"}, flow : {0} \cup DOMAIN flows']
      /\ redraw'.at = "send" => redraw'.flow # 0
      /\ redraw'.at = "selected" => flows' # <<>>
  BY <1>1 DEF ThreadsOK, FlowsStay, SendRedraw
<1> QED
  BY <1>2, <1>3, <1>4, <1>5, <1>6 DEF ThreadsOK, FlowsStay

\* The reader.
LEMMA ReaderThreads ==
    ASSUME SourceOK, ManagerOK, ThreadsOK, FlowsStay, Reader
    PROVE  ThreadsOK'
<1>1. CASE SkipToMeasures \/ ReadLine
  <2>1. reader'.at \notin {"details", "redraw"}
    BY <1>1 DEF SkipToMeasures, ReadLine, SourceOK
  <2> QED
    BY <1>1, <2>1, ThreadsStay DEF SkipToMeasures, ReadLine, Reads
<1>2. CASE NoInput
  <2>1. UNCHANGED <<mutex, threads, flows, keys>> /\ ended' = "no input"
    BY <1>2 DEF NoInput, manager
  <2> QED
    BY <2>1 DEF ThreadsOK, threads
<1>3. CASE ReadEnd
  <2>1. reader'.at = "end"
    BY <1>3 DEF ReadEnd, SourceOK
  <2> QED
    BY <1>3, <2>1, ThreadsStay DEF ReadEnd
<1>4. CASE ReadContains
  <2>1. reader.line \in Lines /\ reader'.at \notin {"details", "redraw"}
    BY <1>4 DEF ReadContains, SourceOK
  <2>2. UNCHANGED <<mutex, updater, afters, keyboard, redraw, ended, keys>>
    BY <1>4 DEF ReadContains
  <2>3. UNCHANGED appenders \/ Spawn(reader.line)
    BY <1>4 DEF ReadContains
  <2>4. CASE UNCHANGED appenders
    BY <2>1, <2>2, <2>4, ThreadsStay
  <2>5. CASE Spawn(reader.line)
    <3>1. redraw' = redraw \/ (flows # <<>> /\ SendRedraw)
      BY <2>2
    <3> QED
      BY <2>1, <2>2, <2>5, <3>1, SpawnKeeps, Zenon
  <2> QED
    BY <2>3, <2>4, <2>5
<1>5. CASE ReadAppend
  <2>1. reader.line \in Lines /\ flows' # <<>>
    BY <1>5 DEF ReadAppend, SourceOK
  <2>2. CASE Len(flows') = 1
    BY <1>5, <2>1, <2>2, ThreadsStay DEF ReadAppend
  <2>3. CASE Len(flows') # 1
    <3>1. reader'.at \notin {"details", "redraw"} /\ Spawn(reader.line)
      BY <1>5, <2>3 DEF ReadAppend, SourceOK
    <3>2. UNCHANGED <<mutex, updater, afters, keyboard, redraw, ended, keys>>
      BY <1>5 DEF ReadAppend
    <3>3. redraw' = redraw \/ (flows # <<>> /\ SendRedraw)
      BY <3>2
    <3> QED
      BY <2>1, <3>1, <3>2, <3>3, SpawnKeeps, Zenon
  <2> QED
    BY <2>2, <2>3
<1>6. CASE FirstDetails
  <2>1. flows' = flows /\ flows # <<>>
    BY <1>6 DEF FirstDetails, manager, ThreadsOK
  <2> QED
    BY <1>6, <2>1, ThreadsStay DEF FirstDetails
<1>7. CASE FirstRedraw
  <2>1. flows' = flows /\ flows # <<>> /\ reader.line \in Lines
    BY <1>7 DEF FirstRedraw, manager, ThreadsOK, SourceOK
  <2>2. reader'.at \notin {"details", "redraw"}
    BY <1>7 DEF FirstRedraw, SourceOK
  <2> QED
    BY <1>7, <2>1, <2>2, SpawnKeeps DEF FirstRedraw, SendRedraw
<1> QED
  BY <1>1, <1>2, <1>3, <1>4, <1>5, <1>6, <1>7 DEF Reader

\* The goroutines of the lines.
LEMMA AppenderThreads ==
    ASSUME SourceOK, ManagerOK, ThreadsOK, FlowsStay, Appender
    PROVE  ThreadsOK'
<1>1. PICK a \in appenders : AppenderGets(a) \/ AppenderAppends(a) \/ AppenderNotifies(a)
  BY DEF Appender
<1>2. /\ a \in [line : Lines, at : {"get", "append", "notify"}, flow : {0} \cup DOMAIN flows]
      /\ a.line \in Lines /\ a.line.n \in Nat /\ (a.at # "get" => a.flow \in DOMAIN flows)
  BY AppenderFacts, LineFacts, SimulatorAssumption
<1>3. CASE AppenderGets(a)
  <2>1. flows' = flows /\ UNCHANGED <<mutex, reader, updater, afters, keyboard, redraw, ended, keys>>
    BY <1>3 DEF AppenderGets, manager
  <2>2. PICK i \in Holding(flows, a.line.key) : Becomes(a, [a EXCEPT !.at = "append", !.flow = i])
    BY <1>3 DEF AppenderGets
  <2>3. i \in DOMAIN flows /\ i # 0
    BY FlowsFacts DEF Holding
  <2>4. /\ [a EXCEPT !.at = "append", !.flow = i].flow = i
        /\ [a EXCEPT !.at = "append", !.flow = i]
                \in [line : Lines, at : {"get", "append", "notify"}, flow : {0} \cup DOMAIN flows]
    BY <1>2, <2>3
  <2> QED
    BY <2>1, <2>2, <2>3, <2>4 DEF ThreadsOK, Becomes
<1>4. CASE AppenderAppends(a)
  <2>1. DOMAIN flows' = DOMAIN flows /\ a.at = "append"
        /\ UNCHANGED <<mutex, reader, updater, afters, keyboard, redraw, ended, keys>>
    BY <1>2, <1>4, AppendSampleFacts DEF AppenderAppends
  <2>2. Becomes(a, [a EXCEPT !.at = "notify"])
    BY <1>4 DEF AppenderAppends
  <2>3. /\ [a EXCEPT !.at = "notify"].flow = a.flow
        /\ [a EXCEPT !.at = "notify"]
                \in [line : Lines, at : {"get", "append", "notify"}, flow : {0} \cup DOMAIN flows]
        /\ a.flow # 0
    BY <1>2, <2>1, FlowsFacts
  <2> QED
    BY <2>1, <2>2, <2>3 DEF ThreadsOK, Becomes, FlowsStay
<1>5. CASE AppenderNotifies(a)
  <2>1. flows' = flows /\ UNCHANGED <<mutex, reader, afters, keyboard, redraw, ended, keys>>
        /\ appenders' = appenders \ {a} /\ a.at = "notify"
        /\ updater' = [updater EXCEPT !.at = "lock", !.flow = a.flow, !.n = a.line.n]
    BY <1>5 DEF AppenderNotifies, manager
  <2>2. /\ updater' \in [at : {"select", "lock", "send", "unlock"}, flow : {0} \cup DOMAIN flows,
                         n : Nat, graph : 1..Graphs]
        /\ updater'.flow # 0
    BY <1>2, <2>1, FlowsFacts DEF ThreadsOK
  <2> QED
    BY <2>1, <2>2 DEF ThreadsOK
<1> QED
  BY <1>1, <1>3, <1>4, <1>5

\* The updater, with the mutex it takes, keeps or gives back.
LEMMA UpdaterThreads ==
    ASSUME SourceOK, ManagerOK, ThreadsOK, FlowsStay, Updater
    PROVE  ThreadsOK'
<1>1. UNCHANGED <<reader, appenders, keyboard, redraw, ended, keys>> /\ flows' = flows
  BY DEF Updater, UpdaterLocks, UpdaterFails, UpdaterSends, UpdaterUnlocks, UpdaterOnly, manager
<1>2. 1 \in 1..Graphs
  BY DrshowAssumption
<1>3. CASE UpdaterLocks \/ UpdaterFails
  <2>1. /\ updater' \in [at : {"select", "lock", "send", "unlock"}, flow : {0} \cup DOMAIN flows,
                         n : Nat, graph : 1..Graphs]
        /\ updater'.flow = updater.flow /\ updater.flow # 0
        /\ afters' = afters
        /\ mutex' \in {"updater", "nobody any more"}
    BY <1>2, <1>3 DEF UpdaterLocks, UpdaterFails, Lock, ThreadsOK
  <2> QED
    BY <1>1, <2>1 DEF ThreadsOK
<1>4. CASE UpdaterSends
  <2>1. /\ updater' \in [at : {"select", "lock", "send", "unlock"}, flow : {0} \cup DOMAIN flows,
                         n : Nat, graph : 1..Graphs]
        /\ updater'.flow = updater.flow /\ updater.flow # 0
        /\ afters' = afters /\ mutex' = mutex
    <3>1. updater.flow # 0 /\ afters' = afters /\ mutex' = mutex
      BY <1>4 DEF UpdaterSends, ThreadsOK
    <3>2. updater \in [at : {"select", "lock", "send", "unlock"}, flow : {0} \cup DOMAIN flows,
                       n : Nat, graph : 1..Graphs]
      BY DEF ThreadsOK
    <3>3. CASE updater.graph < Graphs
      <4>1. updater' = [updater EXCEPT !.graph = @ + 1]
        BY <1>4, <3>3, Zenon DEF UpdaterSends
      <4>2. updater.graph + 1 \in 1..Graphs
        BY <3>2, <3>3, DrshowAssumption
      <4> QED
        BY <3>1, <3>2, <4>1, <4>2
    <3>4. CASE ~(updater.graph < Graphs)
      <4>1. updater' = [updater EXCEPT !.at = "unlock"]
        BY <1>4, <3>4, Zenon DEF UpdaterSends
      <4> QED
        BY <3>1, <3>2, <4>1
    <3> QED
      BY <3>3, <3>4
  <2> QED
    BY <1>1, <2>1 DEF ThreadsOK
<1>5. CASE UpdaterUnlocks
  <2> DEFINE new == [n |-> updater.n, flow |-> updater.flow, at |-> "selected", selected |-> 0]
             Sorts == [n : Nat, flow : DOMAIN flows, at : {"selected", "send"},
                       selected : {0} \cup DOMAIN flows]
  <2>1. /\ updater' \in [at : {"select", "lock", "send", "unlock"}, flow : {0} \cup DOMAIN flows,
                         n : Nat, graph : 1..Graphs]
        /\ updater'.flow = updater.flow /\ updater.flow # 0
        /\ mutex' = Free
    BY <1>5 DEF UpdaterUnlocks, Unlock, ThreadsOK
  <2>2. new \in Sorts /\ new.at = "selected"
    BY <2>1 DEF ThreadsOK
  <2>3. afters' = afters \/ afters' = afters \cup {new}
    BY <1>5 DEF UpdaterUnlocks
  <2>4. \A a \in afters : a \in Sorts /\ (a.at = "send" => a.selected # 0)
    BY DEF ThreadsOK
  <2> HIDE DEF new
  <2>5. afters' \subseteq Sorts /\ \A a \in afters' : a.at = "send" => a.selected # 0
    BY <2>2, <2>3, <2>4
  <2> QED
    BY <1>1, <2>1, <2>5 DEF ThreadsOK
<1> QED
  BY <1>3, <1>4, <1>5 DEF Updater

\* The goroutines after an update.
LEMMA AfterThreads ==
    ASSUME SourceOK, ManagerOK, ThreadsOK, FlowsStay, After
    PROVE  ThreadsOK'
<1> DEFINE Sorts == [n : Nat, flow : DOMAIN flows, at : {"selected", "send"},
                     selected : {0} \cup DOMAIN flows]
<1>1. UNCHANGED <<mutex, reader, appenders, updater, keyboard, redraw, ended, keys>>
      /\ flows' = flows
  BY DEF After, manager
<1>2. PICK a \in afters : AfterReads(a) \/ AfterSends(a)
  BY DEF After
<1>3. \A b \in afters : b \in Sorts /\ (b.at = "send" => b.selected # 0)
  BY DEF ThreadsOK
<1>4. selected \in DOMAIN flows /\ selected # 0
  BY <1>2, FlowsFacts DEF ThreadsOK
<1> DEFINE b == [a EXCEPT !.at = "send", !.selected = selected]
<1>5. b \in Sorts /\ b.selected # 0
  <2>1. a \in Sorts
    BY <1>2, <1>3
  <2> QED
    BY <1>4, <2>1
<1>6. afters' \subseteq afters \cup {b}
  BY <1>2 DEF AfterReads, AfterSends
<1> HIDE DEF b
<1>7. afters' \subseteq Sorts /\ \A c \in afters' : c.at = "send" => c.selected # 0
  BY <1>3, <1>5, <1>6
<1> QED
  BY <1>1, <1>7 DEF ThreadsOK

\* The keys, the end of Run and the redraw.
LEMMA KeyboardThreads ==
    ASSUME SourceOK, ManagerOK, ThreadsOK, FlowsStay, Keyboard \/ RunReturns \/ Redraw
    PROVE  ThreadsOK'
<1>1. CASE ArrowDown \/ ArrowUp
  <2>1. Neighbour(Eligible, selected, selected') => flows # <<>>
    BY NeighbourIsFlow, FlowsFacts, <1>1, ArrowSelects DEF Neighbour, Eligible, EligibleFlows
  <2>2. /\ UNCHANGED <<flows, reader, appenders, updater, afters, redraw>>
        /\ mutex' \in {mutex, "keyboard"}
        /\ keyboard' = keyboard \/ (keyboard' = "details" /\ flows # <<>>)
        /\ ended' \in {ended, "panic"}
        /\ keys' = keys + 1 /\ keys < MaxKeys
    <3>1. /\ UNCHANGED <<flows, reader, appenders, updater, afters, redraw>>
          /\ keys' = keys + 1 /\ keys < MaxKeys
      BY <1>1, ArrowSelects
    <3>2. \/ UNCHANGED <<keyboard, mutex, ended>>
          \/ UNCHANGED <<keyboard, mutex>> /\ ended' = "panic"
          \/ flows # <<>> /\ mutex' = "keyboard" /\ keyboard' = "details" /\ UNCHANGED ended
      BY <1>1, <2>1, ArrowSelects
    <3>3. mutex' \in {mutex, "keyboard"} /\ ended' \in {ended, "panic"}
      BY <3>2
    <3>4. keyboard' = keyboard \/ (keyboard' = "details" /\ flows # <<>>)
      BY <3>2
    <3> QED
      BY <3>1, <3>3, <3>4, Zenon
  <2>3. keys' \in 0..MaxKeys
    <3>1. MaxKeys \in Nat /\ keys \in 0..MaxKeys
      BY DrshowAssumption DEF ThreadsOK
    <3> QED
      BY <2>2, <3>1
  <2>4. /\ mutex' \in {Free, "updater", "keyboard", "nobody any more"}
        /\ keyboard' \in {"wait", "details", "redraw", "cancelled", "gone"}
        /\ keyboard' \in {"details", "redraw"} => flows # <<>>
        /\ ended' \in {"no", "no input", "goodbye", "panic"}
    BY <2>2 DEF ThreadsOK
  <2>5. UNCHANGED <<flows, reader, appenders, updater, afters, redraw>>
    BY <2>2
  <2> QED
    BY <2>3, <2>4, <2>5 DEF ThreadsOK
<1>2. CASE KeyDetails
  BY <1>2 DEF KeyDetails, KeyboardOnly, Unlock, ThreadsOK
<1>3. CASE KeyRedraw
  BY <1>3 DEF KeyRedraw, KeyboardOnly, SendRedraw, ThreadsOK
<1>4. CASE Space \/ ExitKey
  <2>1. /\ UNCHANGED <<flows, mutex, reader, appenders, updater, afters, redraw, ended>>
        /\ keyboard' \in {"wait", "cancelled", "redraw"}
        /\ keyboard' = "redraw" => selected \in DOMAIN flows
        /\ keys' = keys + 1 /\ keys < MaxKeys
    BY <1>4 DEF Space, ExitKey, Press, KeyboardOnly
  <2>2. keys' \in 0..MaxKeys
    <3>1. MaxKeys \in Nat /\ keys \in 0..MaxKeys
      BY DrshowAssumption DEF ThreadsOK
    <3> QED
      BY <2>1, <3>1
  <2>3. keyboard' = "redraw" => flows # <<>>
    BY <2>1, FlowsFacts
  <2> QED
    BY <2>1, <2>2, <2>3 DEF ThreadsOK
<1>5. CASE ExitMessage
  BY <1>5 DEF ExitMessage, KeyboardOnly, ThreadsOK
<1>6. CASE RunReturns
  BY <1>6 DEF RunReturns, threads, manager, ThreadsOK
<1>7. CASE Redraw
  <2>1. UNCHANGED <<flows, mutex, reader, appenders, updater, afters, keyboard, ended, keys>>
    BY <1>7 DEF Redraw, manager
  <2>2. CASE RedrawReads
    <3>1. selected \in DOMAIN flows /\ selected # 0
      BY <2>2, FlowsFacts DEF RedrawReads, ThreadsOK
    <3> QED
      BY <2>1, <2>2, <3>1 DEF RedrawReads, ThreadsOK
  <2>3. CASE RedrawSends
    BY <2>1, <2>3 DEF RedrawSends, ThreadsOK
  <2> QED
    BY <1>7, <2>2, <2>3 DEF Redraw
<1> QED
  BY <1>1, <1>2, <1>3, <1>4, <1>5, <1>6, <1>7 DEF Keyboard

\* Every step leaves the goroutines at places with flows that exist.
LEMMA ThreadsStep ==
    ASSUME SourceOK, ManagerOK, ThreadsOK, [Next]_vars
    PROVE  ThreadsOK'
<1>1. FlowsStay
  BY ManagerStep DEF FlowsStay
<1>2. CASE Source \/ SourceKilled \/ TimePasses \/ UNCHANGED vars
  <2>1. UNCHANGED <<flows, mutex, reader, appenders, updater, afters, keyboard, redraw, ended,
                    keys>>
    BY <1>2 DEF Source, SourceKilled, TimePasses, vars, threads, manager
  <2> QED
    BY <1>1, <2>1, ThreadsStay DEF ThreadsOK
<1> QED
  BY <1>1, <1>2, ReaderThreads, AppenderThreads, UpdaterThreads, AfterThreads, KeyboardThreads
     DEF Next

-----------------------------------------------------------------------------
(* What is displayed.                                                      *)

\* The charts as a sequence, one entry per flow.
LEMMA ScreenFacts ==
    ASSUME ManagerOK, ScreenOK
    PROVE  /\ shown \in Seq([1..Graphs -> Nat])
           /\ Len(shown) = Len(flows)
           /\ DOMAIN shown = DOMAIN flows
           /\ \A i \in DOMAIN flows : shown[i] \in [1..Graphs -> Nat]
<1>1. shown \in Seq([1..Graphs -> Nat]) /\ Len(shown) = Len(flows)
  BY DEF ScreenOK
<1>2. DOMAIN shown = 1..Len(shown) /\ \A i \in 1..Len(shown) : shown[i] \in [1..Graphs -> Nat]
  BY <1>1, LenProperties, ElementOfSeq
<1> QED
  BY <1>1, <1>2, FlowsFacts

\* Details that are shown are those of a flow.
LEMMA DetailsKeep ==
    ASSUME ScreenOK, UNCHANGED flows, NEW flow \in DOMAIN flows, NEW past \in BOOLEAN,
           ShowDetails(flow, past)
    PROVE  ScreenOK'
BY DEF ScreenOK, ShowDetails

\* No chart displays more than its flow has, and no box a flow that does not exist.
LEMMA ScreenStep ==
    ASSUME SourceOK, ManagerOK, ThreadsOK, ScreenOK, [Next]_vars
    PROVE  ScreenOK'
<1>0. selected \in DOMAIN flows \/ flows = <<>>
  BY FlowsFacts
<1>1. CASE UNCHANGED <<flows, screen>>
  BY <1>1 DEF ScreenOK, screen
<1>2. CASE ReadAppend
  <2> DEFINE new == [g \in 1..Graphs |-> 0]
  <2>1. /\ DOMAIN flows' = DOMAIN flows \cup {Len(flows) + 1} /\ Len(flows') = Len(flows) + 1
        /\ \A i \in DOMAIN flows : flows'[i] = flows[i]
        /\ flows'[Len(flows) + 1].samples = <<>>
    BY <1>2, NewFlowFacts
  <2>2. shown' = Append(shown, new) /\ new \in [1..Graphs -> Nat]
        /\ UNCHANGED <<widgets, details, stale>>
    BY <1>2 DEF ReadAppend
  <2>3. shown' \in Seq([1..Graphs -> Nat]) /\ Len(shown') = Len(shown) + 1
        /\ shown'[Len(shown) + 1] = new
        /\ \A i \in 1..Len(shown) : shown'[i] = shown[i]
    <3> HIDE DEF new
    <3> QED
      BY <2>2, ScreenFacts, AppendProperties
  <2>4. ASSUME NEW i \in DOMAIN flows', NEW g \in 1..Graphs
        PROVE  shown'[i][g] <= Len(flows'[i].samples)
    <3>1. CASE i \in DOMAIN flows
      <4>1. shown'[i] = shown[i] /\ flows'[i] = flows[i]
        BY <2>1, <2>3, <3>1, ScreenFacts, FlowsFacts
      <4> QED
        BY <3>1, <4>1 DEF ScreenOK
    <3>2. CASE i = Len(flows) + 1
      <4>1. shown'[i][g] = 0
        BY <2>3, <3>2, ScreenFacts
      <4>2. Len(flows'[i].samples) = 0
        BY <2>1, <3>2
      <4> QED
        BY <4>1, <4>2
    <3> QED
      BY <2>1, <3>1, <3>2
  <2> QED
    BY <2>1, <2>2, <2>3, <2>4, ScreenFacts DEF ScreenOK
<1>3. CASE Running /\ \E a \in appenders : AppenderAppends(a)
  <2>1. PICK a \in appenders : AppenderAppends(a)
    BY <1>3
  <2>2. a.flow \in DOMAIN flows /\ a.line \in Lines
    BY <2>1, AppenderFacts DEF AppenderAppends
  <2>3. /\ DOMAIN flows' = DOMAIN flows /\ Len(flows') = Len(flows)
        /\ \A i \in DOMAIN flows : i # a.flow => flows'[i] = flows[i]
        /\ flows'[a.flow].samples = Append(flows[a.flow].samples, a.line.n)
    BY <2>1, <2>2, AppendSampleFacts
  <2>4. \A i \in DOMAIN flows : Len(flows[i].samples) <= Len(flows'[i].samples)
    <3>1. flows[a.flow].samples \in Seq(Nat) /\ a.line.n \in Nat
      BY <2>2, FlowsFacts, LineFacts, SimulatorAssumption
    <3>2. Len(flows'[a.flow].samples) = Len(flows[a.flow].samples) + 1
      BY <2>3, <3>1, AppendProperties
    <3>3. TAKE i \in DOMAIN flows
    <3>4. Len(flows[i].samples) \in Nat
      BY FlowsFacts
    <3>5. CASE i = a.flow
      BY <3>2, <3>4, <3>5
    <3>6. CASE i # a.flow
      BY <2>3, <3>4, <3>6
    <3> QED
      BY <3>5, <3>6
  <2>5. UNCHANGED <<widgets, shown, details, stale>>
    BY <2>1 DEF AppenderAppends, screen
  <2>6. \A i \in DOMAIN flows, g \in 1..Graphs : shown'[i][g] <= Len(flows'[i].samples)
    <3> TAKE i \in DOMAIN flows, g \in 1..Graphs
    <3>1. shown[i][g] \in Nat /\ Len(flows[i].samples) \in Nat /\ Len(flows'[i].samples) \in Nat
      <4>1. flows' \in Seq(FlowRecord)
        BY <2>1, <2>2, AppendSampleFacts
      <4>2. flows'[i] \in FlowRecord
        BY <2>3, <4>1, LenProperties, ElementOfSeq
      <4>3. Len(flows'[i].samples) \in Nat
        BY <4>2, LenProperties DEF FlowRecord
      <4> QED
        BY <4>3, ScreenFacts, FlowsFacts
    <3> QED
      BY <2>4, <2>5, <3>1 DEF ScreenOK
  <2> QED
    BY <2>3, <2>5, <2>6 DEF ScreenOK
<1>4. CASE FirstDetails
  <2>1. ShowDetails(selected, FALSE) /\ UNCHANGED flows /\ flows # <<>>
    BY <1>4 DEF FirstDetails, manager, ThreadsOK
  <2> QED
    BY <1>0, <2>1, DetailsKeep
<1>5. CASE UpdaterLocks
  <2>1. widgets' = widgets \cup {updater.flow} /\ UNCHANGED <<flows, shown, details, stale>>
        /\ updater.flow \in DOMAIN flows
    BY <1>5 DEF UpdaterLocks, UpdaterOnly, manager, ThreadsOK
  <2> QED
    BY <2>1 DEF ScreenOK
<1>6. CASE UpdaterSends
  <2>1. UNCHANGED <<flows, widgets, details, stale>> /\ updater.graph \in 1..Graphs
    BY <1>6 DEF UpdaterSends, UpdaterOnly, manager, ThreadsOK
  <2>2. PICK r \in widgets :
            shown' = IF r = updater.flow
                     THEN [shown EXCEPT ![r][updater.graph] = Len(flows[r].samples)] ELSE shown
    BY <1>6 DEF UpdaterSends
  <2>3. r \in DOMAIN flows /\ Len(flows[r].samples) \in Nat /\ shown[r] \in [1..Graphs -> Nat]
    BY FlowsFacts, ScreenFacts DEF ScreenOK
  <2> DEFINE new == [shown[r] EXCEPT ![updater.graph] = Len(flows[r].samples)]
  <2>4. new \in [1..Graphs -> Nat]
    BY <2>1, <2>3
  <2>5. \A g \in 1..Graphs : new[g] <= Len(flows[r].samples)
    BY <2>1, <2>3 DEF ScreenOK
  <2>6. shown' = shown \/ shown' = [shown EXCEPT ![r] = new]
    BY <2>2
  <2> HIDE DEF new
  <2>7. /\ [shown EXCEPT ![r] = new] \in Seq([1..Graphs -> Nat])
        /\ Len([shown EXCEPT ![r] = new]) = Len(shown)
        /\ \A i \in DOMAIN flows : [shown EXCEPT ![r] = new][i] = IF i = r THEN new ELSE shown[i]
    BY <2>3, <2>4, ScreenFacts, FlowsFacts, ExceptSeq
  <2>8. CASE shown' = [shown EXCEPT ![r] = new]
    <3>1. shown' \in Seq([1..Graphs -> Nat]) /\ Len(shown') = Len(shown)
          /\ \A i \in DOMAIN flows : shown'[i] = IF i = r THEN new ELSE shown[i]
      BY <2>7, <2>8
    <3>2. \A i \in DOMAIN flows, g \in 1..Graphs : shown'[i][g] <= Len(flows[i].samples)
      BY <2>5, <3>1 DEF ScreenOK
    <3> QED
      BY <2>1, <3>1, <3>2 DEF ScreenOK
  <2>9. CASE shown' = shown
    BY <2>1, <2>9 DEF ScreenOK
  <2> QED
    BY <2>6, <2>8, <2>9
<1>7. CASE After
  <2>1. UNCHANGED flows
    BY <1>7 DEF After, manager
  <2>2. PICK a \in afters : AfterReads(a) \/ AfterSends(a)
    BY <1>7 DEF After
  <2>3. CASE AfterReads(a)
    BY <1>1, <2>1, <2>3 DEF AfterReads
  <2>4. CASE AfterSends(a)
    <3>1. a.selected \in DOMAIN flows /\ ShowDetails(a.selected, a.selected # selected)
      BY <2>2, <2>4 DEF AfterSends, ThreadsOK
    <3> QED
      BY <2>1, <3>1, DetailsKeep
  <2> QED
    BY <2>2, <2>3, <2>4
<1>8. CASE KeyDetails
  <2>1. ShowDetails(selected, FALSE) /\ UNCHANGED flows /\ flows # <<>>
    BY <1>8 DEF KeyDetails, KeyboardOnly, ThreadsOK
  <2> QED
    BY <1>0, <2>1, DetailsKeep
<1>9. CASE Redraw
  <2>1. UNCHANGED flows
    BY <1>9 DEF Redraw, manager
  <2>2. CASE RedrawReads
    BY <1>1, <2>1, <2>2 DEF RedrawReads
  <2>3. CASE RedrawSends
    <3>1. redraw.flow \in DOMAIN flows /\ ShowDetails(redraw.flow, FALSE)
      BY <2>3 DEF RedrawSends, ThreadsOK
    <3> QED
      BY <2>1, <3>1, DetailsKeep
  <2> QED
    BY <1>9, <2>2, <2>3 DEF Redraw
<1>10. CASE Source \/ SourceKilled \/ RunReturns \/ TimePasses \/ UNCHANGED vars
  BY <1>1, <1>10 DEF Source, SourceKilled, RunReturns, TimePasses, vars, manager
<1>11. CASE SkipToMeasures \/ NoInput \/ ReadLine \/ ReadEnd \/ ReadContains \/ FirstRedraw
  BY <1>1, <1>11 DEF SkipToMeasures, NoInput, ReadLine, Reads, ReadEnd, ReadContains,
                     FirstRedraw, manager
<1>12. CASE Running /\ \E a \in appenders : AppenderGets(a) \/ AppenderNotifies(a)
  BY <1>1, <1>12 DEF AppenderGets, AppenderNotifies, manager
<1>13. CASE UpdaterFails \/ UpdaterUnlocks
  BY <1>1, <1>13 DEF UpdaterFails, UpdaterUnlocks, UpdaterOnly, manager
<1>14. CASE ArrowDown \/ ArrowUp
  BY <1>1, <1>14, ArrowSelects
<1>15. CASE KeyRedraw \/ Space \/ ExitKey \/ ExitMessage
  BY <1>1, <1>15 DEF KeyRedraw, Space, ExitKey, ExitMessage, KeyboardOnly
<1>16. Appender => \/ Running /\ \E a \in appenders : AppenderAppends(a)
                   \/ Running /\ \E a \in appenders : AppenderGets(a) \/ AppenderNotifies(a)
  BY DEF Appender
<1> QED
  BY <1>2, <1>3, <1>4, <1>5, <1>6, <1>7, <1>8, <1>9, <1>10, <1>11, <1>12, <1>13, <1>14, <1>15,
     <1>16 DEF Next, Reader, Updater, Keyboard

-----------------------------------------------------------------------------
(***************************************************************************)
(* The types, for every value of the constants.                            *)
(***************************************************************************)
Shapes == SourceOK /\ Piped /\ ManagerOK /\ ThreadsOK /\ ScreenOK

\* What is known of the state drshow starts in.
LEMMA StartFacts ==
    ASSUME DrshowInit
    PROVE  \E start \in Starts :
               /\ StartAt(start)
               /\ flows \in Seq(FlowRecord)
               /\ \A i \in DOMAIN flows : flows[i].loads <= Len(flows[i].samples)
               /\ \A i, j \in DOMAIN flows : flows[i].key = flows[j].key => i = j
               /\ selected \in IF flows = <<>> THEN {1} ELSE DOMAIN flows
               /\ old \subseteq DOMAIN flows
               /\ start.printed = index + 1
               /\ start.printed \in IF flows = <<>> THEN {0} ELSE 0..MaxLines
               /\ \A n \in 1..MaxLines :
                    IF n <= start.printed
                    THEN \E s \in SamplesOf(n) :
                            SamplesOf(n) = {s} /\ flows[s[1]].key = generator(n - 1).key
                    ELSE SamplesOf(n) = {}
<1>1. PICK start \in Starts : StartAt(start)
  BY DEF DrshowInit
<1>2. /\ flows = start.flows /\ selected = start.selected /\ old = start.old
      /\ index = start.printed - 1
  BY <1>1 DEF StartAt
<1>3. start.printed \in IF flows = <<>> THEN {0} ELSE 0..MaxLines
  BY <1>2, StartsAssumption
<1>4. start.printed = index + 1
  BY <1>2, <1>3, SimulatorAssumption
<1>5. /\ flows \in Seq(FlowRecord)
      /\ \A i \in DOMAIN flows : flows[i].loads <= Len(flows[i].samples)
      /\ \A i, j \in DOMAIN flows : flows[i].key = flows[j].key => i = j
  BY <1>2, StartsAssumption DEF FlowRecord
<1>6. /\ selected \in IF flows = <<>> THEN {1} ELSE DOMAIN flows
      /\ old \subseteq DOMAIN flows
  BY <1>2, StartsAssumption
<1>7. \A n \in 1..MaxLines :
        IF n <= start.printed
        THEN \E s \in SamplesOf(n) :
                SamplesOf(n) = {s} /\ flows[s[1]].key = generator(n - 1).key
        ELSE SamplesOf(n) = {}
  BY <1>2, StartsAssumption, Zenon DEF SamplesOf
<1> QED
  BY <1>1, <1>3, <1>4, <1>5, <1>6, <1>7

\* The shapes hold at the start.
LEMMA ShapesStart == DrshowInit => Shapes
<1> SUFFICES ASSUME DrshowInit PROVE Shapes
  OBVIOUS
<1>1. PICK start \in Starts :
        /\ StartAt(start)
        /\ flows \in Seq(FlowRecord)
        /\ \A i \in DOMAIN flows : flows[i].loads <= Len(flows[i].samples)
        /\ selected \in IF flows = <<>> THEN {1} ELSE DOMAIN flows
        /\ old \subseteq DOMAIN flows
        /\ start.printed = index + 1
        /\ start.printed \in IF flows = <<>> THEN {0} ELSE 0..MaxLines
  BY StartFacts
<1>2. ManagerOK
  BY <1>1 DEF ManagerOK, FlowRecord
<1>3. /\ reader = [at |-> IF flows = <<>> THEN "header" ELSE "read", line |-> HEADLINE]
      /\ simulator = IF reader.at = "header" THEN "headline" ELSE "lines"
      /\ stdout = <<>> /\ pipe = <<>> /\ ended = "no"
      /\ index = start.printed - 1
  BY <1>1 DEF StartAt, DrshowInit
<1>4. index \in -1..MaxLines /\ index < MaxLines /\ index + 1 \in Nat
      /\ (flows = <<>> => index = -1)
  <2>1. MaxLines \in Nat /\ start.printed \in 0..MaxLines
    BY <1>1, SimulatorAssumption
  <2>2. flows = <<>> => start.printed = 0
    BY <1>1
  <2> QED
    BY <1>3, <2>1, <2>2
<1>5. Len(pipe) = 0 /\ DOMAIN pipe = {}
  BY <1>3
<1>6. SourceOK
  BY <1>3, <1>4, <1>5, SimulatorAssumption DEF SourceOK
<1>7. Piped
  <2>1. Taken = index + 1
    BY <1>3, <1>4, <1>5 DEF Taken, HeadAt
  <2> QED
    BY <1>3, <1>4, <1>5, <2>1 DEF Piped
<1>8. ThreadsOK
  <2>1. /\ mutex = Free /\ appenders = {}
        /\ updater = [at |-> "select", flow |-> 0, n |-> 0, graph |-> 1]
        /\ afters = {} /\ keyboard = "wait" /\ redraw = [at |-> "receive", flow |-> 0]
        /\ ended = "no" /\ keys = 0
    BY DEF DrshowInit
  <2>2. 1 \in 1..Graphs /\ 0 \in 0..MaxKeys
    <3>1. Graphs \in Nat \ {0} /\ MaxKeys \in Nat
      BY DrshowAssumption
    <3> QED
      BY <3>1
  <2>3. reader.at \notin {"details", "redraw"}
    BY <1>3
  <2> QED
    BY <2>1, <2>2, <2>3 DEF ThreadsOK
<1>9. ScreenOK
  <2>1. /\ widgets = DOMAIN flows /\ stale = FALSE
        /\ shown = [i \in DOMAIN flows |-> [g \in 1..Graphs |-> Len(flows[i].samples)]]
        /\ details = IF flows = <<>> THEN 0 ELSE selected
    BY <1>1 DEF StartAt, DrshowInit
  <2>2. details \in {0} \cup DOMAIN flows
    BY <1>2, <2>1, FlowsFacts
  <2>3. \A i \in DOMAIN flows : Len(flows[i].samples) \in Nat
    BY <1>2, FlowsFacts
  <2>4. shown \in [1..Len(flows) -> [1..Graphs -> Nat]] /\ Len(flows) \in Nat
    BY <1>2, <2>1, <2>3, FlowsFacts
  <2>5. shown \in Seq([1..Graphs -> Nat])
    BY <2>4, SeqDef
  <2>6. Len(shown) = Len(flows)
    BY <2>4, <2>5, LenProperties
  <2>7. \A i \in DOMAIN flows, g \in 1..Graphs : shown[i][g] <= Len(flows[i].samples)
    BY <2>1, <2>3
  <2> QED
    BY <2>1, <2>2, <2>5, <2>6, <2>7 DEF ScreenOK
<1> QED
  BY <1>2, <1>6, <1>7, <1>8, <1>9 DEF Shapes

\* Every step keeps the shapes.
LEMMA ShapesNext == Shapes /\ [Next]_vars => Shapes'
BY SourceStep, ManagerStep, ThreadsStep, ScreenStep DEF Shapes

\* The shapes hold for ever.
THEOREM ShapesCorrect == Spec => []Shapes
BY ShapesStart, ShapesNext, PTL DEF Spec

\* The types are part of the shapes.
LEMMA ShapesTypes == Shapes => TypeOK
<1> SUFFICES ASSUME Shapes PROVE TypeOK
  OBVIOUS
<1> USE DEF Shapes
<1>1. /\ simulator \in {"headline", "lines", "exited"}
      /\ index \in -1..MaxLines
      /\ Len(pipe) <= PipeSize
      /\ reader.at \in {"header", "read", "contains", "append", "details", "redraw", "end"}
  BY DEF SourceOK
<1>2. ASSUME NEW i \in DOMAIN flows
      PROVE  flows[i].loads \in 0..Min2(Len(flows[i].samples), 2)
  <2>1. flows[i].loads \in 0..2 /\ flows[i].loads <= Len(flows[i].samples)
        /\ Len(flows[i].samples) \in Nat
    BY FlowsFacts DEF ManagerOK, FlowRecord
  <2> QED
    BY <2>1 DEF Min2
<1>3. selected \in 1..(Len(flows) + 1) /\ old \subseteq DOMAIN flows
  <2>1. Len(flows) \in Nat /\ DOMAIN flows = 1..Len(flows)
    BY FlowsFacts
  <2>2. selected = 1 \/ selected \in DOMAIN flows
    BY DEF ManagerOK
  <2> QED
    BY <2>1, <2>2 DEF ManagerOK
<1>4. \A a \in appenders : a.at \in {"get", "append", "notify"} /\ a.flow \in 0..Len(flows)
  <2>1. Len(flows) \in Nat /\ DOMAIN flows = 1..Len(flows)
    BY FlowsFacts
  <2>2. \A a \in appenders : /\ a.at \in {"get", "append", "notify"}
                             /\ a.flow \in {0} \cup DOMAIN flows
    BY DEF ThreadsOK
  <2> QED
    BY <2>1, <2>2
<1>5. /\ mutex \in {Free, "updater", "keyboard", "nobody any more"}
      /\ updater.at \in {"select", "lock", "send", "unlock"} /\ updater.graph \in 1..Graphs
      /\ \A a \in afters : a.at \in {"selected", "send"}
      /\ keyboard \in {"wait", "details", "redraw", "cancelled", "gone"}
      /\ redraw.at \in {"receive", "selected", "send"}
      /\ ended \in {"no", "no input", "goodbye", "panic"}
      /\ keys \in 0..MaxKeys
  BY DEF ThreadsOK
<1>6. ASSUME NEW i \in DOMAIN flows, NEW g \in 1..Graphs
      PROVE  shown[i][g] \in 0..Len(flows[i].samples)
  <2>1. shown[i][g] \in Nat /\ Len(flows[i].samples) \in Nat
    BY ScreenFacts, FlowsFacts
  <2> QED
    BY <2>1 DEF ScreenOK
<1>7. widgets \subseteq DOMAIN flows /\ details \in {0} \cup DOMAIN flows /\ stale \in BOOLEAN
  BY DEF ScreenOK
<1> QED
  BY <1>1, <1>2, <1>3, <1>4, <1>5, <1>6, <1>7 DEF TypeOK

(***************************************************************************)
(* The types are right: no goroutine, chart or box ever refers to a flow   *)
(* that does not exist, and the keys never select one.                     *)
(***************************************************************************)
THEOREM TypeCorrect == Spec => []TypeOK
BY ShapesCorrect, ShapesTypes, PTL

-----------------------------------------------------------------------------
(* The arrow keys.                                                         *)

\* After the end only the simulator goes on.
LEMMA EndIsFinal ==
    ASSUME ended # "no", [Next]_vars
    PROVE  UNCHANGED <<manager, mutex, threads, screen, ended, keys>>
<1>1. CASE Source \/ SourceKilled
  BY <1>1 DEF Source, SourceKilled
<1>2. ~Reader
  BY DEF Reader, SkipToMeasures, NoInput, ReadLine, Reads, ReadEnd, ReadContains, ReadAppend,
         FirstDetails, FirstRedraw, Running
<1>3. ~(Appender \/ Updater \/ After \/ Keyboard \/ RunReturns \/ Redraw \/ TimePasses)
  BY DEF Appender, Updater, After, Keyboard, RunReturns, Redraw, TimePasses, Running
<1>4. CASE UNCHANGED vars
  BY <1>4 DEF vars
<1> QED
  BY <1>1, <1>2, <1>3, <1>4 DEF Next

\* The program ends in a panic only in the step of an arrow key.
LEMMA PanicStep ==
    ASSUME Shapes, PanicsOffSelection, [Next]_vars
    PROVE  PanicsOffSelection'
<1>1. CASE ended # "no"
  <2>1. UNCHANGED <<flows, selected, old, keyboard, ended>>
    BY <1>1, EndIsFinal DEF manager, threads
  <2> QED
    BY <2>1 DEF PanicsOffSelection, Eligible
<1>2. CASE ended = "no"
  <2>1. CASE ArrowDown \/ ArrowUp
    <3>1. ManagerOK
      BY DEF Shapes
    <3>2. UNCHANGED <<flows, old>>
      BY <2>1, <3>1, ArrowSelects
    <3>3. ended' = "panic" => selected \notin Eligible /\ selected' = selected
      BY <1>2, <2>1, <3>1, ArrowSelects
    <3> QED
      BY <3>2, <3>3 DEF PanicsOffSelection, Eligible
  <2>2. CASE RunReturns
    BY <2>2 DEF RunReturns, threads, PanicsOffSelection
  <2>3. CASE NoInput
    BY <2>3 DEF NoInput, PanicsOffSelection
  <2>4. CASE ended' = ended
    BY <1>2, <2>4 DEF PanicsOffSelection
  <2>5. Source \/ SourceKilled \/ Appender \/ Updater \/ After \/ Redraw \/ TimePasses
          \/ UNCHANGED vars => ended' = ended
    BY DEF Source, SourceKilled, Appender, AppenderGets, AppenderAppends, AppenderNotifies,
           Updater, UpdaterLocks, UpdaterFails, UpdaterSends, UpdaterUnlocks, UpdaterOnly,
           After, Redraw, TimePasses, vars
  <2>6. Reader => NoInput \/ ended' = ended
    BY DEF Reader, SkipToMeasures, ReadLine, Reads, ReadEnd, ReadContains, ReadAppend,
           FirstDetails, FirstRedraw
  <2>7. Keyboard => ArrowDown \/ ArrowUp \/ ended' = ended
    BY DEF Keyboard, KeyDetails, KeyRedraw, Space, ExitKey, ExitMessage
  <2> QED
    BY <2>1, <2>2, <2>3, <2>4, <2>5, <2>6, <2>7 DEF Next
<1> QED
  BY <1>1, <1>2

(***************************************************************************)
(* An arrow key indexes absoluteIndexes out of range only while the        *)
(* selected flow itself is not eligible.                                   *)
(***************************************************************************)
THEOREM PanicsCorrect == Spec => []PanicsOffSelection
<1>1. DrshowInit => PanicsOffSelection
  BY DEF DrshowInit, PanicsOffSelection
<1>2. Shapes /\ PanicsOffSelection /\ [Next]_vars => PanicsOffSelection'
  BY PanicStep
<1> QED
  BY <1>1, <1>2, ShapesCorrect, PTL DEF Spec

(***************************************************************************)
(* The arrow keys select an eligible flow and skip none, unless they go up *)
(* from a flow that is not eligible.                                       *)
(***************************************************************************)
THEOREM NeighbourCorrect == Spec => NeighbourSelected
<1> DEFINE Moved == selected' # selected =>
                        /\ selected' \in Eligible
                        /\ \A i \in Eligible :
                            /\ ~(selected < i /\ i < selected')
                            /\ selected' < i /\ i < selected => selected \notin Eligible
<1>1. ASSUME Shapes, [Next]_vars PROVE Moved
  <2>1. CASE ArrowDown \/ ArrowUp
    BY <1>1, <2>1, ArrowSelects DEF Shapes, Neighbour
  <2>2. CASE Sideways
    BY <2>2, SidewaysKeeps DEF manager
  <2>3. CASE ReadAppend
    BY <2>3 DEF ReadAppend
  <2>4. CASE Running /\ \E a \in appenders : AppenderAppends(a)
    BY <2>4 DEF AppenderAppends
  <2>5. CASE TimePasses
    BY <2>5 DEF TimePasses
  <2> QED
    BY <1>1, <2>1, <2>2, <2>3, <2>4, <2>5, Steps
<1>2. Shapes /\ [Next]_vars => [Moved]_vars
  BY <1>1
<1>3. Spec => [][Moved]_vars
  <2> HIDE DEF Moved
  <2> QED
    BY <1>2, ShapesCorrect, PTL DEF Spec
<1> QED
  BY <1>3 DEF NeighbourSelected

-----------------------------------------------------------------------------
(* The details.                                                            *)

\* A step that leaves the selection, the details and what is about to be sent.
Beside ==
    /\ UNCHANGED <<selected, details, stale>>
    /\ flows' # <<>> => flows # <<>>
    /\ reader.at = "details" => reader'.at = "details"
    /\ UNCHANGED redraw
    /\ keyboard \in {"details", "redraw"} => keyboard' \in {"details", "redraw"}

\* Such a step leaves the details on their way.
LEMMA BesideKeeps ==
    ASSUME Followed, Beside
    PROVE  Followed'
BY DEF Followed, Beside

\* Whoever changes the selection has its details on the way; whoever sends others says so.
LEMMA FollowedStep ==
    ASSUME Shapes, Followed, [Next]_vars
    PROVE  Followed'
<1> USE DEF Shapes
<1>1. CASE Source \/ SourceKilled \/ RunReturns \/ TimePasses \/ UNCHANGED vars
  BY <1>1, BesideKeeps DEF Beside, Source, SourceKilled, RunReturns, TimePasses, vars, threads,
                           screen, manager
<1>2. CASE SkipToMeasures \/ NoInput \/ ReadLine \/ ReadEnd \/ ReadContains
  BY <1>2, BesideKeeps DEF Beside, SkipToMeasures, NoInput, ReadLine, Reads, ReadEnd,
                           ReadContains, threads, screen, manager
<1>3. CASE ReadAppend
  <2>1. UNCHANGED <<selected, details, stale, redraw, keyboard>>
    BY <1>3 DEF ReadAppend
  <2>2. CASE flows = <<>>
    <3>1. Len(flows') = 1
      BY <1>3, <2>2, NewFlowFacts
    <3>2. reader'.at = "details"
      BY <1>3, <3>1 DEF ReadAppend, SourceOK
    <3> QED
      BY <2>1, <3>2 DEF Followed
  <2>3. CASE flows # <<>>
    BY <1>3, <2>1, <2>3 DEF Followed, ReadAppend
  <2> QED
    BY <2>2, <2>3
<1>4. CASE FirstDetails
  <2>1. details' = selected /\ UNCHANGED <<selected, redraw, keyboard>>
    BY <1>4 DEF FirstDetails, ShowDetails, manager
  <2> QED
    BY <2>1 DEF Followed
<1>5. CASE FirstRedraw \/ KeyRedraw
  <2>1. redraw'.at = "selected"
    BY <1>5 DEF FirstRedraw, KeyRedraw, SendRedraw, ThreadsOK
  <2> QED
    BY <2>1 DEF Followed
<1>6. CASE Appender
  <2>1. PICK a \in appenders : AppenderGets(a) \/ AppenderAppends(a) \/ AppenderNotifies(a)
    BY <1>6 DEF Appender
  <2>2. flows' # <<>> => flows # <<>>
    <3>1. CASE AppenderAppends(a)
      BY <2>1, <3>1, AppenderFacts, FlowsFacts DEF AppenderAppends
    <3>2. CASE AppenderGets(a) \/ AppenderNotifies(a)
      BY <3>2 DEF AppenderGets, AppenderNotifies, manager
    <3> QED
      BY <2>1, <3>1, <3>2
  <2> QED
    BY <2>1, <2>2, BesideKeeps DEF Beside, AppenderGets, AppenderAppends, AppenderNotifies,
                                   screen, manager
<1>7. CASE Updater
  BY <1>7, BesideKeeps DEF Beside, Updater, UpdaterLocks, UpdaterFails, UpdaterSends,
                           UpdaterUnlocks, UpdaterOnly, screen, manager
<1>8. CASE After
  <2>1. UNCHANGED <<flows, selected, reader, redraw, keyboard>>
    BY <1>8 DEF After, manager
  <2>2. PICK a \in afters : AfterReads(a) \/ AfterSends(a)
    BY <1>8 DEF After
  <2>3. CASE AfterReads(a)
    BY <2>1, <2>3, BesideKeeps DEF Beside, AfterReads, screen
  <2>4. CASE AfterSends(a)
    BY <2>1, <2>4 DEF AfterSends, ShowDetails, Followed
  <2> QED
    BY <2>2, <2>3, <2>4
<1>9. CASE ArrowDown \/ ArrowUp
  <2>1. UNCHANGED <<flows, reader, redraw, screen>>
    BY <1>9, ArrowSelects
  <2>2. UNCHANGED <<selected, keyboard>> \/ keyboard' = "details"
    BY <1>9, ArrowSelects
  <2> QED
    BY <2>1, <2>2 DEF Followed, screen
<1>10. CASE KeyDetails
  BY <1>10 DEF KeyDetails, KeyboardOnly, ShowDetails, Followed
<1>11. CASE Space \/ ExitKey \/ ExitMessage
  BY <1>11, BesideKeeps DEF Beside, Space, ExitKey, ExitMessage, Press, KeyboardOnly, screen
<1>12. CASE Redraw
  <2>1. UNCHANGED <<flows, selected, reader, keyboard>>
    BY <1>12 DEF Redraw, manager
  <2>2. CASE RedrawReads
    BY <2>1, <2>2 DEF RedrawReads, Followed, screen
  <2>3. CASE RedrawSends
    BY <2>1, <2>3 DEF RedrawSends, ShowDetails, Followed
  <2> QED
    BY <1>12, <2>2, <2>3 DEF Redraw
<1> QED
  BY <1>1, <1>2, <1>3, <1>4, <1>5, <1>6, <1>7, <1>8, <1>9, <1>10, <1>11, <1>12
     DEF Next, Reader, Keyboard

(***************************************************************************)
(* Once nothing is under way the details are those of the selected flow,   *)
(* or were sent by an after-goroutine whose selection was past: whatever   *)
(* changes the selection has a message of its own on the way until then.   *)
(***************************************************************************)
THEOREM DetailsCorrect == Spec => []DetailsFollow
<1>1. DrshowInit => Followed
  <2> SUFFICES ASSUME DrshowInit PROVE Followed
    OBVIOUS
  <2>1. flows # <<>> => details = selected
    BY DEF DrshowInit, StartAt
  <2>2. redraw.at = "receive"
    BY DEF DrshowInit
  <2> QED
    BY <2>1, <2>2 DEF Followed
<1>2. Shapes /\ Followed /\ [Next]_vars => Followed'
  BY FollowedStep
<1>3. Followed => DetailsFollow
  BY DEF Followed, DetailsFollow, Quiet
<1> QED
  BY <1>1, <1>2, <1>3, ShapesCorrect, PTL DEF Spec

-----------------------------------------------------------------------------
(* No line is lost.                                                        *)

\* The samples of a line are the places that hold its number.
LEMMA InSamples ==
    ASSUME NEW fs, NEW n
    PROVE  /\ \A s \in SamplesIn(fs, n) : /\ s[1] \in DOMAIN fs
                                          /\ s[2] \in DOMAIN fs[s[1]].samples
                                          /\ fs[s[1]].samples[s[2]] = n
                                          /\ s = <<s[1], s[2]>>
           /\ \A i \in DOMAIN fs : \A k \in DOMAIN fs[i].samples :
                fs[i].samples[k] = n => <<i, k>> \in SamplesIn(fs, n)
<1>1. ASSUME NEW s \in SamplesIn(fs, n)
      PROVE  /\ s[1] \in DOMAIN fs /\ s[2] \in DOMAIN fs[s[1]].samples
             /\ fs[s[1]].samples[s[2]] = n /\ s = <<s[1], s[2]>>
  <2>1. PICK i \in DOMAIN fs : s \in {i} \X DOMAIN fs[i].samples
    BY DEF SamplesIn
  <2>2. s[1] = i /\ s[2] \in DOMAIN fs[i].samples /\ s = <<s[1], s[2]>>
    BY <2>1
  <2>3. fs[s[1]].samples[s[2]] = n
    BY DEF SamplesIn
  <2> QED
    BY <2>2, <2>3
<1>2. ASSUME NEW i \in DOMAIN fs, NEW k \in DOMAIN fs[i].samples, fs[i].samples[k] = n
      PROVE  <<i, k>> \in SamplesIn(fs, n)
  <2>1. <<i, k>> \in {i} \X DOMAIN fs[i].samples
    OBVIOUS
  <2>2. <<i, k>> \in UNION {{j} \X DOMAIN fs[j].samples : j \in DOMAIN fs}
    BY <2>1
  <2>3. fs[<<i, k>>[1]].samples[<<i, k>>[2]] = n
    BY <1>2
  <2> QED
    BY <2>2, <2>3 DEF SamplesIn
<1> QED
  BY <1>1, <1>2

\* A flow without samples changes none.
LEMMA NewFlowSamples ==
    ASSUME SourceOK, ManagerOK, ReadAppend, NEW n
    PROVE  /\ SamplesOf(n)' = SamplesOf(n)
           /\ Stored(n) => Stored(n)'
<1> DEFINE S == SamplesIn(flows, n)
           T == SamplesIn(flows', n)
<1>1. /\ DOMAIN flows' = DOMAIN flows \cup {Len(flows) + 1}
      /\ \A i \in DOMAIN flows : flows'[i] = flows[i]
      /\ DOMAIN flows'[Len(flows) + 1].samples = {}
  BY NewFlowFacts
<1>2. ASSUME NEW s \in S PROVE s \in T
  <2>1. /\ s[1] \in DOMAIN flows /\ s[2] \in DOMAIN flows[s[1]].samples
        /\ flows[s[1]].samples[s[2]] = n /\ s = <<s[1], s[2]>>
    BY InSamples
  <2>2. /\ s[1] \in DOMAIN flows' /\ s[2] \in DOMAIN flows'[s[1]].samples
        /\ flows'[s[1]].samples[s[2]] = n
    BY <1>1, <2>1
  <2>3. <<s[1], s[2]>> \in T
    BY <2>2, InSamples
  <2> QED
    BY <2>1, <2>3
<1>3. ASSUME NEW s \in T PROVE s \in S
  <2>1. /\ s[1] \in DOMAIN flows' /\ s[2] \in DOMAIN flows'[s[1]].samples
        /\ flows'[s[1]].samples[s[2]] = n /\ s = <<s[1], s[2]>>
    BY InSamples
  <2>2. /\ s[1] \in DOMAIN flows /\ s[2] \in DOMAIN flows[s[1]].samples
        /\ flows[s[1]].samples[s[2]] = n
    BY <1>1, <2>1
  <2>3. <<s[1], s[2]>> \in S
    BY <2>2, InSamples
  <2> QED
    BY <2>1, <2>3
<1>4. \A s \in S : flows'[s[1]] = flows[s[1]]
  BY <1>1, InSamples
<1>5. S = T
  BY <1>2, <1>3
<1> QED
  BY <1>4, <1>5 DEF SamplesOf, Stored

\* A line that is appended becomes a sample of its flow.
LEMMA AppendedSamples ==
    ASSUME ManagerOK, NEW a, a.flow \in DOMAIN flows, a.line \in Lines, AppenderAppends(a), NEW n
    PROVE  SamplesOf(n)' = IF n = a.line.n
                           THEN SamplesOf(n) \cup {<<a.flow, Len(flows[a.flow].samples) + 1>>}
                           ELSE SamplesOf(n)
<1> DEFINE S == SamplesIn(flows, n)
           T == SamplesIn(flows', n)
           f == a.flow
           last == Len(flows[f].samples) + 1
<1>1. /\ DOMAIN flows' = DOMAIN flows
      /\ \A i \in DOMAIN flows : i # f => flows'[i] = flows[i]
      /\ flows'[f].samples = Append(flows[f].samples, a.line.n)
  BY AppendSampleFacts
<1>2. flows[f].samples \in Seq(Nat) /\ a.line.n \in Nat /\ f \in DOMAIN flows
  BY FlowsFacts, LineFacts, SimulatorAssumption
<1>3. /\ DOMAIN flows[f].samples = 1..Len(flows[f].samples)
      /\ Len(flows[f].samples) \in Nat
      /\ DOMAIN flows'[f].samples = DOMAIN flows[f].samples \cup {last}
      /\ last \notin DOMAIN flows[f].samples
      /\ \A k \in DOMAIN flows[f].samples : flows'[f].samples[k] = flows[f].samples[k]
      /\ flows'[f].samples[last] = a.line.n
  <2>1. Len(flows[f].samples) \in Nat /\ DOMAIN flows[f].samples = 1..Len(flows[f].samples)
    BY <1>2, LenProperties
  <2>2. /\ flows'[f].samples \in Seq(Nat)
        /\ Len(flows'[f].samples) = Len(flows[f].samples) + 1
        /\ \A k \in 1..Len(flows[f].samples) : flows'[f].samples[k] = flows[f].samples[k]
        /\ flows'[f].samples[last] = a.line.n
    BY <1>1, <1>2, AppendProperties
  <2>3. DOMAIN flows'[f].samples = 1..last
    BY <2>2, LenProperties
  <2>4. DOMAIN flows'[f].samples = DOMAIN flows[f].samples \cup {last}
        /\ last \notin DOMAIN flows[f].samples
    BY <2>1, <2>3
  <2> QED
    BY <2>1, <2>2, <2>4
<1> HIDE DEF f, last
<1>4. ASSUME NEW s \in S PROVE s \in T
  <2>1. /\ s[1] \in DOMAIN flows /\ s[2] \in DOMAIN flows[s[1]].samples
        /\ flows[s[1]].samples[s[2]] = n /\ s = <<s[1], s[2]>>
    BY InSamples
  <2>2. /\ s[1] \in DOMAIN flows' /\ s[2] \in DOMAIN flows'[s[1]].samples
        /\ flows'[s[1]].samples[s[2]] = n
    BY <1>1, <1>3, <2>1
  <2>3. <<s[1], s[2]>> \in T
    BY <2>2, InSamples
  <2> QED
    BY <2>1, <2>3
<1>5. ASSUME NEW s \in T PROVE s \in S \/ (s = <<f, last>> /\ n = a.line.n)
  <2>1. /\ s[1] \in DOMAIN flows' /\ s[2] \in DOMAIN flows'[s[1]].samples
        /\ flows'[s[1]].samples[s[2]] = n /\ s = <<s[1], s[2]>>
    BY InSamples
  <2>2. CASE s[1] = f /\ s[2] = last
    BY <1>3, <2>1, <2>2
  <2>3. CASE s[1] # f \/ s[2] # last
    <3>1. /\ s[1] \in DOMAIN flows /\ s[2] \in DOMAIN flows[s[1]].samples
          /\ flows[s[1]].samples[s[2]] = n
      BY <1>1, <1>3, <2>1, <2>3
    <3>2. <<s[1], s[2]>> \in S
      BY <3>1, InSamples
    <3> QED
      BY <2>1, <3>2
  <2> QED
    BY <2>2, <2>3
<1>6. ASSUME n = a.line.n PROVE <<f, last>> \in T
  <2>1. f \in DOMAIN flows' /\ last \in DOMAIN flows'[f].samples /\ flows'[f].samples[last] = n
    BY <1>1, <1>2, <1>3, <1>6
  <2> QED
    BY <2>1, InSamples
<1>7. T = IF n = a.line.n THEN S \cup {<<f, last>>} ELSE S
  BY <1>4, <1>5, <1>6
<1> QED
  BY <1>7 DEF SamplesOf, f, last

\* A line in hand stays in the hand it is in or goes on to the next one.
Stays ==
    /\ UNCHANGED appenders
    /\ HasLine' = HasLine
    /\ HasLine => reader'.line = reader.line

Spawned == HasLine /\ ~HasLine' /\ Spawn(reader.line)

Advances(a, b) ==
    /\ b.line = a.line
    /\ a.at # "notify" <=> b.at # "notify"
    /\ Becomes(a, b)
    /\ UNCHANGED reader

Lets(a) ==
    /\ a.at = "notify"
    /\ appenders' = appenders \ {a}
    /\ UNCHANGED reader

Handed ==
    \/ Stays
    \/ Spawned
    \/ \E a \in appenders : (\E b : Advances(a, b)) \/ Lets(a)

\* Handing a line on loses none and doubles none.
LEMMA HandedKeeps ==
    ASSUME Held, Handed, Taken' = Taken, ended' = ended, ended = "no"
    PROVE  Held' /\ \A n : InHand(n)' = InHand(n)
<1>1. /\ HasLine => /\ reader.line.n \in 1..Taken
                    /\ reader.line = generator(reader.line.n - 1)
                    /\ \A a \in appenders : a.line.n # reader.line.n
      /\ \A a \in appenders : a.line.n \in 1..Taken /\ a.line = generator(a.line.n - 1)
      /\ \A a, b \in appenders : a.line.n = b.line.n => a = b
  BY DEF Held
<1>2. \A n : HasRead(n) <=> HasLine /\ reader.line.n = n
  BY DEF HasRead, HasLine
<1>3. \A n : HasRead(n)' <=> HasLine' /\ reader'.line.n = n
  BY DEF HasRead, HasLine
<1>4. CASE Stays
  <2>1. Held'
    BY <1>1, <1>4 DEF Stays, Held
  <2>2. ASSUME NEW n PROVE InHand(n)' = InHand(n)
    <3>1. HasRead(n)' <=> HasRead(n)
      BY <1>2, <1>3, <1>4 DEF Stays
    <3> QED
      BY <1>4, <3>1 DEF Stays, InHand
  <2> QED
    BY <2>1, <2>2
<1>5. CASE Spawned
  <2> DEFINE new == [line |-> reader.line, at |-> "get", flow |-> 0]
  <2>1. appenders' = appenders \cup {new} /\ HasLine /\ ~HasLine'
    BY <1>5 DEF Spawned, Spawn
  <2>2. new.line = reader.line /\ new.at = "get"
    OBVIOUS
  <2> HIDE DEF new
  <2>3. \A a \in appenders' : a.line.n \in 1..Taken /\ a.line = generator(a.line.n - 1)
    BY <1>1, <2>1, <2>2
  <2>4. \A a, b \in appenders' : a.line.n = b.line.n => a = b
    BY <1>1, <2>1, <2>2
  <2>5. Held'
    BY <2>1, <2>3, <2>4 DEF Held
  <2>6. ASSUME NEW n PROVE InHand(n)' = InHand(n)
    <3>1. HasRead(n) <=> new.line.n = n
      BY <1>2, <2>1, <2>2
    <3>2. ~HasRead(n)'
      BY <1>3, <2>1
    <3>3. (\E a \in appenders' : a.line.n = n /\ a.at # "notify")
            <=> (\E a \in appenders : a.line.n = n /\ a.at # "notify") \/ new.line.n = n
      BY <2>1, <2>2
    <3> QED
      BY <3>1, <3>2, <3>3 DEF InHand
  <2> QED
    BY <2>5, <2>6
<1>6. ASSUME NEW a \in appenders, NEW b, Advances(a, b)
      PROVE  Held' /\ \A n : InHand(n)' = InHand(n)
  <2>1. appenders' = (appenders \ {a}) \cup {b} /\ reader' = reader /\ b.line = a.line
        /\ (a.at # "notify" <=> b.at # "notify")
    BY <1>6 DEF Advances, Becomes
  <2>2. HasLine' = HasLine
    BY <2>1 DEF HasLine
  <2>3. \A c \in appenders' : c.line.n \in 1..Taken /\ c.line = generator(c.line.n - 1)
    BY <1>1, <2>1
  <2>4. \A c, d \in appenders' : c.line.n = d.line.n => c = d
    BY <1>1, <2>1
  <2>5. HasLine => \A c \in appenders' : c.line.n # reader.line.n
    BY <1>1, <2>1
  <2>6. Held'
    BY <1>1, <2>1, <2>2, <2>3, <2>4, <2>5 DEF Held
  <2>7. ASSUME NEW n PROVE InHand(n)' = InHand(n)
    <3>1. HasRead(n)' <=> HasRead(n)
      BY <1>2, <1>3, <2>1, <2>2
    <3>2. (\E c \in appenders' : c.line.n = n /\ c.at # "notify")
            <=> (\E c \in appenders : c.line.n = n /\ c.at # "notify")
      BY <2>1
    <3> QED
      BY <3>1, <3>2 DEF InHand
  <2> QED
    BY <2>6, <2>7
<1>7. ASSUME NEW a \in appenders, Lets(a)
      PROVE  Held' /\ \A n : InHand(n)' = InHand(n)
  <2>1. appenders' = appenders \ {a} /\ reader' = reader /\ a.at = "notify"
    BY <1>7 DEF Lets
  <2>2. HasLine' = HasLine
    BY <2>1 DEF HasLine
  <2>3. Held'
    BY <1>1, <2>1, <2>2 DEF Held
  <2>4. ASSUME NEW n PROVE InHand(n)' = InHand(n)
    <3>1. HasRead(n)' <=> HasRead(n)
      BY <1>2, <1>3, <2>1, <2>2
    <3>2. (\E c \in appenders' : c.line.n = n /\ c.at # "notify")
            <=> (\E c \in appenders : c.line.n = n /\ c.at # "notify")
      BY <2>1
    <3> QED
      BY <3>1, <3>2 DEF InHand
  <2> QED
    BY <2>3, <2>4
<1> QED
  BY <1>4, <1>5, <1>6, <1>7 DEF Handed

\* Every step only hands lines on, but for the one that reads and the one that appends.
LEMMA HandedSteps ==
    ASSUME SourceOK, ThreadsOK, [Next]_vars
    PROVE  \/ Handed
           \/ ReadLine
           \/ Running /\ \E a \in appenders : AppenderAppends(a)
<1>1. CASE UNCHANGED <<reader, appenders>>
  BY <1>1 DEF Handed, Stays, HasLine
<1>2. CASE SkipToMeasures \/ ReadEnd \/ FirstDetails
  <2>1. CASE SkipToMeasures
    <3>1. /\ UNCHANGED appenders /\ reader.at = "header"
          /\ reader'.at \in {"read", "header"}
      BY <2>1 DEF SkipToMeasures, Reads, SourceOK
    <3> QED
      BY <3>1 DEF Handed, Stays, HasLine
  <2>2. CASE ReadEnd
    <3>1. UNCHANGED appenders /\ reader.at = "read" /\ reader'.at = "end"
      BY <2>2 DEF ReadEnd, SourceOK
    <3> QED
      BY <3>1 DEF Handed, Stays, HasLine
  <2>3. CASE FirstDetails
    <3>1. /\ UNCHANGED appenders /\ reader.at = "details"
          /\ reader'.at = "redraw" /\ reader'.line = reader.line
      BY <2>3 DEF FirstDetails, SourceOK
    <3> QED
      BY <3>1 DEF Handed, Stays, HasLine
  <2> QED
    BY <1>2, <2>1, <2>2, <2>3
<1>3. CASE ReadContains
  <2>1. CASE reader' = [reader EXCEPT !.at = "append"] /\ UNCHANGED appenders
    <3>1. reader.at = "contains" /\ reader'.at = "append" /\ reader'.line = reader.line
      BY <1>3, <2>1 DEF ReadContains, SourceOK
    <3> QED
      BY <2>1, <3>1 DEF Handed, Stays, HasLine
  <2>2. CASE reader' = [reader EXCEPT !.at = "read"] /\ Spawn(reader.line)
    <3>1. reader.at = "contains" /\ reader'.at = "read"
      BY <1>3, <2>2 DEF ReadContains, SourceOK
    <3> QED
      BY <2>2, <3>1 DEF Handed, Spawned, HasLine
  <2> QED
    BY <1>3, <2>1, <2>2 DEF ReadContains
<1>4. CASE ReadAppend
  <2>1. CASE reader' = [reader EXCEPT !.at = "details"] /\ UNCHANGED appenders
    <3>1. reader.at = "append" /\ reader'.at = "details" /\ reader'.line = reader.line
      BY <1>4, <2>1 DEF ReadAppend, SourceOK
    <3> QED
      BY <2>1, <3>1 DEF Handed, Stays, HasLine
  <2>2. CASE reader' = [reader EXCEPT !.at = "read"] /\ Spawn(reader.line)
    <3>1. reader.at = "append" /\ reader'.at = "read"
      BY <1>4, <2>2 DEF ReadAppend, SourceOK
    <3> QED
      BY <2>2, <3>1 DEF Handed, Spawned, HasLine
  <2> QED
    BY <1>4, <2>1, <2>2 DEF ReadAppend
<1>5. CASE FirstRedraw
  <2>1. reader.at = "redraw" /\ reader'.at = "read" /\ Spawn(reader.line)
    BY <1>5 DEF FirstRedraw, SourceOK
  <2> QED
    BY <2>1 DEF Handed, Spawned, HasLine
<1>6. CASE Appender
  <2>1. Running
    BY <1>6 DEF Appender
  <2>2. PICK a \in appenders : AppenderGets(a) \/ AppenderAppends(a) \/ AppenderNotifies(a)
    BY <1>6 DEF Appender
  <2>3. CASE AppenderGets(a)
    <3>1. PICK i : Becomes(a, [a EXCEPT !.at = "append", !.flow = i])
      BY <2>3 DEF AppenderGets
    <3> DEFINE b == [a EXCEPT !.at = "append", !.flow = i]
    <3>2. b.line = a.line /\ b.at = "append" /\ a.at = "get"
      BY <2>2, <2>3 DEF AppenderGets, ThreadsOK
    <3>3. UNCHANGED reader
      BY <2>3 DEF AppenderGets
    <3> HIDE DEF b
    <3>4. Becomes(a, b)
      BY <3>1 DEF b
    <3>5. Advances(a, b)
      BY <3>2, <3>3, <3>4 DEF Advances
    <3> QED
      BY <2>2, <3>5 DEF Handed
  <2>4. CASE AppenderNotifies(a)
    BY <2>2, <2>4 DEF AppenderNotifies, Handed, Lets
  <2> QED
    BY <2>1, <2>2, <2>3, <2>4
<1>7. NoInput \/ Source \/ SourceKilled \/ Updater \/ After \/ Keyboard \/ RunReturns \/ Redraw
        \/ TimePasses \/ UNCHANGED vars => UNCHANGED <<reader, appenders>>
  <2>1. NoInput \/ Source \/ SourceKilled \/ RunReturns \/ TimePasses \/ UNCHANGED vars
            => UNCHANGED <<reader, appenders>>
    BY DEF NoInput, Source, SourceKilled, RunReturns, TimePasses, vars, threads
  <2>2. Updater \/ After \/ Redraw => UNCHANGED <<reader, appenders>>
    BY DEF Updater, UpdaterLocks, UpdaterFails, UpdaterSends, UpdaterUnlocks, UpdaterOnly,
           After, Redraw
  <2>3. Keyboard => UNCHANGED <<reader, appenders>>
    BY DEF Keyboard, ArrowDown, ArrowUp, Select, KeyDetails, KeyRedraw, Space, ExitKey,
           ExitMessage, KeyboardOnly
  <2> QED
    BY <2>1, <2>2, <2>3
<1> QED
  BY <1>1, <1>2, <1>3, <1>4, <1>5, <1>6, <1>7 DEF Next, Reader

\* A flow is only added for end points that none has.
LEMMA KeysStep ==
    ASSUME Shapes, KeysOnce, [Next]_vars
    PROVE  KeysOnce'
<1> USE DEF Shapes
<1>1. /\ \A i, j \in DOMAIN flows : flows[i].key = flows[j].key => i = j
      /\ reader.at = "append" => \A i \in DOMAIN flows : flows[i].key # reader.line.key
      /\ \A a \in appenders : a.at = "append" => flows[a.flow].key = a.line.key
  BY DEF KeysOnce, Contains, Holding
<1>2. ASSUME \A i, j \in DOMAIN flows' : flows'[i].key = flows'[j].key => i = j,
             reader'.at = "append" => \A i \in DOMAIN flows' : flows'[i].key # reader'.line.key,
             \A a \in appenders' : a.at = "append" => flows'[a.flow].key = a.line.key
      PROVE  KeysOnce'
  BY <1>2 DEF KeysOnce, Contains, Holding
<1>3. CASE UNCHANGED <<flows, reader, appenders>>
  BY <1>1, <1>2, <1>3
<1>4. CASE ReadAppend
  <2>1. /\ DOMAIN flows' = DOMAIN flows \cup {Len(flows) + 1}
        /\ Len(flows) + 1 \notin DOMAIN flows
        /\ \A i \in DOMAIN flows : flows'[i] = flows[i]
        /\ flows'[Len(flows) + 1].key = reader.line.key
    BY <1>4, NewFlowFacts
  <2>2. reader.at = "append" /\ reader'.at \in {"details", "read"}
    BY <1>4 DEF ReadAppend, SourceOK
  <2>3. \A i, j \in DOMAIN flows' : flows'[i].key = flows'[j].key => i = j
    BY <1>1, <2>1, <2>2
  <2>4. UNCHANGED appenders \/ Spawn(reader.line)
    BY <1>4 DEF ReadAppend
  <2>5. \A a \in appenders' : a.at = "append" => a \in appenders
    BY <2>4 DEF Spawn
  <2>6. \A a \in appenders' : a.at = "append" => flows'[a.flow].key = a.line.key
    BY <1>1, <2>1, <2>5, AppenderFacts
  <2> QED
    BY <1>2, <2>2, <2>3, <2>6
<1>5. CASE Appender
  <2>1. PICK a \in appenders : AppenderGets(a) \/ AppenderAppends(a) \/ AppenderNotifies(a)
    BY <1>5 DEF Appender
  <2>2. UNCHANGED reader
    BY <2>1 DEF AppenderGets, AppenderAppends, AppenderNotifies
  <2>3. CASE AppenderGets(a)
    <3>1. flows' = flows
      BY <2>3 DEF AppenderGets, manager
    <3>2. PICK i \in Holding(flows, a.line.key) :
                Becomes(a, [a EXCEPT !.at = "append", !.flow = i])
      BY <2>3 DEF AppenderGets
    <3> DEFINE b == [a EXCEPT !.at = "append", !.flow = i]
    <3>3. b.flow = i /\ b.line = a.line /\ flows[i].key = a.line.key
      BY <2>1, <3>2 DEF ThreadsOK, Holding
    <3>4. appenders' = (appenders \ {a}) \cup {b}
      BY <3>2 DEF Becomes
    <3> HIDE DEF b
    <3>5. \A c \in appenders' : c.at = "append" => flows[c.flow].key = c.line.key
      BY <1>1, <3>3, <3>4
    <3> QED
      BY <1>1, <1>2, <2>2, <3>1, <3>5
  <2>4. CASE AppenderAppends(a)
    <3>1. a.flow \in DOMAIN flows /\ a.line \in Lines
      BY <2>1, <2>4, AppenderFacts DEF AppenderAppends
    <3>2. /\ DOMAIN flows' = DOMAIN flows
          /\ \A i \in DOMAIN flows : flows'[i].key = flows[i].key
      BY <2>4, <3>1, AppendSampleFacts
    <3> DEFINE b == [a EXCEPT !.at = "notify"]
    <3>3. b.at = "notify"
      BY <2>1 DEF ThreadsOK
    <3>4. appenders' = (appenders \ {a}) \cup {b}
      BY <2>4 DEF AppenderAppends, Becomes
    <3> HIDE DEF b
    <3>5. \A c \in appenders' : c.at = "append" => c \in appenders
      BY <3>3, <3>4
    <3>6. \A c \in appenders' : c.at = "append" => flows'[c.flow].key = c.line.key
      BY <1>1, <3>2, <3>5, AppenderFacts
    <3>7. \A i, j \in DOMAIN flows' : flows'[i].key = flows'[j].key => i = j
      BY <1>1, <3>2
    <3>8. reader'.at = "append" => \A i \in DOMAIN flows' : flows'[i].key # reader'.line.key
      BY <1>1, <2>2, <3>2
    <3> QED
      BY <1>2, <3>6, <3>7, <3>8
  <2>5. CASE AppenderNotifies(a)
    <3>1. flows' = flows /\ appenders' = appenders \ {a}
      BY <2>5 DEF AppenderNotifies, manager
    <3> QED
      BY <1>1, <1>2, <2>2, <3>1
  <2> QED
    BY <2>1, <2>3, <2>4, <2>5
<1>6. CASE ReadContains
  <2>1. flows' = flows
    BY <1>6 DEF ReadContains, manager
  <2>2. UNCHANGED appenders \/ Spawn(reader.line)
    BY <1>6 DEF ReadContains
  <2>3. \A a \in appenders' : a.at = "append" => a \in appenders
    BY <2>2 DEF Spawn
  <2>4. reader'.at = "append" => /\ reader'.line = reader.line
                                 /\ ~Contains(flows, reader.line.key)
    BY <1>6 DEF ReadContains, SourceOK
  <2>5. reader'.at = "append" => \A i \in DOMAIN flows : flows[i].key # reader'.line.key
    BY <2>4 DEF Contains, Holding
  <2> QED
    BY <1>1, <1>2, <2>1, <2>3, <2>5
<1>7. CASE SkipToMeasures \/ ReadLine \/ ReadEnd \/ FirstDetails \/ FirstRedraw
  <2>1. flows' = flows
    BY <1>7 DEF SkipToMeasures, ReadLine, Reads, ReadEnd, FirstDetails, FirstRedraw, manager
  <2>2. reader'.at # "append"
    <3>1. SkipToMeasures => reader'.at \in {"read", "header"}
      BY DEF SkipToMeasures, SourceOK
    <3>2. ReadLine => reader'.at = "contains"
      BY DEF ReadLine
    <3>3. ReadEnd => reader'.at = "end"
      BY DEF ReadEnd, SourceOK
    <3>4. FirstDetails => reader'.at = "redraw"
      BY DEF FirstDetails, SourceOK
    <3>5. FirstRedraw => reader'.at = "read"
      BY DEF FirstRedraw, SourceOK
    <3> QED
      BY <1>7, <3>1, <3>2, <3>3, <3>4, <3>5
  <2>3. UNCHANGED appenders \/ Spawn(reader.line)
    BY <1>7 DEF SkipToMeasures, ReadLine, Reads, ReadEnd, FirstDetails, FirstRedraw
  <2>4. \A a \in appenders' : a.at = "append" => a \in appenders
    BY <2>3 DEF Spawn
  <2> QED
    BY <1>1, <1>2, <2>1, <2>2, <2>4
<1>8. CASE ArrowDown \/ ArrowUp
  BY <1>3, <1>8, ArrowSelects
<1>9. CASE NoInput \/ Source \/ SourceKilled \/ RunReturns \/ TimePasses \/ UNCHANGED vars
  BY <1>3, <1>9 DEF NoInput, Source, SourceKilled, RunReturns, TimePasses, vars, threads, manager
<1>10. CASE Updater \/ After \/ Redraw
  BY <1>3, <1>10 DEF Updater, UpdaterLocks, UpdaterFails, UpdaterSends, UpdaterUnlocks,
                     UpdaterOnly, After, Redraw, manager
<1>11. CASE KeyDetails \/ KeyRedraw \/ Space \/ ExitKey \/ ExitMessage
  BY <1>3, <1>11 DEF KeyDetails, KeyRedraw, Space, ExitKey, ExitMessage, KeyboardOnly
<1> QED
  BY <1>4, <1>5, <1>6, <1>7, <1>8, <1>9, <1>10, <1>11 DEF Next, Reader, Keyboard

\* The line that is read is the next one, and nobody has it yet.
LEMMA LineRead ==
    ASSUME SourceOK, Piped, Held, ReadLine
    PROVE  /\ ended = "no" /\ UNCHANGED <<flows, appenders, ended>>
           /\ Taken \in 0..(MaxLines - 1) /\ Taken' = Taken + 1
           /\ Held'
           /\ \A n \in 1..MaxLines : InHand(n)' <=> InHand(n) \/ n = Taken'
<1>1. /\ Reads /\ reader.at = "read" /\ pipe # <<>> /\ ended = "no"
      /\ UNCHANGED <<flows, appenders, ended>>
      /\ reader' = [at |-> "contains", line |-> Head(pipe)]
  BY DEF ReadLine, Reads, Running, manager
<1>2. Head(pipe) = generator(Taken) /\ Taken \in 0..index /\ Head(pipe) \in Lines
  BY <1>1, NextLine
<1>3. Taken' = Taken + 1
  BY <1>1, <1>2, ReadsKeeps
<1>4. Taken \in 0..(MaxLines - 1)
  <2>1. index \in Int /\ index < MaxLines /\ MaxLines \in Nat
    BY <1>1, SimulatorAssumption DEF SourceOK, Piped
  <2> QED
    BY <1>2, <2>1
<1>5. reader'.line = generator(Taken) /\ reader'.line.n = Taken + 1
  BY <1>1, <1>2 DEF generator
<1>6. /\ \A a \in appenders : a.line.n \in 1..Taken /\ a.line = generator(a.line.n - 1)
      /\ \A a, b \in appenders : a.line.n = b.line.n => a = b
  BY <1>1 DEF Held
<1>7. Held'
  <2>1. Taken + 1 \in 1..Taken' /\ Taken + 1 - 1 = Taken
    BY <1>3, <1>4, SimulatorAssumption
  <2>2. \A a \in appenders : a.line.n \in 1..Taken' /\ a.line.n # Taken + 1
    BY <1>3, <1>4, <1>6, SimulatorAssumption
  <2>3. /\ reader'.line.n \in 1..Taken'
        /\ reader'.line = generator(reader'.line.n - 1)
        /\ \A a \in appenders' : a.line.n # reader'.line.n
    <3>1. reader'.line.n - 1 = Taken /\ reader'.line.n \in 1..Taken'
      BY <1>4, <1>5, <2>1
    <3>2. \A a \in appenders' : a.line.n # reader'.line.n
      BY <1>1, <1>5, <2>2
    <3> QED
      BY <1>5, <3>1, <3>2
  <2> QED
    BY <1>1, <1>6, <2>2, <2>3 DEF Held
<1>8. ASSUME NEW n \in 1..MaxLines PROVE InHand(n)' <=> InHand(n) \/ n = Taken'
  <2>1. HasRead(n)' <=> n = Taken'
    BY <1>1, <1>3, <1>5 DEF HasRead
  <2>2. ~HasRead(n)
    BY <1>1 DEF HasRead
  <2> QED
    BY <1>1, <2>1, <2>2 DEF InHand
<1> QED
  BY <1>1, <1>3, <1>4, <1>7, <1>8

\* The line that is appended leaves the only hand it was in.
LEMMA LineAppended ==
    ASSUME ThreadsOK, Held, ended = "no", Taken' = Taken, NEW a \in appenders, AppenderAppends(a)
    PROVE  /\ Held' /\ UNCHANGED ended
           /\ InHand(a.line.n) /\ ~InHand(a.line.n)'
           /\ \A n : n # a.line.n => InHand(n)' = InHand(n)
<1> DEFINE b == [a EXCEPT !.at = "notify"]
<1>1. b.line = a.line /\ b.at = "notify"
  BY DEF ThreadsOK
<1>2. /\ a.at = "append" /\ UNCHANGED <<reader, ended>>
      /\ appenders' = (appenders \ {a}) \cup {b}
  BY DEF AppenderAppends, Becomes
<1> HIDE DEF b
<1>3. /\ HasLine => /\ reader.line.n \in 1..Taken
                    /\ reader.line = generator(reader.line.n - 1)
                    /\ \A c \in appenders : c.line.n # reader.line.n
      /\ \A c \in appenders : c.line.n \in 1..Taken /\ c.line = generator(c.line.n - 1)
      /\ \A c, d \in appenders : c.line.n = d.line.n => c = d
  BY DEF Held
<1>4. HasLine' = HasLine /\ \A n : HasRead(n) = (HasLine /\ reader.line.n = n)
                         /\ HasRead(n)' = HasRead(n)
  BY <1>2 DEF HasLine, HasRead
<1>5. \A c \in appenders' : c.line.n \in 1..Taken /\ c.line = generator(c.line.n - 1)
  BY <1>1, <1>2, <1>3
<1>6. \A c, d \in appenders' : c.line.n = d.line.n => c = d
  BY <1>1, <1>2, <1>3
<1>7. HasLine => \A c \in appenders' : c.line.n # reader.line.n
  BY <1>1, <1>2, <1>3
<1>8. Held'
  BY <1>2, <1>3, <1>4, <1>5, <1>6, <1>7 DEF Held
<1>9. InHand(a.line.n)
  BY <1>2 DEF InHand
<1>10. ~InHand(a.line.n)'
  <2>1. ~HasRead(a.line.n)'
    BY <1>3, <1>4
  <2>2. \A c \in appenders' : c.line.n = a.line.n => c.at = "notify"
    BY <1>1, <1>2, <1>3
  <2> QED
    BY <2>1, <2>2 DEF InHand
<1>11. ASSUME NEW n, n # a.line.n PROVE InHand(n)' = InHand(n)
  <2>1. (\E c \in appenders' : c.line.n = n /\ c.at # "notify")
            <=> (\E c \in appenders : c.line.n = n /\ c.at # "notify")
    BY <1>1, <1>2, <1>11
  <2> QED
    BY <1>4, <2>1 DEF InHand
<1> QED
  BY <1>2, <1>8, <1>9, <1>10, <1>11

\* The flows' samples stay where they are unless a line is appended.
LEMMA SamplesStay ==
    ASSUME Shapes, [Next]_vars, NEW n,
           ~(Running /\ \E a \in appenders : AppenderAppends(a))
    PROVE  SamplesOf(n)' = SamplesOf(n) /\ (Stored(n) => Stored(n)')
<1>1. CASE ReadAppend
  BY <1>1, NewFlowSamples DEF Shapes
<1>2. CASE flows' = flows
  BY <1>2 DEF SamplesOf, Stored
<1>3. CASE Sideways
  BY <1>2, <1>3, SidewaysKeeps DEF manager
<1>4. CASE ArrowDown \/ ArrowUp
  BY <1>2, <1>4, ArrowSelects DEF Shapes
<1>5. CASE TimePasses
  BY <1>2, <1>5 DEF TimePasses
<1> QED
  BY <1>1, <1>3, <1>4, <1>5, Steps

\* Every step keeps each line in one hand or in its one place.
LEMMA PlacedStep ==
    ASSUME Shapes, KeysOnce, Held, Placed, [Next]_vars
    PROVE  Held' /\ Placed'
<1> USE DEF Shapes
<1>1. CASE ended # "no"
  BY <1>1, EndIsFinal DEF Held, Placed
<1>2. CASE ended' # "no"
  BY <1>2 DEF Held, Placed
<1>3. CASE ReadLine
  <2>1. /\ ended = "no" /\ ended' = ended /\ flows' = flows
        /\ Taken \in 0..(MaxLines - 1) /\ Taken' = Taken + 1
        /\ \A n \in 1..MaxLines : InHand(n)' <=> InHand(n) \/ n = Taken'
    BY <1>3, LineRead
  <2>2. ASSUME NEW n \in 1..MaxLines
        PROVE  IF n > Taken' \/ InHand(n)' THEN SamplesOf(n)' = {} ELSE Stored(n)'
    <3>1. SamplesOf(n)' = SamplesOf(n) /\ Stored(n)' = Stored(n)
      BY <2>1 DEF SamplesOf, Stored
    <3>2. IF n > Taken \/ InHand(n) THEN SamplesOf(n) = {} ELSE Stored(n)
      BY <2>1 DEF Placed
    <3>3. n > Taken' \/ InHand(n)' <=> n > Taken \/ InHand(n)
      BY <2>1, SimulatorAssumption
    <3> QED
      BY <3>1, <3>2, <3>3
  <2>3. Placed'
    BY <2>2 DEF Placed
  <2> QED
    BY <1>3, <2>3, LineRead
<1>4. CASE ended = "no" /\ ended' = "no" /\ Taken' = Taken /\ Handed
           /\ ~(Running /\ \E a \in appenders : AppenderAppends(a))
  <2>1. Held' /\ \A n : InHand(n)' = InHand(n)
    BY <1>4, HandedKeeps
  <2>2. ASSUME NEW n \in 1..MaxLines
        PROVE  IF n > Taken' \/ InHand(n)' THEN SamplesOf(n)' = {} ELSE Stored(n)'
    <3>1. SamplesOf(n)' = SamplesOf(n) /\ (Stored(n) => Stored(n)')
      BY <1>4, SamplesStay
    <3>2. IF n > Taken \/ InHand(n) THEN SamplesOf(n) = {} ELSE Stored(n)
      BY <1>4 DEF Placed
    <3> QED
      BY <1>4, <2>1, <3>1, <3>2
  <2> QED
    BY <2>1, <2>2 DEF Placed
<1>5. CASE ended = "no" /\ Running /\ \E a \in appenders : AppenderAppends(a)
  <2>1. PICK a \in appenders : AppenderAppends(a)
    BY <1>5
  <2>2. Taken' = Taken
    <3>1. UNCHANGED <<source, reader, ended>>
      BY <2>1 DEF AppenderAppends
    <3> QED
      BY <1>5, <3>1, ElsewhereKeeps DEF Elsewhere
  <2>3. a.at = "append" /\ a.flow \in DOMAIN flows /\ a.line \in Lines
    BY <2>1, AppenderFacts DEF AppenderAppends
  <2>4. /\ Held' /\ InHand(a.line.n) /\ ~InHand(a.line.n)'
        /\ \A n : n # a.line.n => InHand(n)' = InHand(n)
    BY <1>5, <2>1, <2>2, LineAppended
  <2>5. /\ DOMAIN flows' = DOMAIN flows
        /\ \A i \in DOMAIN flows : flows'[i].key = flows[i].key
    BY <2>1, <2>3, AppendSampleFacts
  <2>6. ASSUME NEW n \in 1..MaxLines
        PROVE  IF n > Taken' \/ InHand(n)' THEN SamplesOf(n)' = {} ELSE Stored(n)'
    <3>1. IF n > Taken \/ InHand(n) THEN SamplesOf(n) = {} ELSE Stored(n)
      BY <1>5 DEF Placed
    <3>2. CASE n = a.line.n
      <4> DEFINE s == <<a.flow, Len(flows[a.flow].samples) + 1>>
      <4>1. SamplesOf(n)' = {s}
        BY <2>1, <2>3, <2>4, <3>1, <3>2, AppendedSamples
      <4>2. s[1] = a.flow
        OBVIOUS
      <4> HIDE DEF s
      <4>3. flows'[s[1]].key = a.line.key
        BY <2>1, <2>3, <2>5, <4>2 DEF KeysOnce
      <4>4. a.line = generator(n - 1) /\ n \in 1..Taken
        BY <1>5, <2>1, <3>2 DEF Held
      <4>5. Stored(n)'
        BY <4>1, <4>3, <4>4 DEF Stored
      <4>6. ~(n > Taken')
        BY <1>5, <2>2, <4>4 DEF Piped
      <4> QED
        BY <2>4, <3>2, <4>5, <4>6
    <3>3. CASE n # a.line.n
      <4>1. SamplesOf(n)' = SamplesOf(n)
        BY <2>1, <2>3, <3>3, AppendedSamples
      <4>2. \A s \in SamplesOf(n) : s[1] \in DOMAIN flows
        BY InSamples DEF SamplesOf
      <4>3. Stored(n) => Stored(n)'
        BY <2>5, <4>1, <4>2 DEF Stored
      <4> QED
        BY <2>2, <2>4, <3>1, <3>3, <4>1, <4>3
    <3> QED
      BY <3>2, <3>3
  <2> QED
    BY <2>4, <2>6 DEF Placed
<1>6. ended = "no" => (Taken' = Taken \/ ReadLine)
  BY SourceStep
<1> QED
  BY <1>1, <1>2, <1>3, <1>4, <1>5, <1>6, HandedSteps

\* The lines in the pipe are those that were not taken out.
LEMMA PipeNumbers ==
    ASSUME SourceOK, Piped, ended = "no", NEW n \in 1..(index + 1)
    PROVE  n \in 1..MaxLines /\ (InPipe(n) <=> n > Taken)
<1>1. /\ DOMAIN pipe = 1..Len(pipe) /\ Len(pipe) \in Nat /\ HeadAt \in {0, 1}
      /\ HeadAt <= Len(pipe)
  BY PipeFacts
<1>2. /\ index \in -1..MaxLines /\ index < MaxLines /\ MaxLines \in Nat
      /\ Taken \in Nat /\ Taken = index + 1 - (Len(pipe) - HeadAt)
      /\ \A k \in DOMAIN pipe : k > HeadAt => pipe[k] = generator(index + k - Len(pipe))
  BY SimulatorAssumption DEF SourceOK, Piped, Taken
<1>3. n \in 1..MaxLines
  BY <1>2
<1>4. ASSUME NEW k \in DOMAIN pipe, k > HeadAt
      PROVE  /\ pipe[k] # HEADLINE
             /\ pipe[k].n = index + k - Len(pipe) + 1
  <2>1. index + k - Len(pipe) \in 0..MaxLines
    BY <1>1, <1>2, <1>4
  <2> QED
    BY <1>2, <1>4, <2>1, GeneratorLine
<1>5. ASSUME NEW k \in DOMAIN pipe, ~(k > HeadAt)
      PROVE  pipe[k] = HEADLINE
  <2>1. HeadAt = 1 /\ k = 1
    BY <1>1, <1>5
  <2>2. reader.at = "header" /\ pipe # <<>>
    BY <2>1 DEF HeadAt
  <2> QED
    BY <2>1, <2>2 DEF Piped
<1>6. InPipe(n) => n > Taken
  <2>1. ASSUME NEW k \in DOMAIN pipe, pipe[k] # HEADLINE, pipe[k].n = n
        PROVE  n > Taken
    <3>1. k > HeadAt
      BY <1>5, <2>1
    <3>2. n = index + k - Len(pipe) + 1
      BY <1>4, <2>1, <3>1
    <3> QED
      BY <1>1, <1>2, <3>1, <3>2
  <2> QED
    BY <2>1 DEF InPipe
<1>7. n > Taken => InPipe(n)
  <2> DEFINE k == n - 1 - index + Len(pipe)
  <2>1. n > Taken => k \in 1..Len(pipe) /\ k > HeadAt
    BY <1>1, <1>2
  <2>2. n = index + k - Len(pipe) + 1
    BY <1>1, <1>2
  <2> HIDE DEF k
  <2>3. n > Taken => k \in DOMAIN pipe /\ pipe[k] # HEADLINE /\ pipe[k].n = n
    BY <1>1, <1>4, <2>1, <2>2
  <2> QED
    BY <2>3 DEF InPipe
<1> QED
  BY <1>3, <1>6, <1>7

\* Then nothing is lost.
LEMMA NothingLostNow ==
    ASSUME Shapes, KeysOnce, Placed
    PROVE  NothingLost
<1> USE DEF Shapes
<1>1. \A i \in DOMAIN flows : Holding(flows, flows[i].key) = {i}
  BY DEF KeysOnce, Holding
<1>2. ASSUME ended = "no", NEW n \in 1..(index + 1)
      PROVE  /\ Cardinality(SamplesOf(n)) = IF InPipe(n) \/ InHand(n) THEN 0 ELSE 1
             /\ \A s \in SamplesOf(n) : flows[s[1]].key = generator(n - 1).key
  <2>1. n \in 1..MaxLines /\ (InPipe(n) <=> n > Taken)
    BY <1>2, PipeNumbers
  <2>2. IF InPipe(n) \/ InHand(n) THEN SamplesOf(n) = {} ELSE Stored(n)
    BY <1>2, <2>1 DEF Placed
  <2>3. CASE InPipe(n) \/ InHand(n)
    BY <2>2, <2>3, FS_EmptySet
  <2>4. CASE ~(InPipe(n) \/ InHand(n))
    <3>1. PICK s \in SamplesOf(n) :
                SamplesOf(n) = {s} /\ flows[s[1]].key = generator(n - 1).key
      BY <2>2, <2>4 DEF Stored
    <3>2. Cardinality({s}) = 1
      BY FS_Singleton
    <3>3. Cardinality(SamplesOf(n)) = 1
      BY <3>1, <3>2
    <3>4. \A t \in SamplesOf(n) : flows[t[1]].key = generator(n - 1).key
      BY <3>1
    <3> QED
      BY <2>4, <3>3, <3>4
  <2> QED
    BY <2>3, <2>4
<1> QED
  BY <1>1, <1>2 DEF NothingLost

\* At first every line that was printed is in its place.
LEMMA PlacedStart == DrshowInit => KeysOnce /\ Held /\ Placed
<1> SUFFICES ASSUME DrshowInit PROVE KeysOnce /\ Held /\ Placed
  OBVIOUS
<1>1. PICK start \in Starts :
        /\ StartAt(start)
        /\ \A i, j \in DOMAIN flows : flows[i].key = flows[j].key => i = j
        /\ start.printed = index + 1
        /\ start.printed \in IF flows = <<>> THEN {0} ELSE 0..MaxLines
        /\ \A n \in 1..MaxLines :
             IF n <= start.printed
             THEN \E s \in SamplesOf(n) :
                     SamplesOf(n) = {s} /\ flows[s[1]].key = generator(n - 1).key
             ELSE SamplesOf(n) = {}
  BY StartFacts
<1>2. reader.at \in {"header", "read"} /\ appenders = {} /\ pipe = <<>> /\ ended = "no"
  BY <1>1 DEF StartAt, DrshowInit
<1>3. Taken = start.printed /\ start.printed \in 0..MaxLines
  <2>1. HeadAt = 0 /\ Len(pipe) = 0
    BY <1>2 DEF HeadAt
  <2>2. start.printed \in 0..MaxLines /\ index + 1 = start.printed
    BY <1>1, SimulatorAssumption
  <2> QED
    BY <2>1, <2>2 DEF Taken
<1>4. KeysOnce
  BY <1>1, <1>2 DEF KeysOnce
<1>5. Held
  BY <1>2 DEF Held, HasLine
<1>6. ASSUME NEW n \in 1..MaxLines
      PROVE  IF n > Taken \/ InHand(n) THEN SamplesOf(n) = {} ELSE Stored(n)
  <2>1. ~InHand(n)
    BY <1>2 DEF InHand, HasRead
  <2>2. n > Taken <=> ~(n <= start.printed)
    BY <1>3, SimulatorAssumption
  <2> QED
    BY <1>1, <2>1, <2>2 DEF Stored
<1> QED
  BY <1>4, <1>5, <1>6 DEF Placed

(***************************************************************************)
(* Every line that has left the pipe is in one hand or one sample of the   *)
(* only flow with its end points, for any number of lines, end points and  *)
(* goroutines that overtake each other.                                    *)
(***************************************************************************)
THEOREM LinesCorrect == Spec => []NothingLost
<1>1. DrshowInit => KeysOnce /\ Held /\ Placed
  BY PlacedStart
<1>2. Shapes /\ (KeysOnce /\ Held /\ Placed) /\ [Next]_vars => (KeysOnce /\ Held /\ Placed)'
  BY KeysStep, PlacedStep
<1>3. Shapes /\ (KeysOnce /\ Held /\ Placed) => NothingLost
  BY NothingLostNow
<1> QED
  BY <1>1, <1>2, <1>3, ShapesCorrect, PTL DEF Spec

=============================================================================

--------------------------- MODULE DrplaySimulator ---------------------------
(***************************************************************************)
(* scripts/drplay_simulator.py, the stand-in for drplay at the head of a   *)
(* pipe: it prints the head line and then its recorded lines, round and    *)
(* round, each with the time of its printing.  The head line is printed    *)
(* without a flush: it reaches the pipe together with the first line.      *)
(*                                                                         *)
(* A line is [n, key, load]: n counts the lines and stands for the         *)
(* timestamp, key for the end points of the flow, load for whether its     *)
(* load is above 0.  The pauses between lines are left out.                *)
(***************************************************************************)
EXTENDS Integers, Sequences

CONSTANTS
    DATA,        \* the recorded lines: a sequence of [key, load]
    HEADLINE,    \* the head line
    PipeSize,    \* how many lines fit into the pipe
    MaxLines     \* bound: how many lines are printed

ASSUME SimulatorAssumption ==
    /\ DATA # <<>>
    /\ PipeSize \in Nat \ {0, 1}
    /\ MaxLines \in Nat

VARIABLES
    simulator,   \* where main() stands
    index,       \* index of generator(), -1 before its first line
    stdout,      \* what print has not flushed yet
    pipe         \* the lines in the pipe

source == <<simulator, index, stdout, pipe>>

(***************************************************************************)
(* The line generator() yields at an index.                                *)
(***************************************************************************)
generator(i) ==
    LET row == DATA[(i % Len(DATA)) + 1]
    IN  [n |-> i + 1, key |-> row.key, load |-> row.load]

\* The head line is none of the recorded ones.
ASSUME HeadlineAssumption == \A i \in 0..MaxLines : generator(i) # HEADLINE

PrintHeadline ==
    /\ simulator = "headline"
    /\ simulator' = "lines"
    /\ stdout' = <<HEADLINE>>
    /\ UNCHANGED <<index, pipe>>

PrintLine(broken) ==
    /\ simulator = "lines"
    /\ ~broken
    /\ index + 1 < MaxLines
    /\ Len(pipe \o stdout) < PipeSize
    /\ index' = index + 1
    /\ pipe' = pipe \o stdout \o <<generator(index')>>
    /\ stdout' = <<>>
    /\ UNCHANGED simulator

(***************************************************************************)
(* print meets a pipe nobody reads: stdout is led to /dev/null and the     *)
(* simulator exits with 1.                                                 *)
(***************************************************************************)
BrokenPipe(broken) ==
    /\ simulator = "lines"
    /\ broken
    /\ simulator' = "exited"
    /\ index' = index + 1
    /\ stdout' = <<>>
    /\ UNCHANGED pipe

(***************************************************************************)
(* It has no other end of its own: somebody kills it.                      *)
(***************************************************************************)
Killed ==
    /\ simulator # "exited"
    /\ simulator' = "exited"
    /\ stdout' = <<>>
    /\ UNCHANGED <<index, pipe>>

Simulator(broken) == PrintHeadline \/ PrintLine(broken) \/ BrokenPipe(broken)

=============================================================================

---------------------------- MODULE SampleStore ----------------------------
(***************************************************************************)
(* What a Persistence promises for the samples it has accepted: the ones   *)
(* of a kind stay together until a commit makes all of them durable or, if *)
(* it fails, drops all of them.  None is dropped otherwise, none is stored *)
(* twice and none comes back.                                              *)
(***************************************************************************)
EXTENDS Naturals

CONSTANTS Kinds,     \* the kinds of samples, each in transactions of its own
          Samples

VARIABLES pending,   \* accepted, not committed
          durable,   \* committed
          dropped    \* gone with a commit that failed

vars == <<pending, durable, dropped>>

-----------------------------------------------------------------------------

Known == UNION {pending[k] \cup durable[k] \cup dropped[k] : k \in Kinds}

Init ==
    /\ pending = [k \in Kinds |-> {}]
    /\ durable = [k \in Kinds |-> {}]
    /\ dropped = [k \in Kinds |-> {}]

Accept(k, s) ==
    /\ s \notin Known
    /\ pending' = [pending EXCEPT ![k] = @ \cup {s}]
    /\ UNCHANGED <<durable, dropped>>

Flush(k) ==
    /\ durable' = [durable EXCEPT ![k] = @ \cup pending[k]]
    /\ pending' = [pending EXCEPT ![k] = {}]
    /\ UNCHANGED dropped

Drop(k) ==
    /\ dropped' = [dropped EXCEPT ![k] = @ \cup pending[k]]
    /\ pending' = [pending EXCEPT ![k] = {}]
    /\ UNCHANGED durable

Next == \E k \in Kinds : (\E s \in Samples : Accept(k, s)) \/ Flush(k) \/ Drop(k)

Spec == Init /\ [][Next]_vars

=============================================================================

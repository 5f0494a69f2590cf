------------------------ MODULE TrafficControlProofs ------------------------
(***************************************************************************)
(* What TrafficControl promises, for every history of sessions, refused    *)
(* commands and kills.  InitReady and its companions speak of the end of   *)
(* Init and Close only; Inv says what each step has achieved by then.      *)
(***************************************************************************)
EXTENDS TrafficControl, TLAPS

\* The marking is complete once CreateNftRuleECT is through.
Marked ==
    /\ At("create") => premarking
    /\ step \in {"validate", "reset", "add", "open", "ready"} =>
           premark = IF premarking THEN Commands ELSE 0

\* The root qdisc is the default one until the janz qdisc is added.
Rooted ==
    /\ step \in {"add", "close_file", "closed"} => qdisc = "default"
    /\ step \in {"open", "ready"} => qdisc = "janz"

\* The control file is opened last and closed last.
Opened ==
    /\ step \in {"init", "create", "validate", "reset", "add", "open", "failed"} =>
           control_file = "nil"
    /\ At("ready") => control_file = "open"
    /\ At("closed") => control_file # "open"

Inv == TypeOK /\ Marked /\ Rooted /\ Opened /\ InitBlame

-----------------------------------------------------------------------------

(***************************************************************************)
(* Whatever an earlier session has left in the kernel, Inv holds at first. *)
(***************************************************************************)
LEMMA InitInv == Init => Inv
BY DEF Init, Inv, TypeOK, Marked, Rooted, Opened, InitBlame, At, Steps, Commands

(***************************************************************************)
(* A new session, after Close or after a kill, starts from any kernel.     *)
(***************************************************************************)
LEMMA NewSessionInv == Inv /\ NewSession => Inv'
BY DEF Inv, NewSession, New, Goto, TypeOK, Marked, Rooted, Opened, InitBlame, At,
       Steps, Commands, kernel

(***************************************************************************)
(* The marking: ResetECTMarking and the commands of CreateNftRuleECT.      *)
(***************************************************************************)
LEMMA MarkingInv == Inv /\ (InitMarking \/ InitCreate) => Inv'
<1>1. ASSUME Inv, InitMarking PROVE Inv'
  BY <1>1 DEF Inv, InitMarking, ResetECTMarking, Goto, At, TypeOK, Marked, Rooted,
              Opened, InitBlame, Steps, Commands
<1>2. ASSUME Inv, InitCreate PROVE Inv'
  BY <1>2 DEF Inv, InitCreate, AddRule, Goto, At, TypeOK, Marked, Rooted,
              Opened, InitBlame, Steps, Commands
<1>3. QED
  BY <1>1, <1>2

(***************************************************************************)
(* The rest of Init.                                                       *)
(***************************************************************************)
LEMMA InitStepInv == Inv /\ InitStep => Inv'
<1> SUFFICES ASSUME Inv, InitStep PROVE Inv'
  OBVIOUS
<1> USE DEF Inv, Goto, At, TypeOK, Marked, Rooted, Opened, InitBlame, Steps, Commands, kernel
<1>1. CASE InitMarking \/ InitCreate
  BY <1>1, MarkingInv
<1>2. CASE InitRefused
  BY <1>2 DEF InitRefused
<1>3. CASE InitValidate
  BY <1>3 DEF InitValidate
<1>4. CASE InitReset
  BY <1>4 DEF InitReset, Reset
<1>5. CASE InitAdd
  <2>1. qdisc = "default"
    BY <1>5 DEF InitAdd
  <2>2. QED
    BY <1>5, <2>1 DEF InitAdd, AddQdisc
<1>6. CASE InitOpen
  BY <1>6 DEF InitOpen
<1>7. QED
  BY <1>1, <1>2, <1>3, <1>4, <1>5, <1>6 DEF InitStep

(***************************************************************************)
(* Close, from a session that is ready and from one that has failed.       *)
(***************************************************************************)
LEMMA CloseInv == Inv /\ Close => Inv'
BY DEF Inv, Close, CloseKernel, CloseFile, Goto, At, TypeOK, Marked, Rooted, Opened,
       InitBlame, Steps, Commands, kernel

(***************************************************************************)
(* Inv is inductive.                                                       *)
(***************************************************************************)
LEMMA Invariance == Spec => []Inv
<1>1. Inv /\ [Next]_vars => Inv'
  <2> SUFFICES ASSUME Inv, [Next]_vars PROVE Inv'
    OBVIOUS
  <2>1. CASE InitStep
    BY <2>1, InitStepInv
  <2>2. CASE Close
    BY <2>2, CloseInv
  <2>3. CASE Again \/ Kill
    BY <2>3, NewSessionInv DEF Again, Kill
  <2>4. CASE UNCHANGED vars
    BY <2>4 DEF vars, kernel, program, Inv, TypeOK, Marked, Rooted, Opened, InitBlame, At
  <2>5. QED
    BY <2>1, <2>2, <2>3, <2>4 DEF Next
<1>2. QED
  BY InitInv, <1>1, PTL DEF Spec

-----------------------------------------------------------------------------

(***************************************************************************)
(* CreateNftRuleECT is never started over a table that is still there, and *)
(* all fields keep their types.                                            *)
(***************************************************************************)
THEOREM TypeCorrect == Spec => []TypeOK
<1>1. Inv => TypeOK
  BY DEF Inv
<1>2. QED
  BY Invariance, <1>1, PTL

(***************************************************************************)
(* A session that starts has the qdisc, the control file and the marking   *)
(* it asked for, whatever was in the kernel before.                        *)
(***************************************************************************)
THEOREM ReadyCorrect == Spec => []InitReady
<1>1. Inv => InitReady
  BY DEF Inv, Marked, Rooted, Opened, InitReady, At
<1>2. QED
  BY Invariance, <1>1, PTL

(***************************************************************************)
(* Init fails only for invalid parameters or a command that was refused.   *)
(***************************************************************************)
THEOREM BlameCorrect == Spec => []InitBlame
<1>1. Inv => InitBlame
  BY DEF Inv
<1>2. QED
  BY Invariance, <1>1, PTL

(***************************************************************************)
(* Close restores the default qdisc and leaves no control file open.       *)
(***************************************************************************)
THEOREM CloseCorrect == Spec => []CloseRestores
<1>1. Inv => CloseRestores
  BY DEF Inv, Rooted, Opened, CloseRestores, At
<1>2. QED
  BY Invariance, <1>1, PTL

=============================================================================

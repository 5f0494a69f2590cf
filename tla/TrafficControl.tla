--------------------------- MODULE TrafficControl ---------------------------
(***************************************************************************)
(* pkg/drp_player/trafficcontrol: what Init, Close and ChangeTo do to the  *)
(* kernel through nft, tc and the control file of the janz qdisc.  Every   *)
(* external command is a step of its own and may fail.                     *)
(*                                                                         *)
(* The kernel outlives the program: its tables and qdiscs are still there  *)
(* when the program was killed, and the next session finds them.           *)
(*                                                                         *)
(* Kernel   premark      the nft table assets.NFT_TABLE_PREMARK: 0 when it *)
(*                       is absent, n when the first n of the commands of  *)
(*                       CreateNftRuleECT have built it                    *)
(*          qdisc        the root qdisc of the device                      *)
(* Program  control_file the field of that name                            *)
(*          nft          the field nft.L4sPremarking                       *)
(*          step         where Init or Close stands, or how it returned    *)
(*          premarking   Init's argument nft.L4sPremarking                 *)
(*          valid        does params.validate() accept the parameters      *)
(* History  refused      has a command been refused since Init was called  *)
(***************************************************************************)
EXTENDS Naturals

VARIABLES premark, qdisc, control_file, nft, step, premarking, valid, refused

kernel == <<premark, qdisc>>
program == <<control_file, nft, step, premarking, valid, refused>>
vars == <<kernel, program>>

\* table, two chains, two rules
Commands == 5

-----------------------------------------------------------------------------
(* The external commands.                                                  *)

\* ResetECTMarking: deletes the table; that it did not exist is only logged.
ResetECTMarking == premark' = 0 /\ UNCHANGED qdisc

\* One command of CreateNftRuleECT.
AddRule == premark' = premark + 1 /\ UNCHANGED qdisc

\* Reset: tc qdisc delete dev <dev> root
Reset == qdisc' = "default" /\ UNCHANGED premark

\* tc qdisc add dev <dev> root ... janz: refused over another root qdisc.
AddQdisc == qdisc = "default" /\ qdisc' = "janz" /\ UNCHANGED premark

-----------------------------------------------------------------------------
(* Init                                                                    *)

At(s) == step = s
Goto(s) == step' = s

\* NewTrafficControl: all fields but dev have their zero value.
New ==
    /\ control_file' = "nil"
    /\ nft' = FALSE

\* Slip (TypeOK): the table of an earlier session is not deleted.
InitMarkingOnTop ==
    /\ At("init")
    /\ Goto(IF premarking THEN "create" ELSE "validate")
    /\ UNCHANGED <<kernel, control_file, nft, premarking, valid, refused>>

\* Slip (InitReady): it is deleted only by a session that marks itself.
InitMarkingOwn ==
    /\ At("init")
    /\ premark' = IF premarking THEN 0 ELSE premark
    /\ Goto(IF premarking THEN "create" ELSE "validate")
    /\ UNCHANGED <<qdisc, control_file, nft, premarking, valid, refused>>

\* Init is called: ResetECTMarking comes first.
InitMarking ==
    /\ At("init")
    /\ ResetECTMarking
    /\ Goto(IF premarking THEN "create" ELSE "validate")
    /\ UNCHANGED <<control_file, nft, premarking, valid, refused>>

InitCreate ==
    /\ At("create")
    /\ AddRule
    /\ Goto(IF premark' = Commands THEN "validate" ELSE "create")
    /\ UNCHANGED <<control_file, nft, premarking, valid, refused>>

\* A refused command ends Init with its error; nothing is undone.
InitRefused ==
    /\ step \in {"create", "add", "open"}
    /\ Goto("failed")
    /\ refused' = TRUE
    /\ UNCHANGED <<kernel, control_file, nft, premarking, valid>>

InitValidate ==
    /\ At("validate")
    /\ Goto(IF valid THEN "reset" ELSE "failed")
    /\ UNCHANGED <<kernel, control_file, nft, premarking, valid, refused>>

\* Slip (InitBlame): the qdisc of an earlier session is not deleted.
InitResetForgotten ==
    /\ At("reset")
    /\ Goto("add")
    /\ UNCHANGED <<kernel, control_file, nft, premarking, valid, refused>>

\* The error of this Reset is only logged.
InitReset ==
    /\ At("reset")
    /\ Reset
    /\ Goto("add")
    /\ UNCHANGED <<control_file, nft, premarking, valid, refused>>

InitAdd ==
    /\ At("add")
    /\ IF qdisc = "default"
       THEN AddQdisc /\ Goto("open")
       ELSE UNCHANGED kernel /\ Goto("failed")
    /\ UNCHANGED <<control_file, nft, premarking, valid, refused>>

InitOpen ==
    /\ At("open")
    /\ control_file' = "open"
    /\ Goto("ready")
    /\ UNCHANGED <<kernel, nft, premarking, valid, refused>>

InitStep ==
    \/ InitMarking
    \/ InitCreate
    \/ InitRefused
    \/ InitValidate
    \/ InitReset
    \/ InitAdd
    \/ InitOpen

-----------------------------------------------------------------------------
(* Close and ChangeTo                                                      *)

\* Slip (CloseRestores): the qdisc is only reset for a file that is open.
CloseKernelOfReady ==
    /\ premark' = IF nft THEN 0 ELSE premark
    /\ qdisc' = IF control_file = "open" THEN "default" ELSE qdisc

\* Close, up to the qdisc: the marking table goes first if the field nft
\* says so.  No statement of the program assigns that field.
CloseKernel ==
    /\ premark' = IF nft THEN 0 ELSE premark
    /\ qdisc' = "default"

\* Close, the control file: closing a nil or closed file is an error that
\* is only logged.
CloseFile == control_file' = IF control_file = "open" THEN "closed" ELSE control_file

\* ChangeTo writes the rate; the write needs an open file.
CanWrite == control_file = "open"

-----------------------------------------------------------------------------
(* One session after the other, each as the comments on Init and Close ask *)
(* for: Init, and whatever it returns, Close.  The program may be killed   *)
(* at any step; the next session then finds the kernel as it is.           *)

\* The kernel is as it was left by anyone.
Init ==
    /\ premark \in 0..Commands
    /\ qdisc \in {"default", "janz"}
    /\ control_file = "nil"
    /\ nft = FALSE
    /\ step = "init"
    /\ premarking \in BOOLEAN
    /\ valid \in BOOLEAN
    /\ refused = FALSE

Close ==
    \/ /\ step \in {"ready", "failed"}
       /\ CloseKernel
       /\ Goto("close_file")
       /\ UNCHANGED <<control_file, nft, premarking, valid, refused>>
    \/ /\ At("close_file")
       /\ CloseFile
       /\ Goto("closed")
       /\ UNCHANGED <<kernel, nft, premarking, valid, refused>>

NewSession ==
    /\ New
    /\ Goto("init")
    /\ premarking' \in BOOLEAN
    /\ valid' \in BOOLEAN
    /\ refused' = FALSE
    /\ UNCHANGED kernel

\* After a Close another session may follow, in this program or the next.
Again == At("closed") /\ NewSession

\* SIGKILL or a panic in another goroutine.
Kill == ~At("closed") /\ NewSession

Next == InitStep \/ Close \/ Again \/ Kill

Spec == Init /\ [][Next]_vars

-----------------------------------------------------------------------------

Steps == {"init", "create", "validate", "reset", "add", "open",
          "ready", "failed", "close_file", "closed"}

(***************************************************************************)
(* The types, and how far CreateNftRuleECT has got at each step.           *)
(***************************************************************************)
TypeOK ==
    /\ premark \in 0..Commands
    /\ qdisc \in {"default", "janz"}
    /\ control_file \in {"nil", "open", "closed"}
    /\ nft \in BOOLEAN
    /\ step \in Steps
    /\ premarking \in BOOLEAN
    /\ valid \in BOOLEAN
    /\ refused \in BOOLEAN
    /\ At("create") => premark < Commands

(***************************************************************************)
(* "Init sets NFT and TC to workable state, connects to custom qdisc": a   *)
(* session that starts has the janz qdisc, an open control file and the    *)
(* marking it asked for, complete or not at all, whatever an earlier       *)
(* session or a killed one left in the kernel.                             *)
(***************************************************************************)
InitReady ==
    At("ready") =>
        /\ qdisc = "janz"
        /\ control_file = "open"
        /\ premark = IF premarking THEN Commands ELSE 0

(***************************************************************************)
(* Init fails only for a reason of its own: invalid parameters or a        *)
(* command that was refused, never because of a qdisc left behind.         *)
(***************************************************************************)
InitBlame == At("failed") => ~valid \/ refused

(***************************************************************************)
(* After Close the device has its default qdisc back and no control file   *)
(* is held open, also when Init had failed half way.                       *)
(***************************************************************************)
CloseRestores == At("closed") => qdisc = "default" /\ control_file # "open"

(***************************************************************************)
(* "Closes all open contexts; Resets NFT_TABLE, tc markings etc.": after   *)
(* Close no premarking is left.  It is violated: Close asks tc.nft, which  *)
(* Init never sets.                                                        *)
(***************************************************************************)
CloseResetsMarking == At("closed") => premark = 0

=============================================================================

---------------------------- MODULE MCProtocols ----------------------------
(***************************************************************************)
(* The file transfer protocols side by side: a behaviour is one transfer   *)
(* of one protocol, chosen in Init.  The four modules share the variables  *)
(* of the line and of its two ends; setup is only used by TFTP.            *)
(***************************************************************************)
EXTENDS Naturals, Sequences

CONSTANTS Faults,       \* faults of one XMODEM, YMODEM or ZMODEM transfer
          FewFaults,    \* faults of one TFTP transfer
          FileBlocks, Modulus, BlockTries, FirstTries  \* of XMODEM

VARIABLES protocol, setup, snd, rcv, cancelled, fwd, bwd, faults, stale

protocolvars == <<protocol, setup, snd, rcv, cancelled, fwd, bwd, faults, stale>>

(* Block numbers wrap within the longest file of each protocol.            *)
(* XMODEM is taken with its proofs, so that they are about the actions     *)
(* below.                                                                  *)
X == INSTANCE XModemProofs WITH MaxFaults <- Faults, Blocks <- FileBlocks, SeqMod <- Modulus,
                                MaxRetries <- BlockTries, InitTries <- FirstTries,
                                Modes <- <<"crc16", "checksum">>
Y == INSTANCE YModem WITH MaxFaults <- Faults, Files <- 2, BlocksOf <- <<5, 1>>, BigBlocks <- TRUE,
                          SeqMod <- 4, MaxRetries <- 3, InitTries <- 2
Z == INSTANCE ZModem WITH MaxFaults <- Faults, Files <- 2, BlocksOf <- <<2, 1>>, MaxRetries <- 3
T == INSTANCE Tftp WITH MaxFaults <- FewFaults, FileSizes <- {0, 1, 5}, SeqMod <- 5, WindowSize <- 2,
                        Rollovers <- {"none", "enforce0", "enforce1"}, MaxRetries <- 1

Delivery == INSTANCE OrderedDelivery
    WITH File <- X!Payload,
         stored <- IF protocol = "xmodem" THEN rcv.data ELSE <<>>,
         verdict <- IF protocol = "xmodem" THEN X!Verdict ELSE "running"

NoSetup == setup = [dir |-> "none", n |-> 0, roll |-> "none"]

ProtocolsInit ==
    \/ protocol = "xmodem" /\ NoSetup /\ X!Init
    \/ protocol = "ymodem" /\ NoSetup /\ Y!Init
    \/ protocol = "zmodem" /\ NoSetup /\ Z!Init
    \/ protocol = "tftp" /\ T!Init

SndStep ==
    /\ UNCHANGED protocol
    /\ \/ protocol = "xmodem" /\ X!SndStep /\ UNCHANGED setup
       \/ protocol = "ymodem" /\ Y!SndStep /\ UNCHANGED setup
       \/ protocol = "zmodem" /\ Z!SndStep /\ UNCHANGED setup
       \/ protocol = "tftp" /\ T!SndStep

RcvStep ==
    /\ UNCHANGED protocol
    /\ \/ protocol = "xmodem" /\ X!RcvStep /\ UNCHANGED setup
       \/ protocol = "ymodem" /\ Y!RcvStep /\ UNCHANGED setup
       \/ protocol = "zmodem" /\ Z!RcvStep /\ UNCHANGED setup
       \/ protocol = "tftp" /\ T!RcvStep

Fault ==
    /\ UNCHANGED <<protocol, setup>>
    /\ \/ protocol = "xmodem" /\ X!LineFault
       \/ protocol = "ymodem" /\ Y!LineFault
       \/ protocol = "zmodem" /\ Z!LineFault
       \/ protocol = "tftp" /\ T!LineFault

Cancel ==
    /\ UNCHANGED <<protocol, setup>>
    /\ \/ \E side \in {"snd", "rcv"} :
              \/ protocol = "xmodem" /\ X!Cancel(side)
              \/ protocol = "ymodem" /\ Y!Cancel(side)
              \/ protocol = "zmodem" /\ Z!Cancel(side)
       \/ protocol = "tftp" /\ T!Abort

ProtocolsNext == SndStep \/ RcvStep \/ Fault \/ Cancel

(* Both ends are threads that are always run again: reads have timeouts    *)
(* and writes do not block for ever.                                       *)
ProtocolsSpec ==
    /\ ProtocolsInit /\ [][ProtocolsNext]_protocolvars
    /\ WF_protocolvars(SndStep) /\ WF_protocolvars(RcvStep)

------------------------------------------------------------------------------
(* XMODEM implements ordered delivery whatever the line does: the receiver *)
(* keeps blocks of the file in order, none missing and none twice, up to   *)
(* where it stops (the number checks of xmodem_receive, wrapping numbers,  *)
(* stale answers included).                                                *)
XmodemDeliversInOrder == Delivery!Spec

(* A transfer reported as completed is complete: the WholeFile property of *)
(* each protocol, under the faults that protocol's code answers.           *)
CompletedIsWhole ==
    /\ protocol = "xmodem" => X!WholeFile
    /\ protocol = "ymodem" => Y!WholeFile
    /\ protocol = "zmodem" => Z!WholeFile
    /\ protocol = "tftp" => T!WholeFile

(* Every transfer ends, on both sides, whatever is lost and whoever        *)
(* cancels: no retry loop of the four engines goes round for ever, and no  *)
(* two ends wait for each other for ever.  Only the ZMODEM receiver and an *)
(* idle TFTP server wait without a limit.                                  *)
Ended ==
    \/ protocol = "xmodem" /\ X!SndDone /\ X!RcvDone
    \/ protocol = "ymodem" /\ Y!Done(snd) /\ Y!Done(rcv)
    \/ protocol = "zmodem" /\ Z!Done(snd) /\ (Z!Done(rcv) \/ rcv.pc = "wait")
    \/ protocol = "tftp" /\ (T!SndDone \/ snd.pc = "listen") /\ (T!RcvDone \/ rcv.pc = "listen")

TransfersEnd == []<>Ended
=============================================================================

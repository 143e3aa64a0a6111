------------------------------ MODULE MCSimIos ------------------------------
(***************************************************************************)
(* A simulated I/O subsystem: a behaviour exercises its cluster, consoles  *)
(* and disks, or one of its Ethernet interfaces, whose packets to and from *)
(* the mainframe are counted in module Ethernet itself.                    *)
(*                                                                         *)
(* Subsystems with two drives on two channels; buffers of two requests.    *)
(***************************************************************************)
EXTENDS SimIos, Ethernet, TLC

VARIABLE part  \* the part this behaviour exercises

allVars == <<part, vars, ethVars>>

Drive(c, i, u) == [channel |-> c, iop |-> i, unit |-> u]
TwoDrives == {Drive(1, 0, 0), Drive(2, 0, 0)}
Req(t) == [type |-> t, drive |-> Drive(1, 0, 0)]
EReqs == {Req(t) : t \in {"read", "write", "clock", "string", "panic", "empty"}}
DReqs == {Req(t) : t \in {"read", "write", "string", "connect", "K"}}
Config(r, m, a) == [revision |-> r, master |-> m, auto |-> a]
ThreeConfigs == {Config("IOSE", TRUE, TRUE), Config("IOSE", FALSE, FALSE),
                 Config("IOSD", TRUE, TRUE)}

(* The part that is not exercised stays in one of its initial states. *)
IosInit ==
  /\ part \in {"cluster", "ethernet"}
  /\ Init /\ EthInit
  /\ part = "cluster" => ~present
  /\ part = "ethernet" => config = Config("IOSE", TRUE, TRUE)

InCluster(A) == part = "cluster" /\ A /\ UNCHANGED <<part, ethVars>>
InEthernet(A) == part = "ethernet" /\ A /\ UNCHANGED <<part, vars>>

IosNext == InCluster(Next) \/ InEthernet(EthNext)

(* FairSpec of SimIos and EthFairSpec. *)
IosFairness ==
  /\ WF_allVars(InCluster(Tick)) /\ WF_allVars(InCluster(ChannelTick))
  /\ WF_allVars(InCluster(ConsoleWritten)) /\ WF_allVars(InCluster(PrimeInput))
  /\ WF_allVars(InEthernet(MainThread)) /\ WF_allVars(InEthernet(Push))
  /\ WF_allVars(InEthernet(Consume)) /\ WF_allVars(InEthernet(Answers))

IosSpec == IosInit /\ [][IosNext]_allVars /\ IosFairness
=============================================================================

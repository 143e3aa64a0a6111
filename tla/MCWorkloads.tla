---------------------------- MODULE MCWorkloads ----------------------------
(* Two workloads of the two CPUs in one run. *)
EXTENDS MCSoftCpu

(* The guest keeps to one repertoire of instructions in a behaviour: the   *)
(* run's Insts, or that of the run's second workload.                      *)
VARIABLE workload

Workloads == {"first", "second"}

(* Contexts: exchanges and test-and-set, where only CPU 1 is interrupted   *)
(* by the other one (a bound), or exchanges and cluster changes, where     *)
(* both are.                                                               *)
OnlyCpu1Interrupted == "ICP" \notin latch'[0]
ClusterMoves == INSTANCE SoftCpu WITH Insts <- {"SIPI", "STORE", "EX", "CLN"}

(* Interrupts: the timer, channel and error interrupts of one CPU instead  *)
(* of master clear and the interrupts between two.                         *)
Timer == INSTANCE SoftCpu
  WITH Insts <- {"ERR", "EX", "PRE", "XA", "IOI", "MC", "CCI", "PCI", "ECI", "DCI",
                 "EFI", "DFI"},
       Limits <- {0, 3}, TimerIncrement <- 2

(* Liveness: error and program range interrupts, interrupts masked and     *)
(* exchange addresses changed, instead of semaphores and operand errors.   *)
Faults == INSTANCE SoftCpu
  WITH Insts <- {"EX", "IOI", "RESET", "ERR", "PRE", "XA", "EFI", "DFI"}

WorkloadInit == Init /\ workload \in Workloads

ContextsNext ==
  \/ workload = "first" /\ Next /\ OnlyCpu1Interrupted /\ UNCHANGED workload
  \/ workload = "second" /\ ClusterMoves!Next /\ UNCHANGED workload

InterruptsNext ==
  \/ workload = "first" /\ Next /\ UNCHANGED workload
  \/ workload = "second" /\ Timer!Next /\ UNCHANGED workload

LivenessNext ==
  \/ workload = "first" /\ Next /\ UNCHANGED workload
  \/ workload = "second" /\ Faults!Next /\ UNCHANGED workload

ContextsSpec == WorkloadInit /\ [][ContextsNext]_<<vars, workload>>
InterruptsSpec == WorkloadInit /\ [][InterruptsNext]_<<vars, workload>>

(* The fairness of FairSpec.  No step of Tick depends on the repertoire.   *)
LivenessSpec ==
  /\ WorkloadInit /\ [][LivenessNext]_<<vars, workload>>
  /\ \A c \in Cpus : /\ WF_<<vars, workload>>(Tick(c) /\ UNCHANGED workload)
                    /\ SF_<<vars, workload>>(EndBurst(c) /\ UNCHANGED workload)
=============================================================================

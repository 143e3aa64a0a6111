--------------------------- MODULE SoftCpuProofs ---------------------------
(***************************************************************************)
(* Proofs about SoftCpu, for every number of CPUs, clusters, semaphores    *)
(* and exchange packages.                                                  *)
(*                                                                         *)
(* The two theorems about contexts (ContextsInOnePlace, SemaphoresExclude) *)
(* hold of an operating system that never lets two CPUs exchange with the  *)
(* same package at a time, which is the hypothesis []PackagesApart: the    *)
(* code reads and overwrites a package in two steps and locks nothing.     *)
(***************************************************************************)
EXTENDS SoftCpu, FiniteSetTheorems, TLAPS

Timer == [count : Nat, limit : Nat, on : BOOLEAN]
Where == {"idle", "exchange", "xleave", "xjoin", "cleave", "cjoin", "run"}

-----------------------------------------------------------------------------
(* Type correctness *)

(* HandleCounters keeps the countdown a natural number: the test against   *)
(* the increment comes before the subtraction.                             *)
LEMMA HandleCountersType ==
  ASSUME NEW t \in Timer PROVE HandleCounters(t) \in Timer
BY ConstantsAssumption DEF HandleCounters, Timer

(* An update of a CPU's context by one of its own fields' values is a      *)
(* context.                                                                *)
LEMMA ContextUpdate ==
  ASSUME NEW u \in Context
  PROVE /\ \A x \in Slots : [u EXCEPT !.xa = x] \in Context
        /\ \A m \in SUBSET ModeBit : [u EXCEPT !.mode = m] \in Context
        /\ \A k \in 0 .. ClusterCnt : [u EXCEPT !.cluster = k] \in Context
        /\ \A p \in Sems \cup {NoSem} : [u EXCEPT !.p = p] \in Context
BY DEF Context

LEMMA BlankType == ASSUME NEW c \in Cpus PROVE Blank(c) \in Context
BY ConstantsAssumption DEF Blank, Context

(* What MirrorExternalInterrupts reports is a set of flags. *)
LEMMA MirrorType ==
  ASSUME TypeOK, NEW c \in Cpus PROVE MirrorExternalInterrupts(c) \in SUBSET Flag
BY DEF TypeOK, MirrorExternalInterrupts, Flag, Latched

(* An exchange address names a package, and a package holds a context. *)
LEMMA PackageType ==
  ASSUME TypeOK, NEW c \in Cpus
  PROVE ctx[c].xa \in Slots /\ mem[ctx[c].xa].ctx \in Context
<1>1. ctx[c] \in Context
  BY DEF TypeOK
<1>2. ctx[c].xa \in Slots
  BY <1>1 DEF Context
<1>3. mem[ctx[c].xa] \in Packet
  BY <1>2 DEF TypeOK
<1> QED
  BY <1>2, <1>3 DEF Packet

(* A cluster number other than 0 names a cluster. *)
LEMMA ClusterType ==
  ASSUME TypeOK, NEW c \in Cpus
  PROVE /\ ctx[c].cluster # 0 => ctx[c].cluster \in Clusters
        /\ incoming[c].cluster # 0 => incoming[c].cluster \in Clusters
<1>1. ctx[c] \in Context /\ incoming[c] \in Context
  BY DEF TypeOK
<1>2. ctx[c].cluster \in 0 .. ClusterCnt /\ incoming[c].cluster \in 0 .. ClusterCnt
  BY <1>1 DEF Context
<1> QED
  BY <1>2, ConstantsAssumption DEF Clusters

LEMMA InitType == Init => TypeOK
<1> SUFFICES ASSUME Init PROVE TypeOK
  OBVIOUS
<1>1. ctx \in [Cpus -> Context] /\ incoming \in [Cpus -> Context]
  BY BlankType DEF Init
<1>2. mem \in [Slots -> Packet]
  BY ConstantsAssumption DEF Init, Packet
<1>3. timer \in [Cpus -> Timer]
  BY DEF Init, Timer
<1>4. sm \subseteq Clusters \X Sems
  BY DEF Init
<1> QED
  BY <1>1, <1>2, <1>3, <1>4, ConstantsAssumption DEF Init, TypeOK, Timer

LEMMA TickType ==
  ASSUME TypeOK, NEW c \in Cpus, Tick(c) PROVE TypeOK'
<1>1. CASE BeginExchange(c) \/ BeginBurst(c)
  <2>1. timer' \in [Cpus -> Timer]
    BY <1>1, HandleCountersType DEF BeginExchange, BeginBurst, BeginTick, TypeOK, Timer
  <2>2. flags' \in [Cpus -> SUBSET Flag]
    BY <1>1, MirrorType DEF BeginExchange, BeginBurst, BeginTick, TypeOK
  <2>3. latch' \in [Cpus -> SUBSET Latched]
    BY <1>1 DEF BeginExchange, BeginBurst, BeginTick, TypeOK
  <2>4. incoming' \in [Cpus -> Context]
    BY <1>1, PackageType DEF BeginExchange, BeginBurst, TypeOK
  <2>5. pc' \in [Cpus -> Where] /\ inReset' \in [Cpus -> BOOLEAN]
    BY <1>1 DEF BeginExchange, BeginBurst, TypeOK, Where
  <2> QED
    BY <1>1, <2>1, <2>2, <2>3, <2>4, <2>5
    DEF BeginExchange, BeginBurst, BeginTick, TypeOK, Timer, Where, clusterVars, mainVars
<1>2. CASE CreateExchangePacket(c)
  <2> DEFINE firing == flags[c] \cap InterruptMaskFromState(ctx[c].mode, inReset[c])
  <2>1. firing \in SUBSET Flag
    BY DEF TypeOK
  <2>2. mem' = [mem EXCEPT ![ctx[c].xa] = [ctx |-> ctx[c], flags |-> firing]]
    BY <1>2 DEF CreateExchangePacket, WriteExchangePacket
  <2> HIDE DEF firing
  <2>3. mem' \in [Slots -> Packet]
    <3>1. [ctx |-> ctx[c], flags |-> firing] \in Packet
      BY <2>1 DEF TypeOK, Packet
    <3> QED
      BY <2>2, <3>1 DEF TypeOK
  <2>4. flags' \in [Cpus -> SUBSET Flag]
    BY <1>2 DEF CreateExchangePacket, FlagsAfterExchange, TypeOK
  <2> QED
    BY <1>2, <2>3, <2>4 DEF CreateExchangePacket, TypeOK, clusterVars, mainVars
<1>3. CASE LeaveCluster(c)
  <2>1. cpuCnt' \in [Clusters -> Int]
    BY <1>3, ClusterType DEF LeaveCluster, CountAfterLeave, TypeOK
  <2> QED
    BY <1>3, <2>1 DEF LeaveCluster, TypeOK, mainVars
<1>4. CASE JoinCluster(c)
  <2>1. cpuCnt' \in [Clusters -> Int]
    BY <1>4, ClusterType DEF JoinCluster, TypeOK
  <2> QED
    BY <1>4, <2>1, BlankType DEF JoinCluster, TypeOK, mainVars
<1>5. CASE EndBurst(c)
  BY <1>5 DEF EndBurst, TypeOK, clusterVars, mainVars
<1> QED
  BY <1>1, <1>2, <1>3, <1>4, <1>5 DEF Tick

LEMMA InstructionType ==
  ASSUME TypeOK, NEW c \in Cpus, Instruction(c) PROVE TypeOK'
<1>1. ASSUME NEW new \in SUBSET Flag, SetFlags(c, new), Break(c) PROVE TypeOK'
  BY <1>1 DEF SetFlags, Break, TypeOK, clusterVars, mainVars
<1>2. ASSUME NEW new \in Timer, SetTimer(c, new) PROVE TypeOK'
  BY <1>2 DEF SetTimer, Break, TypeOK, Timer, clusterVars, mainVars
<1>3. ASSUME NEW new \in Context, SetContext(c, new) PROVE TypeOK'
  BY <1>3 DEF SetContext, Continue, TypeOK, clusterVars, mainVars
<1>4. ctx[c] \in Context /\ timer[c] \in Timer /\ flags[c] \in SUBSET Flag
  BY DEF TypeOK, Timer
<1>5. ctx[c].mode \in SUBSET ModeBit /\ ctx[c].p \in Sems \cup {NoSem}
  BY <1>4 DEF Context
<1>6. ASSUME NEW d \in Cpus, SIPI(c, d) PROVE TypeOK'
  BY <1>6 DEF SIPI, SetLatch, Break, TypeOK, Latched, clusterVars, mainVars
<1>7. CASE CIPI(c) \/ MC(c) \/ CCI(c)
  BY <1>7, <1>1, <1>4 DEF CIPI, MC, CCI
<1>8. CASE ERR(c) \/ EX(c) \/ ProgramRangeError(c) \/ OperandRangeError(c)
  BY <1>8, <1>1, <1>4 DEF ERR, EX, ProgramRangeError, OperandRangeError, Flag
<1>9. ASSUME NEW n \in Limits, PCI(c, n) PROVE TypeOK'
  <2>1. [timer[c] EXCEPT !.limit = n, !.count = n] \in Timer
    BY <1>4, ConstantsAssumption DEF Timer
  <2> QED
    BY <1>9, <1>2, <2>1 DEF PCI
<1>10. CASE ECI(c) \/ DCI(c)
  <2>1. \A b \in BOOLEAN : [timer[c] EXCEPT !.on = b] \in Timer
    BY <1>4 DEF Timer
  <2> QED
    BY <1>10, <1>2, <2>1 DEF ECI, DCI
<1>11. ASSUME NEW x \in XaOf[c], XA(c, x) PROVE TypeOK'
  <2>1. x \in Slots
    BY ConstantsAssumption
  <2> QED
    BY <1>11, <2>1, <1>3, <1>4, ContextUpdate DEF XA
<1>12. CASE ERI(c) \/ DRI(c)
  <2>1. [ctx[c] EXCEPT !.mode = @ \cup {"ORE"}] \in Context
    BY <1>4, <1>5 DEF Context, ModeBit
  <2>2. [ctx[c] EXCEPT !.mode = @ \ {"ORE"}] \in Context
    BY <1>4, <1>5 DEF Context
  <2> QED
    BY <1>12, <2>1, <2>2, <1>3 DEF ERI, DRI
<1>13. CASE EFI(c) \/ DFI(c)
  <2>1. ctx' \in [Cpus -> Context]
    <3>1. [ctx[c] EXCEPT !.mode = @ \cup {"FPE"}] \in Context
      BY <1>4, <1>5 DEF Context, ModeBit
    <3>2. [ctx[c] EXCEPT !.mode = @ \ {"FPE"}] \in Context
      BY <1>4, <1>5 DEF Context
    <3>3. \/ ctx' = [ctx EXCEPT ![c] = [ctx[c] EXCEPT !.mode = @ \cup {"FPE"}]]
          \/ ctx' = [ctx EXCEPT ![c] = [ctx[c] EXCEPT !.mode = @ \ {"FPE"}]]
      BY <1>13 DEF EFI, DFI, FloatingPointInterrupts
    <3> QED
      BY <3>1, <3>2, <3>3 DEF TypeOK
  <2> QED
    BY <1>13, <2>1
    DEF EFI, DFI, FloatingPointInterrupts, Continue, TypeOK, clusterVars, mainVars
<1>14. ASSUME NEW k \in 0 .. ClusterCnt, CLN(c, k) PROVE TypeOK'
  <2>1. [ctx[c] EXCEPT !.cluster = k] \in Context
    BY <1>4, ContextUpdate
  <2> QED
    BY <1>14, <2>1 DEF CLN, TypeOK, clusterVars, mainVars
<1>15. ASSUME NEW s \in Sems, TestAndSetNoCluster(c, s) PROVE TypeOK'
  <2>1. [ctx[c] EXCEPT !.p = s] \in Context
    BY <1>4, ContextUpdate
  <2> QED
    BY <1>15, <2>1, <1>3 DEF TestAndSetNoCluster
<1>16. ASSUME NEW s \in Sems, TestAndSetTakes(c, s) PROVE TypeOK'
  <2> DEFINE k == ctx[c].cluster
  <2>1. k \in Clusters
    BY <1>16, ClusterType DEF TestAndSetTakes
  <2>2. sm' \subseteq Clusters \X Sems
    BY <1>16, <2>1 DEF TestAndSetTakes, TypeOK
  <2>3. tsCnt' \in [Clusters -> 0 .. SizeMod - 1]
    <3>1. (tsCnt[k] - 1) % SizeMod \in 0 .. SizeMod - 1
      BY <2>1, ConstantsAssumption DEF TypeOK
    <3> QED
      BY <1>16, <3>1, <2>1 DEF TestAndSetTakes, TypeOK
  <2>4. ctx' \in [Cpus -> Context]
    <3>1. [ctx[c] EXCEPT !.p = s] \in Context
      BY <1>4, ContextUpdate
    <3>2. ctx' = [ctx EXCEPT ![c] = [ctx[c] EXCEPT !.p = s]]
      BY <1>16 DEF TestAndSetTakes
    <3> QED
      BY <3>1, <3>2 DEF TypeOK
  <2> QED
    BY <1>16, <2>2, <2>3, <2>4 DEF TestAndSetTakes, Break, TypeOK, mainVars
<1>17. ASSUME NEW s \in Sems, TestAndSetFails(c, s) PROVE TypeOK'
  <2> DEFINE k == ctx[c].cluster
  <2>1. k \in Clusters
    BY <1>17, ClusterType DEF TestAndSetFails
  <2>2. tsCnt' \in [Clusters -> 0 .. SizeMod - 1]
    <3>1. (tsCnt[k] + 1) % SizeMod \in 0 .. SizeMod - 1
      BY <2>1, ConstantsAssumption DEF TypeOK
    <3> QED
      BY <1>17, <3>1, <2>1 DEF TestAndSetFails, TypeOK
  <2>3. ctx' \in [Cpus -> Context]
    <3>1. [ctx[c] EXCEPT !.p = ctx[c].p] \in Context
      BY <1>4, <1>5, ContextUpdate
    <3>2. ctx' = [ctx EXCEPT ![c] = [ctx[c] EXCEPT !.p = ctx[c].p]]
      BY <1>17 DEF TestAndSetFails, BlockedAt
    <3> QED
      BY <3>1, <3>2 DEF TypeOK
  <2> QED
    BY <1>17, <2>2, <2>3 DEF TestAndSetFails, Break, TypeOK, mainVars
<1>18. ASSUME NEW s \in Sems, SetSemaphore(c, s) PROVE TypeOK'
  <2>1. ctx[c].cluster \in Clusters
    BY <1>18, ClusterType DEF SetSemaphore
  <2>2. sm' \subseteq Clusters \X Sems
    BY <1>18, <2>1 DEF SetSemaphore, TypeOK
  <2> QED
    BY <1>18, <2>2 DEF SetSemaphore, Break, TypeOK, mainVars
<1>19. CASE ClearSemaphore(c)
  <2>1. sm' \subseteq Clusters \X Sems
    BY <1>19 DEF ClearSemaphore, TypeOK
  <2>2. ctx' \in [Cpus -> Context]
    <3>1. [ctx[c] EXCEPT !.p = NoSem] \in Context
      BY <1>4, ContextUpdate
    <3>2. ctx' = [ctx EXCEPT ![c] = [ctx[c] EXCEPT !.p = NoSem]]
      BY <1>19 DEF ClearSemaphore
    <3> QED
      BY <3>1, <3>2 DEF TypeOK
  <2> QED
    BY <1>19, <2>1, <2>2 DEF ClearSemaphore, TypeOK, mainVars
<1>20. ASSUME NEW x \in Slots, NEW new \in Templates, StorePackage(c, x, new)
       PROVE TypeOK'
  <2>1. [ctx |-> new, flags |-> {}] \in Packet
    BY ConstantsAssumption DEF Packet
  <2>2. mem' \in [Slots -> Packet]
    BY <1>20, <2>1 DEF StorePackage, TypeOK
  <2> QED
    BY <1>20, <2>2 DEF StorePackage, Continue, TypeOK, clusterVars, mainVars
<1> QED
  BY <1>6, <1>7, <1>8, <1>9, <1>10, <1>11, <1>12, <1>13, <1>14, <1>15, <1>16,
     <1>17, <1>18, <1>19, <1>20
  DEF Instruction

LEMMA MainThreadType ==
  ASSUME TypeOK, MainThread PROVE TypeOK'
<1>1. CASE CpuMasterClearOn
  BY <1>1, ConstantsAssumption
  DEF CpuMasterClearOn, TypeOK, cpuVars, clusterVars
<1>2. CASE CpuMasterClearNext
  <2>1. mcNext \in Cpus
    BY <1>2, ConstantsAssumption DEF CpuMasterClearNext, TypeOK, Cpus
  <2>2. ctx' \in [Cpus -> Context]
    <3>1. ctx[mcNext] \in Context
      BY <2>1 DEF TypeOK
    <3>2. [ctx[mcNext] EXCEPT !.mode = @ \ {"MM"}] \in Context
      BY <3>1 DEF Context
    <3>3. ctx' = [ctx EXCEPT ![mcNext] = [ctx[mcNext] EXCEPT !.mode = @ \ {"MM"}]]
      BY <1>2 DEF CpuMasterClearNext, MasterClear, ModeAfterMasterClear
    <3> QED
      BY <3>2, <3>3 DEF TypeOK
  <2>3. mcNext' \in 0 .. CpuCnt /\ mcOn' \in BOOLEAN
    BY <1>2, <2>1, ConstantsAssumption DEF CpuMasterClearNext, Cpus
  <2> QED
    BY <1>2, <2>2, <2>3 DEF CpuMasterClearNext, MasterClear, TypeOK, clusterVars
<1>3. CASE CpuMasterClearOff
  BY <1>3 DEF CpuMasterClearOff, SetLatch, TypeOK, Latched, clusterVars
<1>4. CASE RouteChannelInterrupt
  BY <1>4 DEF RouteChannelInterrupt, SetLatch, TypeOK, Latched, clusterVars, mainVars
<1> QED
  BY <1>1, <1>2, <1>3, <1>4 DEF MainThread

(* In every behaviour every register keeps its range: an exchange address  *)
(* always names a package of memory, a cluster number a cluster, and the   *)
(* countdown never goes below zero.                                        *)
THEOREM TypeCorrect == Spec => []TypeOK
<1>1. Init => TypeOK
  BY InitType
<1>2. TypeOK /\ [Next]_vars => TypeOK'
  <2> SUFFICES ASSUME TypeOK, [Next]_vars PROVE TypeOK'
    OBVIOUS
  <2>1. CASE MainThread
    BY <2>1, MainThreadType
  <2>2. ASSUME NEW c \in Cpus, Tick(c) \/ Instruction(c) PROVE TypeOK'
    BY <2>2, TickType, InstructionType
  <2>3. CASE UNCHANGED vars
    BY <2>3 DEF TypeOK, vars, cpuVars, clusterVars, mainVars
  <2> QED
    BY <2>1, <2>2, <2>3 DEF Next
<1> QED
  BY <1>1, <1>2, PTL DEF Spec

-----------------------------------------------------------------------------
(* What a step of one CPU leaves alone *)

(* The state of a CPU that only its own thread and master clear change. *)
Private(d) == <<pc[d], inReset[d], ctx[d], incoming[d], flags[d]>>

(* A step of CPU c does not touch the private state of another CPU. *)
LEMMA OthersUntouched ==
  ASSUME TypeOK, NEW c \in Cpus, Tick(c) \/ Instruction(c),
         NEW d \in Cpus, d # c
  PROVE UNCHANGED Private(d)
<1>1. CASE Tick(c)
  BY <1>1 DEF Tick, BeginExchange, BeginBurst, BeginTick, CreateExchangePacket, LeaveCluster,
     JoinCluster, EndBurst, TypeOK, Private
<1>2. CASE Instruction(c)
  <2>1. ASSUME NEW new, SetFlags(c, new), Break(c) PROVE UNCHANGED Private(d)
    BY <2>1 DEF SetFlags, Break, TypeOK, Private
  <2>2. ASSUME NEW new, SetTimer(c, new) PROVE UNCHANGED Private(d)
    BY <2>2 DEF SetTimer, Break, TypeOK, Private
  <2>3. ASSUME NEW new, SetContext(c, new) PROVE UNCHANGED Private(d)
    BY <2>3 DEF SetContext, Continue, TypeOK, Private
  <2>4. CASE CIPI(c) \/ MC(c) \/ CCI(c) \/ ERR(c) \/ EX(c) \/ ProgramRangeError(c)
               \/ OperandRangeError(c)
    BY <2>4, <2>1 DEF CIPI, MC, CCI, ERR, EX, ProgramRangeError, OperandRangeError
  <2>5. CASE (\E n \in Limits : PCI(c, n)) \/ ECI(c) \/ DCI(c)
    BY <2>5, <2>2 DEF PCI, ECI, DCI
  <2>6. CASE (\E x \in XaOf[c] : XA(c, x)) \/ ERI(c) \/ DRI(c)
               \/ \E s \in Sems : TestAndSetNoCluster(c, s)
    BY <2>6, <2>3 DEF XA, ERI, DRI, TestAndSetNoCluster
  <2>7. ASSUME NEW e \in Cpus, SIPI(c, e) PROVE UNCHANGED Private(d)
    BY <2>7 DEF SIPI, Break, TypeOK, Private
  <2>8. CASE EFI(c) \/ DFI(c)
    BY <2>8 DEF EFI, DFI, FloatingPointInterrupts, Continue, TypeOK, Private
  <2>9. ASSUME NEW k \in 0 .. ClusterCnt, CLN(c, k) PROVE UNCHANGED Private(d)
    BY <2>9 DEF CLN, TypeOK, Private
  <2>10. ASSUME NEW s \in Sems,
                TestAndSetTakes(c, s) \/ TestAndSetFails(c, s) \/ SetSemaphore(c, s)
         PROVE UNCHANGED Private(d)
    BY <2>10 DEF TestAndSetTakes, TestAndSetFails, SetSemaphore, Break, TypeOK, Private
  <2>11. CASE ClearSemaphore(c)
    BY <2>11 DEF ClearSemaphore, TypeOK, Private
  <2>12. ASSUME NEW x \in Slots, NEW new \in Templates, StorePackage(c, x, new)
         PROVE UNCHANGED Private(d)
    BY <2>12 DEF StorePackage, Continue, Private
  <2> QED
    BY <1>2, <2>4, <2>5, <2>6, <2>7, <2>8, <2>9, <2>10, <2>11, <2>12 DEF Instruction
<1> QED
  BY <1>1, <1>2

(* An instruction of CPU c runs inside a burst, leaves the CPU's cluster   *)
(* to SetCluster, keeps every latch, and drops from mState.Flags only what *)
(* CIPI, MC, CCI, EFI and DFI clear.                                       *)
MayClear(c) == {"FPE"} \cup (IF IsMonitorMode(c) THEN {"ICP", "IOI", "PCI"} ELSE {})

InstructionEffect(c) ==
  /\ pc[c] = "run" /\ pc'[c] \in {"run", "idle", "cleave"}
  /\ inReset' = inReset /\ cpuCnt' = cpuCnt /\ mcNext' = mcNext
  /\ ctx'[c].cluster = ctx[c].cluster
  /\ flags[c] \subseteq flags'[c] \cup MayClear(c)
  /\ \A d \in Cpus : latch[d] \subseteq latch'[d]

LEMMA InstructionStep ==
  ASSUME TypeOK, NEW c \in Cpus, Instruction(c) PROVE InstructionEffect(c)
<1> USE DEF InstructionEffect, clusterVars, mainVars, Execute, Monitor
<1>1. ASSUME NEW new, SetFlags(c, new), Break(c), pc[c] = "run",
             flags[c] \subseteq new \cup MayClear(c)
      PROVE InstructionEffect(c)
  BY <1>1 DEF SetFlags, Break, TypeOK
<1>2. ASSUME NEW new, SetTimer(c, new), pc[c] = "run" PROVE InstructionEffect(c)
  BY <1>2 DEF SetTimer, Break, TypeOK
<1>3. ASSUME NEW new, SetContext(c, new), pc[c] = "run", new.cluster = ctx[c].cluster
      PROVE InstructionEffect(c)
  BY <1>3 DEF SetContext, Continue, TypeOK
<1>4. ctx[c] \in Context
  BY DEF TypeOK
<1>5. CASE CIPI(c) \/ MC(c) \/ CCI(c)
  BY <1>5, <1>1 DEF CIPI, MC, CCI, MayClear
<1>6. CASE ERR(c) \/ EX(c) \/ ProgramRangeError(c) \/ OperandRangeError(c)
  BY <1>6, <1>1 DEF ERR, EX, ProgramRangeError, OperandRangeError
<1>7. CASE (\E n \in Limits : PCI(c, n)) \/ ECI(c) \/ DCI(c)
  BY <1>7, <1>2 DEF PCI, ECI, DCI
<1>8. CASE (\E x \in XaOf[c] : XA(c, x)) \/ ERI(c) \/ DRI(c)
             \/ \E s \in Sems : TestAndSetNoCluster(c, s)
  <2>1. /\ \A x : [ctx[c] EXCEPT !.xa = x].cluster = ctx[c].cluster
        /\ \A m : [ctx[c] EXCEPT !.mode = m].cluster = ctx[c].cluster
        /\ \A s : [ctx[c] EXCEPT !.p = s].cluster = ctx[c].cluster
    BY <1>4 DEF Context
  <2> QED
    BY <1>8, <1>3, <2>1 DEF XA, ERI, DRI, TestAndSetNoCluster
<1>9. ASSUME NEW d \in Cpus, SIPI(c, d) PROVE InstructionEffect(c)
  BY <1>9 DEF SIPI, SetLatch, Break, TypeOK
<1>10. CASE EFI(c) \/ DFI(c)
  <2>1. ctx'[c].cluster = ctx[c].cluster
    BY <1>10, <1>4 DEF EFI, DFI, FloatingPointInterrupts, TypeOK, Context
  <2> QED
    BY <1>10, <2>1 DEF EFI, DFI, FloatingPointInterrupts, Continue, TypeOK, MayClear
<1>11. ASSUME NEW k \in 0 .. ClusterCnt, CLN(c, k) PROVE InstructionEffect(c)
  BY <1>11 DEF CLN, TypeOK
<1>12. ASSUME NEW s \in Sems,
              TestAndSetTakes(c, s) \/ TestAndSetFails(c, s) \/ SetSemaphore(c, s)
       PROVE InstructionEffect(c)
  <2>1. ctx'[c].cluster = ctx[c].cluster
    BY <1>12, <1>4 DEF TestAndSetTakes, TestAndSetFails, SetSemaphore, TypeOK, Context
  <2> QED
    BY <1>12, <2>1
    DEF TestAndSetTakes, TestAndSetFails, SetSemaphore, Break, TypeOK
<1>13. CASE ClearSemaphore(c)
  <2>1. ctx'[c].cluster = ctx[c].cluster
    BY <1>13, <1>4 DEF ClearSemaphore, TypeOK, Context
  <2> QED
    BY <1>13, <2>1 DEF ClearSemaphore, TypeOK
<1>14. ASSUME NEW x \in Slots, NEW new \in Templates, StorePackage(c, x, new)
       PROVE InstructionEffect(c)
  BY <1>14 DEF StorePackage, Continue, TypeOK
<1> QED
  BY <1>5, <1>6, <1>7, <1>8, <1>9, <1>10, <1>11, <1>12, <1>13, <1>14 DEF Instruction

-----------------------------------------------------------------------------
(* Reset and the exchange *)

(* MasterClear of one CPU leaves the private state of the others alone. *)
LEMMA MasterClearStep ==
  ASSUME TypeOK, CpuMasterClearNext
  PROVE /\ mcNext \in Cpus
        /\ pc[mcNext] = "idle" /\ pc' = pc /\ incoming' = incoming /\ cpuCnt' = cpuCnt
        /\ inReset'[mcNext]
        /\ ctx'[mcNext].mode = ctx[mcNext].mode \ {"MM"}
        /\ ctx'[mcNext].cluster = ctx[mcNext].cluster
        /\ \A d \in Cpus : d # mcNext => UNCHANGED Private(d) /\ latch'[d] = latch[d]
<1>1. mcNext \in Cpus
  BY ConstantsAssumption DEF CpuMasterClearNext, TypeOK, Cpus
<1>2. ctx[mcNext] \in Context
  BY <1>1 DEF TypeOK
<1>3. /\ ctx'[mcNext].mode = ctx[mcNext].mode \ {"MM"}
      /\ ctx'[mcNext].cluster = ctx[mcNext].cluster
  BY <1>1, <1>2
  DEF CpuMasterClearNext, MasterClear, ModeAfterMasterClear, TypeOK, Context
<1>4. \A d \in Cpus : d # mcNext => UNCHANGED Private(d) /\ latch'[d] = latch[d]
  BY <1>1 DEF CpuMasterClearNext, MasterClear, TypeOK, Private
<1> QED
  BY <1>1, <1>3, <1>4
  DEF CpuMasterClearNext, MasterClear, MasterClearLockFree, TypeOK, clusterVars

(* Every other step of the main thread only adds to the latches. *)
LEMMA MainThreadStep ==
  ASSUME TypeOK, CpuMasterClearOn \/ CpuMasterClearOff \/ RouteChannelInterrupt
  PROVE /\ pc' = pc /\ inReset' = inReset /\ ctx' = ctx /\ incoming' = incoming
        /\ flags' = flags /\ cpuCnt' = cpuCnt
        /\ \A d \in Cpus : latch[d] \subseteq latch'[d]
BY DEF CpuMasterClearOn, CpuMasterClearOff, RouteChannelInterrupt, SetLatch, TypeOK, cpuVars,
       clusterVars, mainVars

(* ResetIsQuiet and ExchangeHasCause together are inductive: an exchange   *)
(* that takes a CPU out of reset recomputes the interrupt mask without the *)
(* reset bit, which matters in monitor mode only.                          *)
ResetInv == ResetIsQuiet /\ ExchangeHasCause

LEMMA ResetInvStep ==
  ASSUME TypeOK, ResetInv, [Next]_vars PROVE ResetInv'
<1> USE DEF ResetInv
<1> DEFINE Good(d) == /\ inReset[d] => pc[d] = "idle" /\ ~IsMonitorMode(d)
                      /\ pc[d] = "exchange" =>
                           flags[d] \cap InterruptMaskFromState(ctx[d].mode, inReset[d]) # {}
<1>1. \A d \in Cpus : Good(d)
  BY DEF ResetIsQuiet, ExchangeHasCause
<1>2. SUFFICES ASSUME NEW d \in Cpus PROVE Good(d)'
  BY DEF ResetIsQuiet, ExchangeHasCause
<1>3. ASSUME UNCHANGED Private(d) PROVE Good(d)'
  BY <1>1, <1>3 DEF Private, IsMonitorMode, InterruptMaskFromState
<1>4. CASE Tick(d)
  <2>1. CASE BeginExchange(d)
    <3>1. /\ inReset'[d] = FALSE /\ flags'[d] = MirrorExternalInterrupts(d)
          /\ ctx' = ctx /\ Firing(d) # {} /\ pc[d] = "idle"
      BY <2>1 DEF BeginExchange, BeginTick, TypeOK
    <3>2. InterruptMaskFromState(ctx[d].mode, FALSE)
            = InterruptMaskFromState(ctx[d].mode, inReset[d])
      BY <1>1 DEF InterruptMaskFromState, IsMonitorMode, TypeOK
    <3>3. flags'[d] \cap InterruptMaskFromState(ctx'[d].mode, inReset'[d]) # {}
      BY <3>1, <3>2 DEF Firing
    <3> QED
      BY <3>1, <3>3 DEF InterruptMaskFromState
  <2>2. CASE BeginBurst(d)
    BY <2>2, <1>1 DEF BeginBurst, BeginTick, TypeOK, IsMonitorMode
  <2>3. CASE CreateExchangePacket(d) \/ LeaveCluster(d) \/ JoinCluster(d) \/ EndBurst(d)
    <3>1. ~inReset[d] /\ inReset' = inReset
      BY <2>3, <1>1 DEF CreateExchangePacket, LeaveCluster, JoinCluster, EndBurst
    <3>2. pc'[d] # "exchange"
      BY <2>3 DEF CreateExchangePacket, LeaveCluster, JoinCluster, EndBurst, TypeOK
    <3> QED
      BY <3>1, <3>2
  <2> QED
    BY <1>4, <2>1, <2>2, <2>3 DEF Tick
<1>5. CASE Instruction(d)
  BY <1>5, <1>1, InstructionStep DEF InstructionEffect
<1>6. CASE CpuMasterClearNext
  <2>1. CASE d = mcNext
    BY <1>6, <2>1, MasterClearStep DEF IsMonitorMode
  <2>2. CASE d # mcNext
    BY <1>6, <2>2, <1>3, MasterClearStep
  <2> QED
    BY <2>1, <2>2
<1>7. CASE CpuMasterClearOn \/ CpuMasterClearOff \/ RouteChannelInterrupt
  BY <1>7, <1>3, MainThreadStep DEF Private
<1>8. ASSUME NEW c \in Cpus, c # d, Tick(c) \/ Instruction(c) PROVE Good(d)'
  BY <1>8, <1>3, OthersUntouched
<1>9. CASE UNCHANGED vars
  BY <1>9, <1>3 DEF vars, cpuVars, Private
<1> QED
  BY <1>4, <1>5, <1>6, <1>7, <1>8, <1>9 DEF Next, MainThread

LEMMA ResetInvCorrect == Spec => []ResetInv
<1>1. Init => ResetInv
  BY DEF Init, ResetInv, ResetIsQuiet, ExchangeHasCause, IsMonitorMode, Blank
<1>2. TypeOK /\ ResetInv /\ [Next]_vars => ResetInv'
  BY ResetInvStep
<1> QED
  BY <1>1, <1>2, TypeCorrect, PTL DEF Spec

(* Master clear never lands inside a Tick: a CPU that is in reset is       *)
(* between two Ticks and out of monitor mode, in every interleaving of the *)
(* CPU threads with the IOP's master clear.                                *)
THEOREM ResetQuiet == Spec => []ResetIsQuiet
<1>1. ResetInv => ResetIsQuiet
  BY DEF ResetInv
<1> QED
  BY <1>1, ResetInvCorrect, PTL

(* No spurious exchange: the package an exchange writes always reports at  *)
(* least one interrupt, although the mask is computed a second time, after *)
(* the CPU left reset.                                                     *)
THEOREM NoSpuriousExchange == Spec => []ExchangeHasCause
<1>1. ResetInv => ExchangeHasCause
  BY DEF ResetInv
<1> QED
  BY <1>1, ResetInvCorrect, PTL

-----------------------------------------------------------------------------
(* Interrupts *)

LEMMA InterruptStep ==
  ASSUME TypeOK, [Next]_vars
  PROVE \A c \in Cpus : \A f \in Pending(c) \ Pending(c)' : InterruptDisposed(c, f)
<1> SUFFICES ASSUME NEW c \in Cpus, NEW f \in Pending(c), f \notin Pending(c)'
             PROVE InterruptDisposed(c, f)
  OBVIOUS
<1>1. ASSUME flags[c] \subseteq flags'[c], latch[c] \subseteq latch'[c] PROVE FALSE
  BY <1>1 DEF Pending
<1>2. CASE Tick(c)
  <2>1. CASE BeginExchange(c) \/ BeginBurst(c)
    BY <2>1 DEF BeginExchange, BeginBurst, BeginTick, MirrorExternalInterrupts, Pending, TypeOK
  <2>2. CASE CreateExchangePacket(c)
    <3> DEFINE firing == flags[c] \cap InterruptMaskFromState(ctx[c].mode, inReset[c])
    <3>1. /\ pc[c] = "exchange" /\ latch' = latch
          /\ flags'[c] = flags[c] \ (firing \cap ClearedByExchange)
          /\ mem' = [mem EXCEPT ![ctx[c].xa] = [ctx |-> ctx[c], flags |-> firing]]
      BY <2>2 DEF CreateExchangePacket, FlagsAfterExchange, WriteExchangePacket, TypeOK
    <3>2. f \in firing
      BY <3>1 DEF Pending
    <3>3. mem'[ctx[c].xa].flags = firing
      BY <3>1, PackageType DEF TypeOK
    <3> QED
      BY <3>1, <3>2, <3>3 DEF InterruptDisposed
  <2>3. CASE LeaveCluster(c) \/ JoinCluster(c) \/ EndBurst(c)
    BY <2>3, <1>1 DEF LeaveCluster, JoinCluster, EndBurst
  <2> QED
    BY <1>2, <2>1, <2>2, <2>3 DEF Tick
<1>3. CASE Instruction(c)
  <2>1. InstructionEffect(c)
    BY <1>3, InstructionStep
  <2>2. f \in MayClear(c)
    BY <2>1 DEF InstructionEffect, Pending
  <2> QED
    BY <2>1, <2>2 DEF InstructionEffect, MayClear, InterruptDisposed
<1>4. CASE CpuMasterClearNext
  <2>1. c = mcNext
    BY <1>4, <1>1, MasterClearStep DEF Private
  <2>2. mcNext' # mcNext
    BY <1>4 DEF CpuMasterClearNext, TypeOK
  <2> QED
    BY <1>4, <2>1, <2>2, MasterClearStep DEF InterruptDisposed
<1>5. CASE CpuMasterClearOn \/ CpuMasterClearOff \/ RouteChannelInterrupt
  BY <1>5, <1>1, MainThreadStep
<1>6. ASSUME NEW d \in Cpus, d # c, Tick(d) \/ Instruction(d) PROVE FALSE
  <2>1. UNCHANGED Private(c)
    BY <1>6, OthersUntouched
  <2>2. latch[c] \subseteq latch'[c]
    <3>1. CASE Tick(d)
      BY <3>1, <1>6 DEF Tick, BeginExchange, BeginBurst, BeginTick, CreateExchangePacket,
         LeaveCluster, JoinCluster, EndBurst, TypeOK
    <3>2. CASE Instruction(d)
      BY <3>2, InstructionStep DEF InstructionEffect
    <3> QED
      BY <1>6, <3>1, <3>2
  <2> QED
    BY <1>1, <2>1, <2>2 DEF Private
<1>7. CASE UNCHANGED vars
  BY <1>7, <1>1 DEF vars, cpuVars
<1> QED
  BY <1>2, <1>3, <1>4, <1>5, <1>6, <1>7 DEF Next, MainThread

(* No interrupt request is lost: whatever a CPU has latched or flagged     *)
(* goes away only by being reported in the package of an exchange, by an   *)
(* instruction that clears it, or by master clear.                         *)
THEOREM InterruptsKept == Spec => NoInterruptLost
<1>1. TypeOK /\ [Next]_vars =>
        [\A c \in Cpus : \A f \in Pending(c) \ Pending(c)' : InterruptDisposed(c, f)]_vars
  BY InterruptStep
<1> QED
  BY <1>1, TypeCorrect, PTL DEF Spec, NoInterruptLost

-----------------------------------------------------------------------------
(* Clusters *)

Members(k) == {d \in Cpus : Member(d) = k}

LEMMA CpusFinite == IsFiniteSet(Cpus)
<1>1. 0 \in Int /\ CpuCnt - 1 \in Int
  BY ConstantsAssumption
<1> QED
  BY <1>1, FS_Interval DEF Cpus

LEMMA MembersFinite ==
  ASSUME NEW k
  PROVE IsFiniteSet(Members(k)) /\ Cardinality(Members(k)) \in Nat
<1>1. Members(k) \subseteq Cpus
  BY DEF Members
<1> QED
  BY <1>1, CpusFinite, FS_Subset, FS_CardinalityType

(* A step that leaves the membership of every CPU and the counters alone   *)
(* keeps the counters exact.                                               *)
LEMMA MembersUnchanged ==
  ASSUME ClusterCountExact, cpuCnt' = cpuCnt, \A d \in Cpus : Member(d)' = Member(d)
  PROVE ClusterCountExact'
<1>1. \A k : Members(k)' = Members(k)
  BY DEF Members
<1> QED
  BY <1>1 DEF ClusterCountExact, Members

(* Membership depends on the private state of the CPU only. *)
LEMMA MemberPrivate ==
  ASSUME NEW d \in Cpus, UNCHANGED Private(d) PROVE Member(d)' = Member(d)
BY DEF Private, Member, MovesCluster

LEMMA LeaveClusterExact ==
  ASSUME TypeOK, ClusterCountExact, NEW c \in Cpus, LeaveCluster(c)
  PROVE ClusterCountExact'
<1>1. \A d \in Cpus : d # c => Member(d)' = Member(d)
  <2> SUFFICES ASSUME NEW d \in Cpus, d # c PROVE Member(d)' = Member(d)
    OBVIOUS
  <2>1. UNCHANGED Private(d)
    BY OthersUntouched DEF Tick
  <2> QED
    BY <2>1, MemberPrivate
<1>2. /\ pc'[c] \in {"xjoin", "cjoin"} /\ pc[c] \notin {"xjoin", "cjoin"}
      /\ ctx' = ctx /\ incoming' = incoming /\ cpuCnt' = CountAfterLeave(c)
  BY DEF LeaveCluster, TypeOK
<1>3. Member(c) = ctx[c].cluster
  BY <1>2 DEF Member
<1>4. CASE ~MovesCluster(c) \/ ctx[c].cluster = 0
  <2>1. Member(c)' = Member(c)
    BY <1>2, <1>3, <1>4 DEF Member, MovesCluster
  <2>2. cpuCnt' = cpuCnt
    BY <1>2, <1>4 DEF CountAfterLeave
  <2> QED
    BY <1>1, <2>1, <2>2, MembersUnchanged
<1>5. CASE MovesCluster(c) /\ ctx[c].cluster # 0
  <2>0. PICK old : old = ctx[c].cluster
    OBVIOUS
  <2>1. Member(c)' = 0
    BY <1>2, <1>5 DEF Member, MovesCluster
  <2>2. old \in Clusters /\ 0 \notin Clusters
    BY <1>5, <2>0, ClusterType DEF Clusters
  <2>3. cpuCnt' = [cpuCnt EXCEPT ![old] = @ - 1]
    BY <1>2, <1>5, <2>0 DEF CountAfterLeave
  <2>4. Members(old)' = Members(old) \ {c} /\ c \in Members(old)
    BY <1>1, <1>3, <2>0, <2>1, <2>2 DEF Members
  <2>5. \A k \in Clusters : k # old => Members(k)' = Members(k)
    BY <1>1, <1>3, <2>0, <2>1, <2>2 DEF Members
  <2>6. Cardinality(Members(old)') = Cardinality(Members(old)) - 1
    BY <2>4, MembersFinite, FS_RemoveElement
  <2>7. ASSUME NEW k \in Clusters PROVE cpuCnt'[k] = Cardinality(Members(k)')
    <3>1. cpuCnt[k] = Cardinality(Members(k)) /\ cpuCnt[old] = Cardinality(Members(old))
      BY <2>2 DEF ClusterCountExact, Members
    <3>2. CASE k = old
      BY <3>1, <3>2, <2>2, <2>3, <2>6 DEF TypeOK
    <3>3. CASE k # old
      BY <3>1, <3>3, <2>3, <2>5 DEF TypeOK
    <3> QED
      BY <3>2, <3>3
  <2> QED
    BY <2>7 DEF ClusterCountExact, Members
<1> QED
  BY <1>4, <1>5

LEMMA JoinClusterExact ==
  ASSUME TypeOK, ClusterCountExact, NEW c \in Cpus, JoinCluster(c)
  PROVE ClusterCountExact'
<1>1. \A d \in Cpus : d # c => Member(d)' = Member(d)
  <2> SUFFICES ASSUME NEW d \in Cpus, d # c PROVE Member(d)' = Member(d)
    OBVIOUS
  <2>1. UNCHANGED Private(d)
    BY OthersUntouched DEF Tick
  <2> QED
    BY <2>1, MemberPrivate
<1>2. /\ pc[c] \in {"xjoin", "cjoin"} /\ pc'[c] \in {"idle", "run"}
      /\ ctx'[c] = incoming[c]
  BY DEF JoinCluster, TypeOK
<1>3. Member(c)' = incoming[c].cluster
  BY <1>2 DEF Member
<1>4. CASE ~MovesCluster(c) \/ incoming[c].cluster = 0
  <2>1. Member(c)' = Member(c)
    BY <1>2, <1>3, <1>4 DEF Member, MovesCluster
  <2>2. cpuCnt' = cpuCnt
    BY <1>4 DEF JoinCluster
  <2> QED
    BY <1>1, <2>1, <2>2, MembersUnchanged
<1>5. CASE MovesCluster(c) /\ incoming[c].cluster # 0
  <2>0. PICK new : new = incoming[c].cluster
    OBVIOUS
  <2>1. Member(c) = 0
    BY <1>2, <1>5 DEF Member
  <2>2. new \in Clusters /\ 0 \notin Clusters
    BY <1>5, <2>0, ClusterType DEF Clusters
  <2>3. cpuCnt' = [cpuCnt EXCEPT ![new] = @ + 1]
    BY <1>5, <2>0 DEF JoinCluster
  <2>4. Members(new)' = Members(new) \cup {c} /\ c \notin Members(new)
    BY <1>1, <1>3, <2>0, <2>1, <2>2 DEF Members
  <2>5. \A k \in Clusters : k # new => Members(k)' = Members(k)
    BY <1>1, <1>3, <2>0, <2>1, <2>2 DEF Members
  <2>6. Cardinality(Members(new)') = Cardinality(Members(new)) + 1
    BY <2>4, MembersFinite, FS_AddElement
  <2>7. ASSUME NEW k \in Clusters PROVE cpuCnt'[k] = Cardinality(Members(k)')
    <3>1. cpuCnt[k] = Cardinality(Members(k)) /\ cpuCnt[new] = Cardinality(Members(new))
      BY <2>2 DEF ClusterCountExact, Members
    <3>2. CASE k = new
      BY <3>1, <3>2, <2>2, <2>3, <2>6 DEF TypeOK
    <3>3. CASE k # new
      BY <3>1, <3>3, <2>3, <2>5 DEF TypeOK
    <3> QED
      BY <3>2, <3>3
  <2> QED
    BY <2>7 DEF ClusterCountExact, Members
<1> QED
  BY <1>4, <1>5

LEMMA ClusterCountStep ==
  ASSUME TypeOK, ClusterCountExact, [Next]_vars PROVE ClusterCountExact'
<1>1. ASSUME NEW c \in Cpus, Tick(c) \/ Instruction(c), cpuCnt' = cpuCnt,
             Member(c)' = Member(c)
      PROVE ClusterCountExact'
  <2>1. ASSUME NEW d \in Cpus, d # c PROVE Member(d)' = Member(d)
    BY <1>1, <2>1, OthersUntouched, MemberPrivate
  <2> QED
    BY <1>1, <2>1, MembersUnchanged
<1>2. ASSUME NEW c \in Cpus, Tick(c) PROVE ClusterCountExact'
  <2>1. CASE LeaveCluster(c)
    BY <2>1, LeaveClusterExact
  <2>2. CASE JoinCluster(c)
    BY <2>2, JoinClusterExact
  <2>3. CASE BeginExchange(c) \/ BeginBurst(c) \/ CreateExchangePacket(c) \/ EndBurst(c)
    <3>1. /\ pc[c] \notin {"xjoin", "cjoin"} /\ pc'[c] \notin {"xjoin", "cjoin"}
          /\ ctx' = ctx /\ cpuCnt' = cpuCnt
      BY <2>3 DEF BeginExchange, BeginBurst, BeginTick, CreateExchangePacket, EndBurst, TypeOK,
         clusterVars
    <3> QED
      BY <1>1, <1>2, <3>1 DEF Member
  <2> QED
    BY <1>2, <2>1, <2>2, <2>3 DEF Tick
<1>3. ASSUME NEW c \in Cpus, Instruction(c) PROVE ClusterCountExact'
  BY <1>3, <1>1, InstructionStep DEF InstructionEffect, Member
<1>4. CASE CpuMasterClearNext
  <2>1. ASSUME NEW d \in Cpus PROVE Member(d)' = Member(d)
    BY <1>4, MasterClearStep, MemberPrivate DEF Member
  <2> QED
    BY <1>4, <2>1, MasterClearStep, MembersUnchanged
<1>5. CASE CpuMasterClearOn \/ CpuMasterClearOff \/ RouteChannelInterrupt
  BY <1>5, MainThreadStep, MembersUnchanged DEF Member, MovesCluster
<1>6. CASE UNCHANGED vars
  BY <1>6, MembersUnchanged DEF vars, cpuVars, clusterVars, Member, MovesCluster
<1> QED
  BY <1>2, <1>3, <1>4, <1>5, <1>6 DEF Next, MainThread

(* The CPU counter of every cluster is exact in every interleaving of      *)
(* exchanges, CLN instructions and master clears, although SetCluster      *)
(* takes the mutexes of the two clusters one after the other.              *)
THEOREM ClusterCounts == Spec => []ClusterCountExact
<1>1. Init => ClusterCountExact
  <2> SUFFICES ASSUME Init, NEW k \in Clusters PROVE cpuCnt[k] = Cardinality(Members(k))
    BY DEF ClusterCountExact, Members
  <2>1. k # 0
    BY DEF Clusters
  <2>2. Members(k) = {}
    BY <2>1 DEF Init, Members, Member, Blank
  <2> QED
    BY <2>2, FS_EmptySet DEF Init
<1>2. TypeOK /\ ClusterCountExact /\ [Next]_vars => ClusterCountExact'
  BY ClusterCountStep
<1> QED
  BY <1>1, <1>2, TypeCorrect, PTL DEF Spec

-----------------------------------------------------------------------------
(* The places a context may be in *)

(* Every context that is somewhere: on a CPU, in a package, or read by an  *)
(* exchange that has yet to overwrite the package.                         *)
AllContexts == Contexts \cup {incoming[c] : c \in Exchanging}

(* ContextsUnique with the contexts in transit: what an exchange has read  *)
(* is on no CPU, in no other exchange and in no other package.             *)
PlacesInv ==
  /\ ContextsUnique
  /\ \A c \in Exchanging :
       /\ \A d \in Cpus : incoming[c].task # Holds(d).task
       /\ \A d \in Exchanging : d # c => incoming[c].task # incoming[d].task
       /\ \A x \in Slots : incoming[c].task = mem[x].ctx.task => x = ctx[c].xa

(* Between the two steps of CLN the target of SetCluster is the CPU's own  *)
(* context, which holds no semaphore.                                      *)
ClnInv ==
  \A c \in Cpus :
    pc[c] \in {"cleave", "cjoin"} =>
      /\ incoming[c].task = ctx[c].task
      /\ incoming[c].p = NoSem

(* SemaphoreExclusion with the contexts in transit. *)
SemaphoreInv ==
  \A u, v \in AllContexts :
    u.p # NoSem /\ u.cluster # 0 =>
      /\ <<u.cluster, u.p>> \in sm
      /\ v.cluster = u.cluster /\ v.p = u.p => u.task = v.task

ContextInv == PlacesInv /\ ClnInv /\ SemaphoreInv

(* What an instruction other than STORE does to the context of its CPU:    *)
(* the task and the cluster stay, and the program address moves only at    *)
(* the instructions on semaphores.                                         *)
SameButAddress(u, v) == v.task = u.task /\ v.cluster = u.cluster

Takes(c, s) ==
  /\ ctx'[c].p = s
  /\ ctx[c].cluster # 0 => /\ <<ctx[c].cluster, s>> \notin sm
                           /\ sm' = sm \cup {<<ctx[c].cluster, s>>}
  /\ ctx[c].cluster = 0 => sm' = sm

Clears(c) ==
  /\ ctx[c].p # NoSem /\ ctx'[c].p = NoSem
  /\ sm' = sm \ {<<ctx[c].cluster, ctx[c].p>>}

ContextEffect(c) ==
  /\ pc[c] = "run" /\ mem' = mem
  /\ \A d \in Cpus : pc[d] = "exchange" => ctx'[d] = ctx[d]
  /\ SameButAddress(ctx[c], ctx'[c])
  /\ \/ ctx'[c].p = ctx[c].p /\ sm \subseteq sm'
     \/ \E s \in Sems : Takes(c, s)
     \/ Clears(c)
  /\ \/ pc'[c] \in {"run", "idle"}
     \/ /\ pc'[c] = "cleave" /\ ctx'[c].p = NoSem /\ ctx[c].p = NoSem
        /\ incoming'[c].task = ctx[c].task /\ incoming'[c].p = NoSem

(* An instruction that does not store a package has such an effect. *)
LEMMA InstructionContext ==
  ASSUME TypeOK, NEW c \in Cpus, Instruction(c),
         \A x \in Slots, new \in Templates : ~StorePackage(c, x, new)
  PROVE ContextEffect(c)
<1> DEFINE Quiet == /\ pc[c] = "run" /\ mem' = mem /\ sm' = sm /\ pc'[c] \in {"run", "idle"}
<1>1. ctx[c] \in Context
  BY DEF TypeOK
<1>2. ctx[c].mode \in SUBSET ModeBit
  BY <1>1 DEF Context
<1>3. \A d \in Cpus : pc[d] = "exchange" => ctx'[d] = ctx[d]
  BY InstructionStep, OthersUntouched DEF InstructionEffect, Private
<1>4. ASSUME Quiet, ctx' = ctx PROVE ContextEffect(c)
  BY <1>4, <1>3 DEF ContextEffect, SameButAddress
<1>5. ASSUME Quiet, NEW new, ctx' = [ctx EXCEPT ![c] = new],
             SameButAddress(ctx[c], new), new.p = ctx[c].p
      PROVE ContextEffect(c)
  BY <1>5, <1>3 DEF ContextEffect, TypeOK
<1>6. CASE \/ \E d \in Cpus : SIPI(c, d)
           \/ CIPI(c) \/ MC(c) \/ CCI(c) \/ ERR(c) \/ EX(c) \/ ProgramRangeError(c)
           \/ OperandRangeError(c)
  BY <1>6, <1>4
  DEF SIPI, CIPI, MC, CCI, ERR, EX, ProgramRangeError, OperandRangeError, Monitor, Execute,
      SetFlags, Break, TypeOK, clusterVars
<1>7. CASE (\E n \in Limits : PCI(c, n)) \/ ECI(c) \/ DCI(c)
  BY <1>7, <1>4 DEF PCI, ECI, DCI, Monitor, Execute, SetTimer, Break, TypeOK, clusterVars
<1>8. CASE (\E x \in XaOf[c] : XA(c, x)) \/ ERI(c) \/ DRI(c)
  <2>1. PICK new : /\ SetContext(c, new) /\ pc[c] = "run"
                   /\ SameButAddress(ctx[c], new) /\ new.p = ctx[c].p
    <3>1. \A x : SameButAddress(ctx[c], [ctx[c] EXCEPT !.xa = x])
                 /\ [ctx[c] EXCEPT !.xa = x].p = ctx[c].p
      BY <1>1 DEF Context, SameButAddress
    <3>2. \A m : /\ SameButAddress(ctx[c], [ctx[c] EXCEPT !.mode = m])
                 /\ [ctx[c] EXCEPT !.mode = m].p = ctx[c].p
      BY <1>1 DEF Context, SameButAddress
    <3> QED
      BY <1>8, <3>1, <3>2 DEF XA, ERI, DRI, Monitor, Execute
  <2> QED
    BY <2>1, <1>5 DEF SetContext, Continue, clusterVars
<1>9. CASE EFI(c) \/ DFI(c)
  <2>1. PICK m : ctx' = [ctx EXCEPT ![c] = [ctx[c] EXCEPT !.mode = m]]
    BY <1>9 DEF EFI, DFI, FloatingPointInterrupts
  <2>2. SameButAddress(ctx[c], [ctx[c] EXCEPT !.mode = m])
        /\ [ctx[c] EXCEPT !.mode = m].p = ctx[c].p
    BY <2>1, <1>1 DEF Context, SameButAddress
  <2> QED
    BY <1>9, <2>1, <2>2, <1>5
    DEF EFI, DFI, FloatingPointInterrupts, Execute, Continue, clusterVars
<1>10. ASSUME NEW k \in 0 .. ClusterCnt, CLN(c, k) PROVE ContextEffect(c)
  <2>1. /\ pc[c] = "run" /\ mem' = mem /\ sm' = sm /\ ctx' = ctx /\ pc'[c] = "cleave"
        /\ ctx[c].p = NoSem /\ incoming'[c] = [ctx[c] EXCEPT !.cluster = k]
    BY <1>10 DEF CLN, Monitor, Execute, TypeOK, clusterVars
  <2>2. incoming'[c].task = ctx[c].task /\ incoming'[c].p = NoSem
    BY <2>1, <1>1 DEF Context
  <2> QED
    BY <2>1, <2>2, <1>3 DEF ContextEffect, SameButAddress
<1>11. ASSUME NEW s \in Sems, TestAndSetNoCluster(c, s) \/ TestAndSetTakes(c, s)
       PROVE ContextEffect(c)
  <2>1. /\ pc[c] = "run" /\ mem' = mem /\ pc'[c] \in {"run", "idle"}
        /\ ctx' = [ctx EXCEPT ![c] = [ctx[c] EXCEPT !.p = s]]
    BY <1>11 DEF TestAndSetNoCluster, TestAndSetTakes, Execute, SetContext,
                 Continue, Break, TypeOK, clusterVars
  <2>2. ctx'[c].p = s /\ SameButAddress(ctx[c], ctx'[c])
    BY <2>1, <1>1 DEF Context, SameButAddress, TypeOK
  <2>3. /\ ctx[c].cluster # 0 => /\ <<ctx[c].cluster, s>> \notin sm
                                 /\ sm' = sm \cup {<<ctx[c].cluster, s>>}
        /\ ctx[c].cluster = 0 => sm' = sm
    BY <1>11 DEF TestAndSetNoCluster, TestAndSetTakes, SetContext, clusterVars
  <2> QED
    BY <2>1, <2>2, <2>3, <1>3 DEF ContextEffect, Takes
<1>12. ASSUME NEW s \in Sems, TestAndSetFails(c, s) PROVE ContextEffect(c)
  <2>1. [ctx[c] EXCEPT !.p = ctx[c].p] = ctx[c]
    BY <1>1 DEF Context
  <2>2. ctx' = ctx
    BY <1>12, <2>1 DEF TestAndSetFails, BlockedAt, TypeOK
  <2> QED
    BY <1>12, <2>2, <1>4 DEF TestAndSetFails, Execute, Break, TypeOK
<1>13. ASSUME NEW s \in Sems, SetSemaphore(c, s) PROVE ContextEffect(c)
  BY <1>13, <1>3
  DEF SetSemaphore, Execute, Break, TypeOK, ContextEffect, SameButAddress
<1>14. CASE ClearSemaphore(c)
  <2>1. ctx' = [ctx EXCEPT ![c] = [ctx[c] EXCEPT !.p = NoSem]]
    BY <1>14 DEF ClearSemaphore
  <2>2. ctx'[c].p = NoSem /\ SameButAddress(ctx[c], ctx'[c])
    BY <2>1, <1>1 DEF Context, SameButAddress, TypeOK
  <2> QED
    BY <1>14, <2>2, <1>3
    DEF ClearSemaphore, Execute, TypeOK, ContextEffect, Clears
<1> QED
  BY <1>6, <1>7, <1>8, <1>9, <1>10, <1>11, <1>12, <1>13, <1>14 DEF Instruction

-----------------------------------------------------------------------------
(* Contexts stay in one place *)

(* A CPU whose private state a step leaves alone keeps its context and its *)
(* part in an exchange.                                                    *)
LEMMA PrivatePlaces ==
  ASSUME NEW d \in Cpus, UNCHANGED Private(d)
  PROVE /\ Holds(d)' = Holds(d) /\ (d \in Exchanging' <=> d \in Exchanging)
        /\ incoming'[d] = incoming[d] /\ ctx'[d] = ctx[d] /\ pc'[d] = pc[d]
BY DEF Private, Holds, Exchanging

(* A step of CPU c that neither begins nor ends the reading of a package   *)
(* and keeps the task of c moves no context.                               *)
LEMMA PlacesKept ==
  ASSUME PlacesInv, NEW c \in Cpus, mem' = mem,
         \A d \in Cpus : d # c => UNCHANGED Private(d),
         Holds(c)'.task = Holds(c).task,
         c \in Exchanging' <=> c \in Exchanging,
         c \in Exchanging => incoming'[c] = incoming[c] /\ ctx'[c] = ctx[c]
  PROVE PlacesInv'
<1>1. \A d \in Cpus : /\ Holds(d)'.task = Holds(d).task
                      /\ d \in Exchanging' <=> d \in Exchanging
                      /\ d \in Exchanging => incoming'[d] = incoming[d] /\ ctx'[d] = ctx[d]
  BY PrivatePlaces
<1>2. Exchanging' = Exchanging /\ Exchanging \subseteq Cpus
  BY <1>1 DEF Exchanging
<1> QED
  BY <1>1, <1>2 DEF PlacesInv, ContextsUnique

(* An exchange reads a package that no other one is about to overwrite.    *)
LEMMA PlacesBeginExchange ==
  ASSUME TypeOK, PlacesInv, PackagesApart', NEW c \in Cpus, BeginExchange(c)
  PROVE PlacesInv'
<1>1. /\ pc[c] = "idle" /\ mem' = mem /\ ctx' = ctx
      /\ incoming'[c] = mem[ctx[c].xa].ctx /\ pc'[c] = "exchange"
  BY DEF BeginExchange, BeginTick, TypeOK
<1>2. \A d \in Cpus : d # c => UNCHANGED Private(d)
  BY OthersUntouched DEF Tick
<1>3. Holds(c)' = Holds(c) /\ c \notin Exchanging
  BY <1>1 DEF Holds, Exchanging
<1>4. \A d \in Cpus : Holds(d)' = Holds(d)
  BY <1>2, <1>3, PrivatePlaces
<1>5. Exchanging' = Exchanging \cup {c} /\ Exchanging \subseteq Cpus
  BY <1>1, <1>2, PrivatePlaces DEF Exchanging
<1>6. \A d \in Exchanging : incoming'[d] = incoming[d]
  BY <1>2, <1>3, <1>5, PrivatePlaces
<1>7. ctx[c].xa \in Slots
  BY PackageType
<1>8. \A d \in Exchanging : ctx[d].xa # ctx[c].xa
  BY <1>1, <1>3, <1>5 DEF PackagesApart
<1>9. \A d \in Exchanging : incoming[d].task # mem[ctx[c].xa].ctx.task
  BY <1>7, <1>8 DEF PlacesInv
<1>10. ContextsUnique'
  BY <1>1, <1>4 DEF PlacesInv, ContextsUnique
<1>11. ASSUME NEW e \in Exchanging'
       PROVE /\ \A d \in Cpus : incoming'[e].task # Holds(d)'.task
             /\ \A d \in Exchanging' : d # e => incoming'[e].task # incoming'[d].task
             /\ \A x \in Slots : incoming'[e].task = mem'[x].ctx.task => x = ctx'[e].xa
  <2>1. CASE e = c
    BY <2>1, <1>1, <1>4, <1>5, <1>6, <1>7, <1>9 DEF PlacesInv, ContextsUnique
  <2>2. CASE e # c
    BY <2>2, <1>1, <1>4, <1>5, <1>6, <1>7, <1>9 DEF PlacesInv
  <2> QED
    BY <2>1, <2>2
<1> QED
  BY <1>10, <1>11 DEF PlacesInv

(* The exchange overwrites the package with the context it saves: the old  *)
(* one takes the place of the new one.                                     *)
LEMMA PlacesCreateExchangePacket ==
  ASSUME TypeOK, PlacesInv, NEW c \in Cpus, CreateExchangePacket(c)
  PROVE PlacesInv'
<1> DEFINE xa == ctx[c].xa
<1>1. /\ pc[c] = "exchange" /\ pc'[c] = "xleave" /\ ctx' = ctx /\ incoming' = incoming
  BY DEF CreateExchangePacket, TypeOK
<1>2. xa \in Slots
  BY PackageType
<1>3. mem'[xa].ctx = ctx[c] /\ \A x \in Slots : x # xa => mem'[x] = mem[x]
  BY <1>2 DEF CreateExchangePacket, WriteExchangePacket, TypeOK
<1>4. \A d \in Cpus : d # c => UNCHANGED Private(d)
  BY OthersUntouched DEF Tick
<1>5. Holds(c) = ctx[c] /\ Holds(c)' = incoming[c]
  BY <1>1 DEF Holds
<1>6. \A d \in Cpus : d # c => Holds(d)' = Holds(d)
  BY <1>4, PrivatePlaces
<1>7. Exchanging' = Exchanging \ {c} /\ c \in Exchanging /\ Exchanging \subseteq Cpus
  BY <1>1, <1>4, PrivatePlaces DEF Exchanging
<1> HIDE DEF xa
<1>8. ContextsUnique'
  <2>1. ASSUME NEW d \in Cpus, NEW e \in Cpus, d # e PROVE Holds(d)'.task # Holds(e)'.task
    BY <2>1, <1>5, <1>6, <1>7 DEF PlacesInv, ContextsUnique
  <2>2. ASSUME NEW x \in Slots, NEW y \in Slots, x # y
        PROVE mem'[x].ctx.task # mem'[y].ctx.task
    BY <2>2, <1>3, <1>5 DEF PlacesInv, ContextsUnique
  <2>3. ASSUME NEW d \in Cpus, NEW x \in Slots PROVE Holds(d)'.task # mem'[x].ctx.task
    <3>1. CASE d = c
      BY <3>1, <1>3, <1>5, <1>7 DEF PlacesInv, xa
    <3>2. CASE d # c
      BY <3>2, <1>3, <1>5, <1>6 DEF PlacesInv, ContextsUnique
    <3> QED
      BY <3>1, <3>2
  <2> QED
    BY <2>1, <2>2, <2>3 DEF ContextsUnique
<1>9. ASSUME NEW e \in Exchanging'
      PROVE /\ \A d \in Cpus : incoming'[e].task # Holds(d)'.task
            /\ \A d \in Exchanging' : d # e => incoming'[e].task # incoming'[d].task
            /\ \A x \in Slots : incoming'[e].task = mem'[x].ctx.task => x = ctx'[e].xa
  <2>1. e \in Exchanging /\ e # c
    BY <1>7
  <2>2. ASSUME NEW d \in Cpus PROVE incoming'[e].task # Holds(d)'.task
    BY <2>1, <1>1, <1>5, <1>6, <1>7 DEF PlacesInv
  <2>3. ASSUME NEW x \in Slots, incoming'[e].task = mem'[x].ctx.task PROVE x = ctx'[e].xa
    BY <2>1, <2>3, <1>1, <1>3, <1>5, <1>7 DEF PlacesInv
  <2> QED
    BY <2>1, <2>2, <2>3, <1>1, <1>7 DEF PlacesInv
<1> QED
  BY <1>8, <1>9 DEF PlacesInv

(* A context the operating system stores is held nowhere else. *)
LEMMA PlacesStorePackage ==
  ASSUME TypeOK, PlacesInv, NEW c \in Cpus, NEW x \in Slots, NEW new \in Templates,
         StorePackage(c, x, new)
  PROVE PlacesInv'
<1>1. /\ pc' = pc /\ ctx' = ctx /\ incoming' = incoming
      /\ mem'[x].ctx = new /\ \A y \in Slots : y # x => mem'[y] = mem[y]
  BY DEF StorePackage, Continue, TypeOK
<1>2. \A d \in Cpus : Holds(d)' = Holds(d) /\ Holds(d).task # new.task
  BY <1>1 DEF Holds, StorePackage, Live
<1>3. Exchanging' = Exchanging /\ \A d \in Exchanging : incoming[d].task # new.task
  BY <1>1 DEF Exchanging, StorePackage, Live
<1>4. \A y \in Slots : mem[y].ctx.task # new.task
  BY DEF StorePackage, Live
<1>5. ContextsUnique'
  BY <1>1, <1>2, <1>4 DEF PlacesInv, ContextsUnique
<1>6. ASSUME NEW e \in Exchanging', NEW y \in Slots, incoming'[e].task = mem'[y].ctx.task
      PROVE y = ctx'[e].xa
  BY <1>6, <1>1, <1>3 DEF PlacesInv
<1> QED
  BY <1>1, <1>2, <1>3, <1>5, <1>6 DEF PlacesInv

LEMMA PlacesStep ==
  ASSUME TypeOK, PlacesInv, ClnInv, PackagesApart', [Next]_vars PROVE PlacesInv'
<1>1. ASSUME NEW c \in Cpus, Tick(c) PROVE PlacesInv'
  <2>1. CASE BeginBurst(c) \/ LeaveCluster(c) \/ JoinCluster(c) \/ EndBurst(c)
    <3>1. mem' = mem /\ pc[c] # "exchange" /\ pc'[c] # "exchange"
      BY <2>1 DEF BeginBurst, BeginTick, LeaveCluster, JoinCluster, EndBurst, TypeOK
    <3>2. Holds(c)'.task = Holds(c).task
      BY <2>1 DEF BeginBurst, BeginTick, LeaveCluster, JoinCluster, EndBurst, TypeOK, Holds,
                  ClnInv
    <3>3. \A d \in Cpus : d # c => UNCHANGED Private(d)
      BY <1>1, OthersUntouched
    <3> QED
      BY <3>1, <3>2, <3>3, PlacesKept DEF Exchanging
  <2> QED
    BY <1>1, <2>1, PlacesBeginExchange, PlacesCreateExchangePacket DEF Tick
<1>2. ASSUME NEW c \in Cpus, Instruction(c) PROVE PlacesInv'
  <2>1. CASE \E x \in Slots, new \in Templates : StorePackage(c, x, new)
    BY <2>1, PlacesStorePackage
  <2>2. CASE \A x \in Slots, new \in Templates : ~StorePackage(c, x, new)
    <3>1. ContextEffect(c)
      BY <1>2, <2>2, InstructionContext
    <3>2. Holds(c)'.task = Holds(c).task /\ c \notin Exchanging /\ c \notin Exchanging'
      BY <3>1 DEF ContextEffect, SameButAddress, Holds, Exchanging
    <3>3. \A d \in Cpus : d # c => UNCHANGED Private(d)
      BY <1>2, OthersUntouched
    <3> QED
      BY <3>1, <3>2, <3>3, PlacesKept DEF ContextEffect
  <2> QED
    BY <2>1, <2>2
<1>3. CASE CpuMasterClearNext
  <2>1. PICK m \in Cpus : m = mcNext
    BY <1>3, MasterClearStep
  <2>2. /\ pc[m] = "idle" /\ pc' = pc
        /\ \A d \in Cpus : d # m => UNCHANGED Private(d)
    BY <1>3, <2>1, MasterClearStep
  <2>3. ctx'[m].task = ctx[m].task /\ mem' = mem
    BY <1>3, <2>1 DEF CpuMasterClearNext, MasterClear, TypeOK, Context
  <2>4. Holds(m)'.task = Holds(m).task
    BY <2>2, <2>3 DEF Holds
  <2> QED
    BY <2>2, <2>3, <2>4, PlacesKept DEF Exchanging
<1>4. CASE CpuMasterClearOn \/ CpuMasterClearOff \/ RouteChannelInterrupt \/ UNCHANGED vars
  <2>1. mem' = mem /\ \A d \in Cpus : UNCHANGED Private(d)
    BY <1>4 DEF CpuMasterClearOn, CpuMasterClearOff, RouteChannelInterrupt, vars, cpuVars,
                Private
  <2>2. 0 \in Cpus
    BY ConstantsAssumption DEF Cpus
  <2> QED
    BY <2>1, <2>2, PrivatePlaces, PlacesKept
<1> QED
  BY <1>1, <1>2, <1>3, <1>4 DEF Next, MainThread

-----------------------------------------------------------------------------
(* CLN *)

LEMMA ClnStep ==
  ASSUME TypeOK, ClnInv, [Next]_vars PROVE ClnInv'
<1> DEFINE Good(d) == pc[d] \in {"cleave", "cjoin"} =>
                        incoming[d].task = ctx[d].task /\ incoming[d].p = NoSem
<1>1. SUFFICES ASSUME NEW d \in Cpus PROVE Good(d)'
  BY DEF ClnInv
<1>2. Good(d)
  BY DEF ClnInv
<1>3. CASE UNCHANGED Private(d)
  BY <1>2, <1>3 DEF Private
<1>4. CASE Tick(d)
  BY <1>4, <1>2
  DEF Tick, BeginExchange, BeginBurst, BeginTick, CreateExchangePacket, LeaveCluster,
      JoinCluster, EndBurst, TypeOK
<1>5. CASE Instruction(d)
  <2>1. CASE \E x \in Slots, new \in Templates : StorePackage(d, x, new)
    BY <2>1 DEF StorePackage, Monitor, Execute, Continue
  <2>2. CASE \A x \in Slots, new \in Templates : ~StorePackage(d, x, new)
    <3>1. ContextEffect(d)
      BY <1>5, <2>2, InstructionContext
    <3> QED
      BY <3>1 DEF ContextEffect, SameButAddress
  <2> QED
    BY <2>1, <2>2
<1>6. CASE CpuMasterClearNext
  <2>1. CASE d = mcNext
    BY <1>6, <2>1, MasterClearStep
  <2>2. CASE d # mcNext
    BY <1>6, <2>2, <1>3, MasterClearStep
  <2> QED
    BY <2>1, <2>2
<1>7. CASE CpuMasterClearOn \/ CpuMasterClearOff \/ RouteChannelInterrupt \/ UNCHANGED vars
  BY <1>7, <1>3
  DEF CpuMasterClearOn, CpuMasterClearOff, RouteChannelInterrupt, vars, cpuVars, Private
<1>8. ASSUME NEW c \in Cpus, c # d, Tick(c) \/ Instruction(c) PROVE Good(d)'
  BY <1>8, <1>3, OthersUntouched
<1> QED
  BY <1>4, <1>5, <1>6, <1>7, <1>8 DEF Next, MainThread

-----------------------------------------------------------------------------
(* Test-and-set excludes *)

(* A context whose program address, cluster and task are those of one that *)
(* is somewhere.                                                           *)
From(u, v) == v.p = u.p /\ v.cluster = u.cluster /\ v.task = u.task
Known(v) == v.p = NoSem \/ \E u \in AllContexts : From(u, v)

LEMMA KnownItself == \A v \in AllContexts : Known(v)
BY DEF Known, From

(* A step of CPU c that writes no package brings at most the contexts of c *)
(* itself.                                                                 *)
LEMMA OwnContexts ==
  ASSUME NEW c \in Cpus, mem' = mem, \A d \in Cpus : d # c => UNCHANGED Private(d)
  PROVE \A v \in AllContexts' : \/ v = Holds(c)'
                                \/ c \in Exchanging' /\ v = incoming'[c]
                                \/ \E d \in Cpus : d # c /\ v = Holds(d)
                                \/ \E d \in Exchanging : d # c /\ v = incoming[d]
                                \/ \E x \in Slots : v = mem[x].ctx
<1> SUFFICES ASSUME NEW v \in AllContexts'
             PROVE \/ v = Holds(c)'
                   \/ c \in Exchanging' /\ v = incoming'[c]
                   \/ \E d \in Cpus : d # c /\ v = Holds(d)
                   \/ \E d \in Exchanging : d # c /\ v = incoming[d]
                   \/ \E x \in Slots : v = mem[x].ctx
  OBVIOUS
<1>1. CASE \E d \in Cpus : v = Holds(d)'
  <2>1. PICK d \in Cpus : v = Holds(d)'
    BY <1>1
  <2>2. CASE d = c
    BY <2>1, <2>2 DEF Holds
  <2>3. CASE d # c
    <3>1. v = Holds(d)
      BY <2>1, <2>3, PrivatePlaces
    <3> QED
      BY <2>3, <3>1
  <2> QED
    BY <2>2, <2>3
<1>2. CASE \E x \in Slots : v = mem'[x].ctx
  BY <1>2
<1>3. CASE \E d \in Exchanging' : v = incoming'[d]
  <2>1. PICK d \in Exchanging' : v = incoming'[d]
    BY <1>3
  <2>2. d \in Cpus
    BY DEF Exchanging
  <2> QED
    BY <2>1, <2>2, PrivatePlaces
<1> QED
  BY <1>1, <1>2, <1>3 DEF AllContexts, Contexts

(* Every place holds a context. *)
LEMMA PlacesKnown ==
  /\ \A d \in Cpus : Holds(d) \in AllContexts
  /\ \A d \in Exchanging : incoming[d] \in AllContexts
  /\ \A x \in Slots : mem[x].ctx \in AllContexts
BY DEF AllContexts, Contexts

(* The exclusion survives a step that sets semaphores at most and moves    *)
(* contexts about.                                                         *)
LEMMA SemaphoresKept ==
  ASSUME SemaphoreInv, sm \subseteq sm', \A v \in AllContexts' : Known(v)
  PROVE SemaphoreInv'
<1>1. ASSUME NEW u \in AllContexts', NEW v \in AllContexts', u.p # NoSem, u.cluster # 0
      PROVE /\ <<u.cluster, u.p>> \in sm'
            /\ v.cluster = u.cluster /\ v.p = u.p => u.task = v.task
  BY <1>1 DEF SemaphoreInv, Known, From
<1> QED
  BY <1>1 DEF SemaphoreInv

(* The same for a step of CPU c of which only its own contexts are new.    *)
LEMMA OwnContextsKept ==
  ASSUME SemaphoreInv, NEW c \in Cpus, mem' = mem, sm \subseteq sm',
         \A d \in Cpus : d # c => UNCHANGED Private(d),
         Known(Holds(c)'), c \in Exchanging' => Known(incoming'[c])
  PROVE SemaphoreInv'
<1>1. \A v \in AllContexts' : Known(v)
  BY OwnContexts, PlacesKnown, KnownItself
<1> QED
  BY <1>1, SemaphoresKept

(* A test-and-set that succeeds: nobody held a semaphore that was clear.   *)
LEMMA SemaphoreTakes ==
  ASSUME TypeOK, SemaphoreInv, NEW c \in Cpus, NEW s \in Sems, mem' = mem,
         pc[c] = "run", pc'[c] \in {"run", "idle"}, SameButAddress(ctx[c], ctx'[c]),
         \A d \in Cpus : d # c => UNCHANGED Private(d), Takes(c, s)
  PROVE SemaphoreInv'
<1> DEFINE new == ctx'[c]
<1>1. Holds(c)' = new /\ Holds(c) = ctx[c] /\ c \notin Exchanging'
  BY DEF Holds, Exchanging
<1>2. \A v \in AllContexts' : v = new \/ v \in AllContexts
  BY <1>1, OwnContexts, PlacesKnown
<1>3. new.p = s /\ new.cluster = ctx[c].cluster
  BY DEF Takes, SameButAddress
<1>4. sm \subseteq sm'
  BY DEF Takes
<1> HIDE DEF new
<1>5. ASSUME NEW u \in AllContexts', NEW v \in AllContexts', u.p # NoSem, u.cluster # 0
      PROVE /\ <<u.cluster, u.p>> \in sm'
            /\ v.cluster = u.cluster /\ v.p = u.p => u.task = v.task
  <2>1. ASSUME NEW w \in AllContexts, w.p = new.p, w.cluster = new.cluster, new.cluster # 0,
               new.p # NoSem
        PROVE FALSE
    BY <2>1, <1>3 DEF SemaphoreInv, Takes
  <2>2. CASE u = new
    <3>1. <<u.cluster, u.p>> \in sm'
      BY <2>2, <1>3, <1>5 DEF Takes
    <3> QED
      BY <3>1, <2>1, <2>2, <1>2, <1>5
  <2>3. CASE u \in AllContexts
    <3>1. <<u.cluster, u.p>> \in sm'
      BY <2>3, <1>4, <1>5 DEF SemaphoreInv
    <3> QED
      BY <3>1, <2>1, <2>3, <1>2, <1>5 DEF SemaphoreInv
  <2> QED
    BY <2>2, <2>3, <1>2
<1> QED
  BY <1>5 DEF SemaphoreInv

(* Only the holder clears a semaphore: whoever else is somewhere is in     *)
(* another critical section, since no other context has the task of c.     *)
LEMMA SemaphoreClears ==
  ASSUME TypeOK, PlacesInv, SemaphoreInv, NEW c \in Cpus, mem' = mem,
         pc[c] = "run", pc'[c] \in {"run", "idle"}, SameButAddress(ctx[c], ctx'[c]),
         \A d \in Cpus : d # c => UNCHANGED Private(d), Clears(c)
  PROVE SemaphoreInv'
<1>1. Holds(c)' = ctx'[c] /\ Holds(c) = ctx[c] /\ c \notin Exchanging'
  BY DEF Holds, Exchanging
<1>2. \A v \in AllContexts' : \/ v.p = NoSem
                              \/ v \in AllContexts /\ v.task # ctx[c].task
  <2> SUFFICES ASSUME NEW v \in AllContexts', v.p # NoSem
               PROVE v \in AllContexts /\ v.task # ctx[c].task
    OBVIOUS
  <2>1. \/ \E d \in Cpus : d # c /\ v = Holds(d)
        \/ \E d \in Exchanging : d # c /\ v = incoming[d]
        \/ \E x \in Slots : v = mem[x].ctx
    BY <1>1, OwnContexts DEF Clears
  <2> QED
    BY <2>1, <1>1, PlacesKnown DEF PlacesInv, ContextsUnique
<1>3. ctx[c] \in AllContexts /\ ctx[c].p # NoSem
  BY <1>1, PlacesKnown DEF Clears
<1>4. ASSUME NEW u \in AllContexts', NEW v \in AllContexts', u.p # NoSem, u.cluster # 0
      PROVE /\ <<u.cluster, u.p>> \in sm'
            /\ v.cluster = u.cluster /\ v.p = u.p => u.task = v.task
  <2>1. u \in AllContexts /\ u.task # ctx[c].task
    BY <1>2, <1>4
  <2>2. <<u.cluster, u.p>> \in sm
    BY <2>1, <1>4 DEF SemaphoreInv
  <2>3. <<u.cluster, u.p>> # <<ctx[c].cluster, ctx[c].p>>
    BY <2>1, <1>3, <1>4 DEF SemaphoreInv
  <2>4. v.p # NoSem => v \in AllContexts
    BY <1>2
  <2> QED
    BY <2>1, <2>2, <2>3, <2>4, <1>4 DEF SemaphoreInv, Clears
<1> QED
  BY <1>4 DEF SemaphoreInv

LEMMA SemaphoreTick ==
  ASSUME TypeOK, SemaphoreInv, ClnInv, NEW c \in Cpus, Tick(c) PROVE SemaphoreInv'
<1>1. \A d \in Cpus : d # c => UNCHANGED Private(d)
  BY OthersUntouched
<1>2. sm' = sm
  BY DEF Tick, BeginExchange, BeginBurst, BeginTick, CreateExchangePacket, LeaveCluster,
         JoinCluster, EndBurst, clusterVars
<1>3. CASE BeginExchange(c)
  <2>1. /\ mem' = mem /\ Holds(c)' = Holds(c) /\ incoming'[c] = mem[ctx[c].xa].ctx
    BY <1>3 DEF BeginExchange, BeginTick, TypeOK, Holds
  <2>2. ctx[c].xa \in Slots
    BY PackageType
  <2> QED
    BY <2>1, <2>2, <1>1, <1>2, PlacesKnown, KnownItself, OwnContextsKept
<1>4. CASE BeginBurst(c) \/ LeaveCluster(c) \/ EndBurst(c)
  <2>1. mem' = mem /\ Holds(c)' = Holds(c) /\ c \notin Exchanging'
    BY <1>4 DEF BeginBurst, BeginTick, LeaveCluster, EndBurst, TypeOK, Holds, Exchanging
  <2> QED
    BY <2>1, <1>1, <1>2, PlacesKnown, KnownItself, OwnContextsKept
<1>5. CASE JoinCluster(c)
  <2>1. /\ mem' = mem /\ Holds(c)' = incoming[c] /\ c \notin Exchanging'
        /\ pc[c] \in {"xjoin", "cjoin"}
    BY <1>5 DEF JoinCluster, TypeOK, Holds, Exchanging
  <2>2. CASE pc[c] = "xjoin"
    <3>1. Holds(c)' = Holds(c)
      BY <2>1, <2>2 DEF Holds
    <3> QED
      BY <2>1, <3>1, <1>1, <1>2, PlacesKnown, KnownItself, OwnContextsKept
  <2>3. CASE pc[c] = "cjoin"
    <3>1. Known(Holds(c)')
      BY <2>1, <2>3 DEF ClnInv, Known
    <3> QED
      BY <2>1, <3>1, <1>1, <1>2, OwnContextsKept
  <2> QED
    BY <2>1, <2>2, <2>3
<1>6. CASE CreateExchangePacket(c)
  <2>1. /\ pc[c] = "exchange" /\ pc'[c] = "xleave" /\ ctx' = ctx /\ incoming' = incoming
    BY <1>6 DEF CreateExchangePacket, TypeOK
  <2>2. c \in Exchanging /\ Holds(c) = ctx[c] /\ Holds(c)' = incoming[c]
    BY <2>1 DEF Exchanging, Holds
  <2>3. \A x \in Slots : mem'[x].ctx = mem[x].ctx \/ mem'[x].ctx = Holds(c)
    BY <1>6, <2>2 DEF CreateExchangePacket, WriteExchangePacket, TypeOK
  <2>4. \A d \in Cpus : d # c => Holds(d)' = Holds(d)
    BY <1>1, PrivatePlaces
  <2>5. \A d \in Exchanging' : d \in Exchanging
    BY <2>1, <1>1, PrivatePlaces DEF Exchanging
  <2>6. \A v \in AllContexts' : v \in AllContexts
    <3> SUFFICES ASSUME NEW v \in AllContexts' PROVE v \in AllContexts
      OBVIOUS
    <3>1. CASE \E d \in Cpus : v = Holds(d)'
      BY <3>1, <2>2, <2>4, PlacesKnown
    <3>2. CASE \E x \in Slots : v = mem'[x].ctx
      BY <3>2, <2>3, PlacesKnown
    <3>3. CASE \E d \in Exchanging' : v = incoming'[d]
      BY <3>3, <2>1, <2>5, PlacesKnown
    <3> QED
      BY <3>1, <3>2, <3>3 DEF AllContexts, Contexts
  <2> QED
    BY <2>6, <1>2, KnownItself, SemaphoresKept
<1> QED
  BY <1>3, <1>4, <1>5, <1>6 DEF Tick

LEMMA SemaphoreStep ==
  ASSUME TypeOK, ContextInv, [Next]_vars PROVE SemaphoreInv'
<1> USE DEF ContextInv
<1>1. ASSUME NEW c \in Cpus, Instruction(c) PROVE SemaphoreInv'
  <2>1. \A d \in Cpus : d # c => UNCHANGED Private(d)
    BY <1>1, OthersUntouched
  <2>2. ASSUME NEW x \in Slots, NEW new \in Templates, StorePackage(c, x, new)
        PROVE SemaphoreInv'
    <3>1. pc' = pc /\ ctx' = ctx /\ incoming' = incoming /\ sm' = sm
      BY <2>2 DEF StorePackage, Continue, clusterVars
    <3>2. \A y \in Slots : mem'[y].ctx = mem[y].ctx \/ mem'[y].ctx = new
      BY <2>2 DEF StorePackage, TypeOK
    <3>3. \A d \in Cpus : Holds(d)' = Holds(d)
      BY <3>1 DEF Holds
    <3>4. Exchanging' = Exchanging
      BY <3>1 DEF Exchanging
    <3>5. new.p = NoSem
      BY TaskAssumption
    <3>6. \A v \in AllContexts' : v = new \/ v \in AllContexts
      BY <3>1, <3>2, <3>3, <3>4 DEF AllContexts, Contexts
    <3> QED
      BY <3>1, <3>5, <3>6, KnownItself, SemaphoresKept DEF Known
  <2>3. CASE \A x \in Slots, new \in Templates : ~StorePackage(c, x, new)
    <3>1. ContextEffect(c)
      BY <1>1, <2>3, InstructionContext
    <3>2. Holds(c) = ctx[c] /\ Holds(c)' = ctx'[c] /\ c \notin Exchanging'
      BY <3>1 DEF ContextEffect, Holds, Exchanging
    <3>3. CASE ctx'[c].p = ctx[c].p /\ sm \subseteq sm'
      <4>1. Known(Holds(c)')
        BY <3>1, <3>2, <3>3, PlacesKnown DEF ContextEffect, SameButAddress, Known, From
      <4> QED
        BY <3>1, <3>2, <3>3, <4>1, <2>1, OwnContextsKept DEF ContextEffect
    <3>4. CASE pc'[c] \in {"run", "idle"} /\ \E s \in Sems : Takes(c, s)
      BY <3>1, <3>4, <2>1, SemaphoreTakes DEF ContextEffect
    <3>5. CASE pc'[c] \in {"run", "idle"} /\ Clears(c)
      BY <3>1, <3>5, <2>1, SemaphoreClears DEF ContextEffect
    <3>6. pc'[c] \in {"run", "idle"} \/ (ctx[c].p = NoSem /\ ctx'[c].p = NoSem)
      BY <3>1 DEF ContextEffect
    <3>7. ctx[c].p = NoSem /\ ctx'[c].p = NoSem =>
            ~Clears(c) /\ \A s \in Sems : ~Takes(c, s)
      BY ConstantsAssumption DEF Takes, Clears, NoSem
    <3> QED
      BY <3>1, <3>3, <3>4, <3>5, <3>6, <3>7 DEF ContextEffect
  <2> QED
    BY <2>2, <2>3
<1>2. CASE CpuMasterClearNext
  <2>1. PICK m \in Cpus : m = mcNext
    BY <1>2, MasterClearStep
  <2>2. /\ pc[m] = "idle" /\ pc' = pc
        /\ \A d \in Cpus : d # m => UNCHANGED Private(d)
    BY <1>2, <2>1, MasterClearStep
  <2>3. ctx[m] \in Context /\ ctx' = [ctx EXCEPT ![m] = [ctx[m] EXCEPT !.mode = @ \ {"MM"}]]
        /\ mem' = mem /\ sm' = sm
    BY <1>2, <2>1
    DEF CpuMasterClearNext, MasterClear, ModeAfterMasterClear, TypeOK, clusterVars
  <2>4. From(ctx[m], ctx'[m])
    BY <2>3 DEF From, Context, TypeOK
  <2>5. Holds(m) = ctx[m] /\ Holds(m)' = ctx'[m] /\ m \notin Exchanging'
    BY <2>2 DEF Holds, Exchanging
  <2> QED
    BY <2>2, <2>3, <2>4, <2>5, PlacesKnown, OwnContextsKept DEF Known
<1>3. CASE CpuMasterClearOn \/ CpuMasterClearOff \/ RouteChannelInterrupt \/ UNCHANGED vars
  <2>1. pc' = pc /\ ctx' = ctx /\ incoming' = incoming /\ mem' = mem /\ sm' = sm
    BY <1>3
    DEF CpuMasterClearOn, CpuMasterClearOff, RouteChannelInterrupt, vars, cpuVars, clusterVars
  <2>2. AllContexts' = AllContexts
    BY <2>1 DEF AllContexts, Contexts, Holds, Exchanging
  <2> QED
    BY <2>1, <2>2, KnownItself, SemaphoresKept
<1> QED
  BY <1>1, <1>2, <1>3, SemaphoreTick DEF Next, MainThread

-----------------------------------------------------------------------------
LEMMA ContextInit == Init => ContextInv
<1> SUFFICES ASSUME Init PROVE ContextInv
  OBVIOUS
<1>1. /\ \A c \in Cpus : Holds(c) = Blank(c)
      /\ \A x \in Slots : mem[x].ctx = Image[x]
      /\ Exchanging = {}
  BY DEF Init, Holds, Exchanging
<1>2. \A c \in Cpus : Blank(c).task = BootTask[c] /\ Blank(c).p = NoSem
  BY DEF Blank
<1>3. PlacesInv
  BY <1>1, <1>2, TaskAssumption DEF PlacesInv, ContextsUnique
<1>4. \A u \in AllContexts : u.p = NoSem
  BY <1>1, <1>2, TaskAssumption DEF AllContexts, Contexts
<1>5. ClnInv
  BY DEF Init, ClnInv
<1> QED
  BY <1>3, <1>4, <1>5 DEF ContextInv, SemaphoreInv

LEMMA ContextInvCorrect == Spec /\ []PackagesApart => []ContextInv
<1>1. TypeOK /\ ContextInv /\ PackagesApart' /\ [Next]_vars => ContextInv'
  BY PlacesStep, ClnStep, SemaphoreStep DEF ContextInv
<1> QED
  BY <1>1, ContextInit, TypeCorrect, PTL DEF Spec

(* No context is copied or lost: whatever exchanges, stores and master     *)
(* clears interleave, no two CPUs, no two packages and no CPU and package  *)
(* hold the same one, as long as no two CPUs exchange with one package.    *)
THEOREM ContextsInOnePlace == Spec /\ []PackagesApart => []ContextsUnique
<1>1. ContextInv => ContextsUnique
  BY DEF ContextInv, PlacesInv
<1> QED
  BY <1>1, ContextInvCorrect, PTL

(* Test-and-set excludes, through exchanges between a failed test-and-set  *)
(* and its retry, semaphores that anybody sets, and contexts that are      *)
(* saved inside their critical section.                                    *)
THEOREM SemaphoresExclude == Spec /\ []PackagesApart => []SemaphoreExclusion
<1>1. ContextInv => SemaphoreExclusion
  BY DEF ContextInv, SemaphoreInv, SemaphoreExclusion, AllContexts
<1> QED
  BY <1>1, ContextInvCorrect, PTL
=============================================================================

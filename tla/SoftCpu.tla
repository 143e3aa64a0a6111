------------------------------ MODULE SoftCpu ------------------------------
(***************************************************************************)
(* The mainframe's processors: SoftCpu_c (cray_softcpu.h/.cpp and the      *)
(* instruction files it includes), the inter-processor clusters            *)
(* InterCpuCluster_c and the master-clear and interrupt-routing half of    *)
(* Mainframe_c.                                                            *)
(*                                                                         *)
(* Every CPU runs in a thread of its own that calls Tick() forever         *)
(* (CpuThread in cray_sim.cpp); the main thread runs the I/O processors    *)
(* and, through them, master clear and dead start.  Threads share          *)
(*   - the four interrupt latches of every CPU (std::atomic_flag),         *)
(*   - the exchange packages in memory,                                    *)
(*   - the semaphores and the two counters of every cluster, the counters  *)
(*     under ClusterMutex, which no code holds across another lock, so a   *)
(*     critical section is one step,                                       *)
(*   - mMasterClearLock, held by Tick() from its first line to its last:   *)
(*     a CPU holds its own lock exactly while pc[c] # "idle".              *)
(* Everything else of a CPU is touched by its own thread only.             *)
(*                                                                         *)
(* What the guest program does is arbitrary, in user and in monitor mode,  *)
(* except for four things the code does not enforce.  A context            *)
(*   - enters the critical section of a semaphore with test-and-set and    *)
(*     clears only the semaphore it holds: its program address p is the    *)
(*     semaphore held or NoSem,                                            *)
(*   - does not leave its cluster (CLN) while it holds a semaphore,        *)
(*   - uses the exchange addresses of its CPU (XaOf),                      *)
(*   - stores into a package a context that is nowhere else.               *)
(***************************************************************************)
EXTENDS Integers, FiniteSets

CONSTANTS
  CpuCnt,          \* number of CPUs
  ClusterCnt,      \* number of clusters; cluster 0 means "none"
  Sems,            \* semaphores of a cluster (SM0..SM31)
  Slots,           \* exchange packages in memory, by exchange address
  BootSlot,        \* exchange address of a CPU that was never dead started
  Task,            \* contents of the A/S registers that tell contexts apart
  BootTask,        \* what the registers of CPU c hold before its first exchange
  Image,           \* the packages the IOP loads into memory before dead start
  Templates,       \* contexts the operating system may store into a package
  XaOf,            \* exchange addresses the operating system uses on CPU c
  Insts,           \* instructions and events the guest may perform
  StartupCpu,      \* StartupCpuIdx of the configuration
  Limits,          \* values the guest loads with PCI
  TimerIncrement,  \* TimerIncrement of the configuration
  SizeMod          \* size_t is counted modulo SizeMod (2^64 in the build)

NoSem == -1
Cpus == 0 .. CpuCnt - 1
Clusters == 1 .. ClusterCnt
ModeBit == {"MM", "IMM", "ORE", "FPE", "ME", "SEI"}
Latched == {"ICP", "DL", "MCU", "IOI"}
Flag == Latched \cup {"PCI", "ORE", "PRE", "FPE", "ME", "EEX", "NEX"}

(* The part of CpuState_s that an exchange package carries. *)
Context == [task : Task, p : Sems \cup {NoSem}, mode : SUBSET ModeBit,
            cluster : 0 .. ClusterCnt, xa : Slots]
Packet == [ctx : Context, flags : SUBSET Flag]

ASSUME ConstantsAssumption ==
  /\ CpuCnt \in Nat \ {0}
  /\ ClusterCnt \in Nat
  /\ Sems \subseteq Nat
  /\ BootSlot \in Slots
  /\ BootTask \in [Cpus -> Task]
  /\ Image \in [Slots -> Context]
  /\ Templates \subseteq Context
  /\ XaOf \in [Cpus -> SUBSET Slots]
  /\ StartupCpu \in Cpus
  /\ Limits \subseteq Nat
  /\ TimerIncrement \in Nat \ {0}
  /\ SizeMod \in Nat \ {0}

(* Tasks tell contexts apart: the CPUs and the packages of the image start *)
(* with different ones, and no context is prepared past a test-and-set.    *)
ASSUME TaskAssumption ==
  /\ \A c, d \in Cpus : c # d => BootTask[c] # BootTask[d]
  /\ \A x, y \in Slots : x # y => Image[x].task # Image[y].task
  /\ \A c \in Cpus, x \in Slots : BootTask[c] # Image[x].task
  /\ \A x \in Slots : Image[x].p = NoSem
  /\ \A t \in Templates : t.p = NoSem

VARIABLES
  pc,         \* where the thread of CPU c is in Tick()
  inReset,    \* mInReset
  ctx,        \* the registers of mState
  incoming,   \* NewContext of Exchange(), or the target of SetCluster()
  flags,      \* mState.Flags
  latch,      \* the interrupts whose mNot... latch is clear
  tsBlocked,  \* mState.TestAndSetBlocked
  timer,      \* PeriodicInterruptCountDown, ...Limit and ...Enabled
  mem,        \* the exchange packages in memory
  sm,         \* the semaphores that are set, as pairs <<cluster, index>>
  cpuCnt,     \* ClusterCpuCnt
  tsCnt,      \* TestAndSetBlockedCnt
  mcOn,       \* mCpuMasterClear
  mcNext      \* next CPU of the loop in CpuMasterClear(true); CpuCnt: none

cpuVars == <<pc, inReset, ctx, incoming, flags, latch, tsBlocked, timer>>
clusterVars == <<sm, cpuCnt, tsCnt>>
mainVars == <<mcOn, mcNext>>
vars == <<cpuVars, mem, clusterVars, mainVars>>

-----------------------------------------------------------------------------
(* Mode and interrupt arithmetic *)

IsMonitorMode(c) == "MM" \in ctx[c].mode

(* The interrupts that may fire.  Nothing in the program raises FPE or ME. *)
InterruptMaskFromState(mode, reset) ==
  IF "MM" \in mode
  THEN {"MCU", "ME", "EEX", "NEX"}
         \cup (IF "IMM" \in mode THEN {"DL", "FPE", "ORE", "PRE"}
               ELSE IF reset THEN {"ICP"} ELSE {})
  ELSE {"ICP", "DL", "PCI", "MCU", "PRE", "IOI", "EEX", "NEX"}
         \cup (mode \cap {"ORE", "FPE", "ME"})

(* The flags CreateExchangePacket clears: all but the programmable clock,  *)
(* which the operating system clears with CCI.                             *)
ClearedByExchange == Flag \ {"PCI"}

HandleCountersNoReload(t) == [t EXCEPT !.count = @ - TimerIncrement]
HandleCounters(t) ==
  [t EXCEPT !.count = IF t.count = 0 THEN t.limit
                      ELSE IF t.count < TimerIncrement THEN 0
                      ELSE t.count - TimerIncrement]

(* HandleCounters followed by MirrorExternalInterrupts: mState.Flags as    *)
(* CheckInterrupts sees it.                                                *)
MirrorAllButIo(c) ==
  flags[c] \cup (latch[c] \ {"IOI"})
           \cup (IF timer[c].count = 0 /\ timer[c].on THEN {"PCI"} ELSE {})
MirrorExternalInterrupts(c) ==
  flags[c] \cup latch[c]
           \cup (IF timer[c].count = 0 /\ timer[c].on THEN {"PCI"} ELSE {})

(* CheckInterrupts *)
FiringOutOfReset(c) ==
  IF inReset[c] THEN {}
  ELSE MirrorExternalInterrupts(c) \cap InterruptMaskFromState(ctx[c].mode, FALSE)
Firing(c) ==
  MirrorExternalInterrupts(c) \cap InterruptMaskFromState(ctx[c].mode, inReset[c])

SetLatch(c, f) == latch' = [latch EXCEPT ![c] = @ \cup {f}]

-----------------------------------------------------------------------------
(* The registers before the first exchange; also what incoming[c] holds    *)
(* while the local variable it stands for is out of scope.                 *)
Blank(c) == [task |-> BootTask[c], p |-> NoSem, mode |-> {}, cluster |-> 0,
             xa |-> BootSlot]

Init ==
  /\ pc = [c \in Cpus |-> "idle"]
  /\ inReset = [c \in Cpus |-> TRUE]
  /\ ctx = [c \in Cpus |-> Blank(c)]
  /\ incoming = [c \in Cpus |-> Blank(c)]
  /\ flags = [c \in Cpus |-> {}]
  /\ latch = [c \in Cpus |-> {}]
  /\ tsBlocked = [c \in Cpus |-> FALSE]
  /\ timer = [c \in Cpus |-> [count |-> 0, limit |-> 0, on |-> FALSE]]
  /\ mem = [x \in Slots |-> [ctx |-> Image[x], flags |-> {}]]
  /\ sm \in SUBSET (Clusters \X Sems)  \* the constructor leaves SM unset
  /\ cpuCnt = [k \in Clusters |-> 0]
  /\ tsCnt = [k \in Clusters |-> 0]
  /\ mcOn = TRUE     \* the IOP holds the CPUs in master clear while it
  /\ mcNext = CpuCnt \* loads the image

-----------------------------------------------------------------------------
(* Tick() *)

(* Lock, HandleCounters, CheckInterrupts, and what both outcomes share. *)
BeginTick(c) ==
  /\ pc[c] = "idle"
  /\ timer' = [timer EXCEPT ![c] = HandleCounters(@)]
  /\ flags' = [flags EXCEPT ![c] = MirrorExternalInterrupts(c)]
  /\ latch' = [latch EXCEPT ![c] = {}]
  /\ UNCHANGED <<ctx, tsBlocked, mem, clusterVars, mainVars>>

(* An enabled interrupt is pending: leave reset and read the new context.  *)
(* In the code the latches are consumed first and the package is read      *)
(* later; one step stands for both.  A request latched in between, which   *)
(* stays for the next Tick, is one that comes after this step, unless a    *)
(* store into the package, between the two as well, comes before it: then  *)
(* the model reports it with the others, and no property tells.            *)
BeginExchange(c) ==
  /\ BeginTick(c)
  /\ Firing(c) # {}
  /\ inReset' = [inReset EXCEPT ![c] = FALSE]
  /\ incoming' = [incoming EXCEPT ![c] = mem[ctx[c].xa].ctx]
  /\ pc' = [pc EXCEPT ![c] = "exchange"]

(* No enabled interrupt: run a burst, unless the CPU is in reset. *)
BeginBurst(c) ==
  /\ BeginTick(c)
  /\ Firing(c) = {}
  /\ pc' = [pc EXCEPT ![c] = IF inReset[c] THEN "idle" ELSE "run"]
  /\ UNCHANGED <<inReset, incoming>>

WriteToNewAddress(c, firing) ==
  mem' = [mem EXCEPT ![incoming[c].xa] = [ctx |-> ctx[c], flags |-> firing]]
WriteExchangePacket(c, firing) ==
  mem' = [mem EXCEPT ![ctx[c].xa] = [ctx |-> ctx[c], flags |-> firing]]

(* The interrupts that fire leave mState.Flags, except the clock's. *)
NoFlagsAfterExchange(c, firing) == flags[c] \ ClearedByExchange
FlagsAfterExchange(c, firing) == flags[c] \ (firing \cap ClearedByExchange)

(* CreateExchangePacket and WriteExchangePacket. *)
CreateExchangePacket(c) ==
  LET firing == flags[c] \cap InterruptMaskFromState(ctx[c].mode, inReset[c])
  IN /\ pc[c] = "exchange"
     /\ WriteExchangePacket(c, firing)
     /\ flags' = [flags EXCEPT ![c] = FlagsAfterExchange(c, firing)]
     /\ pc' = [pc EXCEPT ![c] = "xleave"]
     /\ UNCHANGED <<inReset, ctx, incoming, latch, tsBlocked, timer, clusterVars, mainVars>>

(* SetCluster(incoming[c].cluster), called from RestoreFromExchangePacket  *)
(* and from CLN: the count of the old cluster under its mutex, ...         *)
MovesCluster(c) == ctx[c].cluster # incoming[c].cluster

CountUnchanged(c) == cpuCnt
CountAfterLeave(c) ==
  IF MovesCluster(c) /\ ctx[c].cluster # 0
  THEN [cpuCnt EXCEPT ![ctx[c].cluster] = @ - 1] ELSE cpuCnt

LeaveCluster(c) ==
  /\ pc[c] \in {"xleave", "cleave"}
  /\ cpuCnt' = CountAfterLeave(c)
  /\ pc' = [pc EXCEPT ![c] = IF @ = "xleave" THEN "xjoin" ELSE "cjoin"]
  /\ UNCHANGED <<inReset, ctx, incoming, flags, latch, tsBlocked, timer, mem, sm, tsCnt, mainVars>>

(* ... then the count of the new one under its own, then mState; an        *)
(* exchange ends the Tick, CLN goes on with the burst.                     *)
JoinCluster(c) ==
  /\ pc[c] \in {"xjoin", "cjoin"}
  /\ cpuCnt' = IF MovesCluster(c) /\ incoming[c].cluster # 0
               THEN [cpuCnt EXCEPT ![incoming[c].cluster] = @ + 1] ELSE cpuCnt
  /\ ctx' = [ctx EXCEPT ![c] = incoming[c]]
  /\ incoming' = [incoming EXCEPT ![c] = Blank(c)]
  /\ pc' = [pc EXCEPT ![c] = IF @ = "xjoin" THEN "idle" ELSE "run"]
  /\ UNCHANGED <<inReset, flags, latch, tsBlocked, timer, mem, sm, tsCnt, mainVars>>

(* The burst is over: mInstructionBurstSize instructions were executed, or *)
(* one that breaks the burst and changes nothing modelled here.            *)
EndBurst(c) ==
  /\ pc[c] = "run"
  /\ pc' = [pc EXCEPT ![c] = "idle"]
  /\ UNCHANGED <<inReset, ctx, incoming, flags, latch, tsBlocked, timer, mem, clusterVars, mainVars>>

-----------------------------------------------------------------------------
(* Instructions.  Break(c) ends the burst (aBreakBurst), Continue(c) does  *)
(* not; a monitor instruction has no effect in user mode.                  *)

Execute(c, i) == pc[c] = "run" /\ i \in Insts
Monitor(c, i) == Execute(c, i) /\ IsMonitorMode(c)
Break(c) == pc' = [pc EXCEPT ![c] = "idle"]
Continue(c) == UNCHANGED pc

SetFlags(c, new) ==
  /\ flags' = [flags EXCEPT ![c] = new]
  /\ UNCHANGED <<inReset, ctx, incoming, latch, tsBlocked, timer, mem, clusterVars, mainVars>>

(* SIPI (IP,j 1 on an X-MP) and CIPI (IP 0). *)
SIPI(c, d) ==
  /\ Monitor(c, "SIPI") /\ d # c
  /\ SetLatch(d, "ICP")
  /\ Break(c)
  /\ UNCHANGED <<inReset, ctx, incoming, flags, tsBlocked, timer, mem, clusterVars, mainVars>>

CIPI(c) == Monitor(c, "CIPI") /\ Break(c) /\ SetFlags(c, flags[c] \ {"ICP"})

(* MC,Aj: its effect on the channel is in IopCrayChannel; here its effect  *)
(* on the flags of the CPU.                                                *)
MC(c) == Monitor(c, "MC") /\ Break(c) /\ SetFlags(c, flags[c] \ {"IOI"})

(* CCI, and ERR, EX and the two range errors that Tick() catches. *)
CCIClearsAll(c) == Monitor(c, "CCI") /\ Break(c) /\ SetFlags(c, {})
CCI(c) == Monitor(c, "CCI") /\ Break(c) /\ SetFlags(c, flags[c] \ {"PCI"})
ERR(c) == Execute(c, "ERR") /\ Break(c) /\ SetFlags(c, flags[c] \cup {"EEX"})
EX(c) == Execute(c, "EX") /\ Break(c) /\ SetFlags(c, flags[c] \cup {"NEX"})
ProgramRangeError(c) ==
  Execute(c, "PRE") /\ Break(c) /\ SetFlags(c, flags[c] \cup {"PRE"})
OperandRangeError(c) ==
  /\ Execute(c, "ORE") /\ "ORE" \in ctx[c].mode
  /\ Break(c) /\ SetFlags(c, flags[c] \cup {"ORE"})

SetTimer(c, new) ==
  /\ timer' = [timer EXCEPT ![c] = new]
  /\ Break(c)
  /\ UNCHANGED <<inReset, ctx, incoming, flags, latch, tsBlocked, mem, clusterVars, mainVars>>

PCI(c, n) == Monitor(c, "PCI") /\ SetTimer(c, [timer[c] EXCEPT !.limit = n, !.count = n])
ECI(c) == Monitor(c, "ECI") /\ SetTimer(c, [timer[c] EXCEPT !.on = TRUE])
DCI(c) == Monitor(c, "DCI") /\ SetTimer(c, [timer[c] EXCEPT !.on = FALSE])

SetContext(c, new) ==
  /\ ctx' = [ctx EXCEPT ![c] = new]
  /\ Continue(c)
  /\ UNCHANGED <<inReset, incoming, flags, latch, tsBlocked, timer, mem, clusterVars, mainVars>>

XA(c, x) == Monitor(c, "XA") /\ SetContext(c, [ctx[c] EXCEPT !.xa = x])
ERI(c) == Execute(c, "ERI") /\ SetContext(c, [ctx[c] EXCEPT !.mode = @ \cup {"ORE"}])
DRI(c) == Execute(c, "DRI") /\ SetContext(c, [ctx[c] EXCEPT !.mode = @ \ {"ORE"}])

(* EFI and DFI *)
FloatingPointInterrupts(c, i, on) ==
  /\ Execute(c, i)
  /\ ctx' = [ctx EXCEPT ![c].mode = IF on THEN @ \cup {"FPE"} ELSE @ \ {"FPE"}]
  /\ flags' = [flags EXCEPT ![c] = @ \ {"FPE"}]
  /\ Continue(c)
  /\ UNCHANGED <<inReset, incoming, latch, tsBlocked, timer, mem, clusterVars, mainVars>>

EFI(c) == FloatingPointInterrupts(c, "EFI", TRUE)
DFI(c) == FloatingPointInterrupts(c, "DFI", FALSE)

(* CLN: SetCluster in two steps, then the burst goes on. *)
CLN(c, k) ==
  /\ Monitor(c, "CLN") /\ ctx[c].p = NoSem
  /\ incoming' = [incoming EXCEPT ![c] = [ctx[c] EXCEPT !.cluster = k]]
  /\ pc' = [pc EXCEPT ![c] = "cleave"]
  /\ UNCHANGED <<inReset, ctx, flags, latch, tsBlocked, timer, mem, clusterVars, mainVars>>

(* SMjk 1,TS.  Outside a cluster it does nothing; otherwise, under         *)
(* ClusterMutex, it takes the semaphore or stays on the instruction.       *)
TestAndSetNoCluster(c, s) ==
  /\ Execute(c, "TS") /\ ctx[c].p = NoSem /\ ctx[c].cluster = 0
  /\ SetContext(c, [ctx[c] EXCEPT !.p = s])

TestAndSetTakes(c, s) ==
  LET k == ctx[c].cluster
  IN /\ Execute(c, "TS") /\ ctx[c].p = NoSem /\ k # 0
     /\ <<k, s>> \notin sm
     /\ sm' = sm \cup {<<k, s>>}
     /\ tsCnt' = IF tsBlocked[c] THEN [tsCnt EXCEPT ![k] = (@ - 1) % SizeMod] ELSE tsCnt
     /\ tsBlocked' = [tsBlocked EXCEPT ![c] = FALSE]
     /\ ctx' = [ctx EXCEPT ![c].p = s]
     /\ Break(c)
     /\ UNCHANGED <<inReset, incoming, flags, latch, timer, mem, cpuCnt, mainVars>>

(* A failed test-and-set does not advance P: the instruction is retried.   *)
AdvancedPast(c, s) == s
BlockedAt(c, s) == ctx[c].p

TestAndSetFails(c, s) ==
  LET k == ctx[c].cluster
  IN /\ Execute(c, "TS") /\ ctx[c].p = NoSem /\ k # 0
     /\ <<k, s>> \in sm
     /\ tsCnt' = IF tsBlocked[c] THEN tsCnt ELSE [tsCnt EXCEPT ![k] = (@ + 1) % SizeMod]
     /\ tsBlocked' = [tsBlocked EXCEPT ![c] = TRUE]
     /\ ctx' = [ctx EXCEPT ![c].p = BlockedAt(c, s)]
     /\ Break(c)
     /\ UNCHANGED <<inReset, incoming, flags, latch, timer, mem, sm, cpuCnt, mainVars>>

(* SMjk 0 by the context that holds the semaphore.  It breaks the burst    *)
(* inside a cluster and does nothing outside one.                          *)
ClearSemaphore(c) ==
  LET k == ctx[c].cluster
  IN /\ Execute(c, "TS") /\ ctx[c].p # NoSem
     /\ sm' = sm \ {<<k, ctx[c].p>>}
     /\ ctx' = [ctx EXCEPT ![c].p = NoSem]
     /\ pc' = [pc EXCEPT ![c] = IF k = 0 THEN "run" ELSE "idle"]
     /\ UNCHANGED <<inReset, incoming, flags, latch, tsBlocked, timer, mem, cpuCnt, tsCnt, mainVars>>

(* SMjk 1, which sets a semaphore whoever holds it. *)
SetSemaphore(c, s) ==
  LET k == ctx[c].cluster
  IN /\ Execute(c, "SM1") /\ k # 0
     /\ sm' = sm \cup {<<k, s>>}
     /\ Break(c)
     /\ UNCHANGED <<inReset, ctx, incoming, flags, latch, tsBlocked, timer, mem, cpuCnt, tsCnt, mainVars>>

(* The operating system stores a context into the package x: one whose     *)
(* task is not held anywhere else.                                         *)
Holds(c) == IF pc[c] \in {"xleave", "xjoin"} THEN incoming[c] ELSE ctx[c]

Live(t) ==
  \/ \E c \in Cpus : Holds(c).task = t
  \/ \E c \in Cpus : pc[c] = "exchange" /\ incoming[c].task = t
  \/ \E x \in Slots : mem[x].ctx.task = t

StorePackage(c, x, new) ==
  /\ Monitor(c, "STORE")
  /\ ~Live(new.task)
  /\ mem' = [mem EXCEPT ![x] = [ctx |-> new, flags |-> {}]]
  /\ Continue(c)
  /\ UNCHANGED <<inReset, ctx, incoming, flags, latch, tsBlocked, timer, clusterVars, mainVars>>

-----------------------------------------------------------------------------
(* The main thread: master clear, dead start and channel interrupts *)

(* SoftCpu_c::MasterClear, which waits for mMasterClearLock. *)
NoLock(c) == TRUE
MasterClearLockFree(c) == pc[c] = "idle"

ModeKept(mode) == mode
ModeAfterMasterClear(mode) == mode \ {"MM"}

MasterClear(c) ==
  /\ MasterClearLockFree(c)
  /\ inReset' = [inReset EXCEPT ![c] = TRUE]
  /\ tsBlocked' = [tsBlocked EXCEPT ![c] = FALSE]
  /\ ctx' = [ctx EXCEPT ![c].mode = ModeAfterMasterClear(@)]
  /\ flags' = [flags EXCEPT ![c] = {}]
  /\ latch' = [latch EXCEPT ![c] = {}]
  /\ UNCHANGED <<pc, incoming, timer, mem, clusterVars>>

(* CpuMasterClear(true) on the rising edge: MasterClear on one CPU after   *)
(* the other.                                                              *)
CpuMasterClearOn ==
  /\ "RESET" \in Insts
  /\ ~mcOn /\ mcNext = CpuCnt
  /\ mcNext' = 0
  /\ UNCHANGED <<cpuVars, mem, clusterVars, mcOn>>

CpuMasterClearNext ==
  /\ mcNext < CpuCnt
  /\ MasterClear(mcNext)
  /\ mcNext' = mcNext + 1
  /\ mcOn' = (mcNext + 1 = CpuCnt)

(* CpuMasterClear(false) on the falling edge: DeadStart of the startup CPU *)
(* latches its MCU interrupt.                                              *)
CpuMasterClearOff ==
  /\ mcOn
  /\ SetLatch(StartupCpu, "MCU")
  /\ mcOn' = FALSE
  /\ UNCHANGED <<pc, inReset, ctx, incoming, flags, tsBlocked, timer, mem, clusterVars, mcNext>>

(* RouteChannelInterrupt: the first CPU selected for external interrupts,  *)
(* else the first one blocked on a test-and-set, else CPU 0.               *)
First(S) == CHOOSE c \in S : \A d \in S : c <= d
SelectedForExternalInterrupts == {c \in Cpus : "SEI" \in ctx[c].mode}
TsBlocked == {c \in Cpus : tsBlocked[c]}
RouteTarget ==
  IF SelectedForExternalInterrupts # {} THEN First(SelectedForExternalInterrupts)
  ELSE IF TsBlocked # {} THEN First(TsBlocked) ELSE 0

RouteChannelInterrupt ==
  /\ "IOI" \in Insts
  /\ SetLatch(RouteTarget, "IOI")
  /\ UNCHANGED <<pc, inReset, ctx, incoming, flags, tsBlocked, timer, mem, clusterVars, mainVars>>

-----------------------------------------------------------------------------
Tick(c) ==
  \/ BeginExchange(c) \/ BeginBurst(c)
  \/ CreateExchangePacket(c) \/ LeaveCluster(c) \/ JoinCluster(c)
  \/ EndBurst(c)

Instruction(c) ==
  \/ \E d \in Cpus : SIPI(c, d)
  \/ CIPI(c) \/ MC(c) \/ CCI(c) \/ ERR(c) \/ EX(c)
  \/ ProgramRangeError(c) \/ OperandRangeError(c)
  \/ \E n \in Limits : PCI(c, n)
  \/ ECI(c) \/ DCI(c)
  \/ \E x \in XaOf[c] : XA(c, x)
  \/ ERI(c) \/ DRI(c) \/ EFI(c) \/ DFI(c)
  \/ \E k \in 0 .. ClusterCnt : CLN(c, k)
  \/ \E s \in Sems :
       TestAndSetNoCluster(c, s) \/ TestAndSetTakes(c, s) \/ TestAndSetFails(c, s)
         \/ SetSemaphore(c, s)
  \/ ClearSemaphore(c)
  \/ \E x \in Slots, new \in Templates : StorePackage(c, x, new)

MainThread ==
  CpuMasterClearOn \/ CpuMasterClearNext \/ CpuMasterClearOff \/ RouteChannelInterrupt

Next == MainThread \/ \E c \in Cpus : Tick(c) \/ Instruction(c)

Spec == Init /\ [][Next]_vars

(* CpuThread calls Tick() forever, and a burst is a bounded loop: a CPU    *)
(* that goes on executing instructions ends its burst again and again.     *)
FairSpec ==
  Spec /\ \A c \in Cpus : WF_vars(Tick(c)) /\ SF_vars(EndBurst(c))

-----------------------------------------------------------------------------
(* Properties *)

(* Every register keeps its range: the exchange address of every context   *)
(* names a package, the cluster number a cluster, the countdown never goes *)
(* below zero.                                                             *)
TypeOK ==
  /\ pc \in [Cpus -> {"idle", "exchange", "xleave", "xjoin", "cleave", "cjoin", "run"}]
  /\ inReset \in [Cpus -> BOOLEAN]
  /\ ctx \in [Cpus -> Context]
  /\ incoming \in [Cpus -> Context]
  /\ flags \in [Cpus -> SUBSET Flag]
  /\ latch \in [Cpus -> SUBSET Latched]
  /\ tsBlocked \in [Cpus -> BOOLEAN]
  /\ timer \in [Cpus -> [count : Nat, limit : Nat, on : BOOLEAN]]
  /\ mem \in [Slots -> Packet]
  /\ sm \subseteq Clusters \X Sems
  /\ cpuCnt \in [Clusters -> Int]
  /\ tsCnt \in [Clusters -> 0 .. SizeMod - 1]
  /\ mcOn \in BOOLEAN
  /\ mcNext \in 0 .. CpuCnt

(* ClusterCpuCnt is the number of CPUs in the cluster at every moment, a   *)
(* CPU between the two critical sections of SetCluster being in none: the  *)
(* count never drifts nor wraps, whatever exchanges, CLN instructions and  *)
(* master clears interleave.                                               *)
Member(c) ==
  IF pc[c] \in {"xjoin", "cjoin"} /\ MovesCluster(c) THEN 0 ELSE ctx[c].cluster

ClusterCountExact ==
  \A k \in Clusters : cpuCnt[k] = Cardinality({c \in Cpus : Member(c) = k})

(* Master clear never lands inside a Tick: a CPU in reset is between two   *)
(* Ticks and in user mode.  (The lock at the top of Tick and MasterClear.) *)
ResetIsQuiet == \A c \in Cpus : inReset[c] => pc[c] = "idle" /\ ~IsMonitorMode(c)

(* While the IOP asserts master clear, every CPU stays in reset, as the    *)
(* declaration of MasterClear says: "Enters the CPU into it's reset state, *)
(* stops executing".                                                       *)
MasterClearHolds == mcOn => \A c \in Cpus : inReset[c]

(* Every exchange has a cause it can report: the mask that                 *)
(* CreateExchangePacket computes after mInReset was dropped still lets     *)
(* through an interrupt that CheckInterrupts saw.                          *)
ExchangeHasCause ==
  \A c \in Cpus :
    pc[c] = "exchange" => flags[c] \cap InterruptMaskFromState(ctx[c].mode, inReset[c]) # {}

(* The operating system gives every CPU exchange packages of its own: no   *)
(* two CPUs are between reading a package and overwriting it with the same *)
(* one (nothing in the code excludes them), not even at dead start, when   *)
(* both use package 0.  Otherwise both would go on with the same context.  *)
Exchanging == {c \in Cpus : pc[c] = "exchange"}
PackagesApart == \A c, d \in Exchanging : c # d => ctx[c].xa # ctx[d].xa

(* A context is in one place: no two CPUs, no two packages, and no CPU and *)
(* package hold the same task, although an exchange first reads the new    *)
(* package and only later overwrites it with the old context.              *)
ContextsUnique ==
  /\ \A c, d \in Cpus : c # d => Holds(c).task # Holds(d).task
  /\ \A x, y \in Slots : x # y => mem[x].ctx.task # mem[y].ctx.task
  /\ \A c \in Cpus, x \in Slots : Holds(c).task # mem[x].ctx.task

(* Test-and-set excludes: of the contexts of one cluster, running or saved *)
(* in a package, at most one is past the test-and-set of a semaphore, and  *)
(* that semaphore is set.  An interrupt between a failed test-and-set and  *)
(* its retry must not let a context through.                               *)
Contexts == {Holds(c) : c \in Cpus} \cup {mem[x].ctx : x \in Slots}

SemaphoreExclusion ==
  \A u, v \in Contexts :
    u.p # NoSem /\ u.cluster # 0 =>
      /\ <<u.cluster, u.p>> \in sm
      /\ v.cluster = u.cluster /\ v.p = u.p => u.task = v.task

(* An interrupt request, once latched or flagged, goes away only by being  *)
(* reported in the package of an exchange, by an instruction that clears   *)
(* it (CIPI, MC and CCI in monitor mode, EFI and DFI), or by master clear. *)
Pending(c) == flags[c] \cup latch[c]

InterruptDisposed(c, f) ==
  \/ pc[c] = "exchange" /\ f \in mem'[ctx[c].xa].flags
  \/ pc[c] = "run" /\ IsMonitorMode(c) /\ f \in {"ICP", "IOI", "PCI"}
  \/ pc[c] = "run" /\ f = "FPE"
  \/ mcNext' # mcNext /\ inReset'[c]

NoInterruptLost ==
  [][\A c \in Cpus : \A f \in Pending(c) \ Pending(c)' : InterruptDisposed(c, f)]_vars

(* When a failed test-and-set leaves every CPU of a cluster blocked, the   *)
(* deadlock interrupt is requested on all of them: the instruction logs    *)
(* "DEADLOCK interrupt fired" and says "We interrupt all CPUs in this      *)
(* cluster: we're in a test-and-set loop".                                 *)
DeadlockInterrupts ==
  [][\A k \in Clusters :
       tsCnt'[k] = tsCnt[k] + 1 /\ tsCnt'[k] = cpuCnt[k] =>
         \A c \in Cpus : ctx[c].cluster = k => "DL" \in latch'[c]]_vars

(* A CPU in user mode takes a channel interrupt: whatever it executes,     *)
(* even a test-and-set that never succeeds, an exchange follows, unless    *)
(* master clear comes first.                                               *)
IoInterruptTaken ==
  \A c \in Cpus :
    pc[c] \in {"idle", "run"} /\ "IOI" \in Pending(c) /\ ~IsMonitorMode(c)
      ~> pc[c] = "exchange" \/ mcNext # CpuCnt

(* A dead start takes effect: the startup CPU leaves reset unless master   *)
(* clear is asserted again.                                                *)
DeadStartTakesEffect ==
  "MCU" \in latch[StartupCpu] ~> ~inReset[StartupCpu] \/ mcNext # CpuCnt
=============================================================================

# TLA+ models of the Cray simulator

This directory holds TLA+ specifications of the simulator in `simulator/`, the
TLC configurations that model-check them and TLAPS proofs about them.
`PROJECT.json` lists components, runs, mutants, hazards, findings and theorems
and maps every definition to the source lines it stands for.

## 1. The system

The simulator runs the software of a Cray X-MP (or Y-MP, J90) on a host. A
mainframe has up to four CPUs that share central memory; an I/O subsystem has
up to four I/O processors (IOPs), small 16-bit machines with their own memory, a
shared buffer memory and up to 512 channels each. On a J90 or Y-MP EL the I/O
subsystem is simulated at the level of request packets instead.

Threads (`cray_sim.cpp`): the main thread runs the IOPs, the peripherals and the
channels' ticks; with `MultiThreaded` (`README_config.txt:139`) every CPU has a
thread that calls `SoftCpu_c::Tick` for ever, without it the main thread calls
the CPUs' Tick in turn.

| Component | State | Operations | Interacts with |
|---|---|---|---|
| CPU (`cray_softcpu`, `exchange_packet`) | registers, mode, flags, interrupt latches, reset bit, clock | Tick: counters, interrupts, exchange or burst; MasterClear, DeadStart | packages in memory; latches set by other threads; clusters |
| Instructions 000-037 (`cray_cpu_inst_0000_0037.h`) | the CPU's | interrupts, exchange address, clock, clusters, semaphores, channels, A and S arithmetic | clusters, channels, other CPUs |
| Instructions 040-177, `cray_float` | the CPU's | scalar, vector, memory and floating-point operations | memory |
| Mainframe (`cray_mainframe`) | clusters, master clear bits | CpuMasterClear, IoMasterClear, RouteChannelInterrupt | every CPU and channel |
| Mainframe channel (`cray_channels`) | address, limit, active, pending | CL, CA, CI, MC; GetData, SetData, Disconnect | the channel's IOP half; interrupt routing |
| IOP to mainframe channel (`iop_iop2cray`) | address, count, busy, done, flags | DoIo functions, DoTransfer | mainframe channel, IOP memory, master clear |
| IOP (`cray_iop`, `cray_iop_built_in_channels`) | A, B, C, P, I, operand registers, exit stack | Tick: interrupt, burst; DoIo of the built-in channels; DeadStart | its channels, buffer memory |
| IOP to IOP channel, IOP cluster | one word and its valid bit, done, stall | send, receive, dead start of the other IOP | two IOPs |
| Peripherals of the IOP (expander, block multiplexer, disk, concentrator, console, host memory, error channel) | device registers, files, sockets | DoIo, Tick, callbacks | the IOP's memory and interrupts, the host |
| Simulated IOS (`sim_iop*`) | packet queues | packet handlers, ChannelTick | mainframe channels, host files and network |
| Configuration, log, user interface, tools | - | - | - |

What is hard here:

* CPU threads, and the main thread, set each other's interrupt latches while
  the owner consumes them at the start of a Tick;
* an exchange is several steps (read the new package, write the old one, leave
  one cluster, join another) and master clear may come at any time;
* a channel is programmed from two sides, and whichever comes second runs the
  transfer, in its own thread and without a lock;
* interrupts are routed on the rising edge of a pending bit only;
* the IOP's exit stack wraps and is extended into memory by the guest, which
  works only if the boundary interrupt comes before the stack is used again;
* `I = 1` is delayed past certain instructions, and instructions come in bursts
  between which interrupts are looked at;
* connections, messages and packets of the peripherals end in the middle;
* flags that summarise a position (of a tape head, a device, a connection) are
  updated by many handlers and trusted by all of them;
* an Ethernet interface shares two rings in the mainframe's memory with a driver
  on another thread, without a lock, and a third thread feeds it;
* vector instructions read the registers they write, and may fault half way.

What makes the components correct:

* CPU: interrupts are not lost, an exchange has a cause, contexts are not
  duplicated, a reset CPU stays quiet, semaphores exclude, cluster counts are
  exact, interrupts and dead starts take effect.
* Instructions: a vector instruction does to every element what its scalar
  counterpart does, shifts and floating-point results are those of the
  numbers the words stand for, a faulting instruction can be restarted.
* Channels: no assertion fails, exactly the programmed words move, two primed
  halves make progress, an interrupt is announced until it is served.
* IOP: the exit stack is the call stack; boundary and fetch interrupts come
  before the next use; interrupts do not nest without progress.
* IOP to IOP channel: a sender is told of exactly the parcels that were taken,
  and two IOPs do not wait for each other.
* Peripherals: what was written is read back; remembered flags agree with what
  they stand for; every accepted character and package arrives once, in order,
  across connections that are lost.
* Simulated IOS: a packet handed over arrives once; the packets of one buffer
  arrive in order; an answer carries the number of its request.
* Ethernet interface: a frame or packet passes the ring once and in order; a
  closed interface is quiet; neither side sleeps on work it was not told of.

## 2. Modules

| Module | Models |
|---|---|
| `SoftCpu` | CPUs, exchange, interrupts, clock, clusters and semaphores, master clear, interrupt routing |
| `SoftCpuProofs` | theorems about `SoftCpu` |
| `CrayTypes` | machine words, shifts, floating-point sum and product |
| `CpuInst` | what the instructions of groups 000 to 177 compute |
| `IopCrayChannel` | mainframe channels and their IOP half |
| `IopCrayChannelProofs` | theorems about it |
| `IopCpu` | interrupts, bursts, exit stack and program fetch of an IOP |
| `IopCpuProofs` | theorems about it |
| `IopLink` | two IOPs, the parcel channels between them and dead start |
| `Expander` | the peripheral expander with clock, printer, disk and absent devices |
| `Tape` | the expander's tape drive, the tape image and its patches |
| `Bmx` | a block multiplexer channel with a tape drive, over the tape image of `Tape` |
| `IopDisk` | a DD-29 disk drive |
| `Console` | an IOP's console and its telnet connection |
| `ConsoleProofs` | theorems about it |
| `Concentrator` | the network concentrator and its connection |
| `IopPeripherals` | the peripherals above and `IopLink` together |
| `PeripheralProofs` | theorems about it: `IopLink`, `Expander`, `IopDisk`, `Tape` and `Bmx` |
| `ConcentratorProofs` | theorems about it: `Concentrator` |
| `SimIos` | a simulated I/O subsystem of either kind |
| `PacketPool` | abstract: what the packet channel of `SimIos` promises |
| `SimIosProofs` | theorems about `SimIos`, and that it implements `PacketPool` |
| `Ethernet` | an Ethernet interface of the simulated subsystem, its capture thread and its two rings |
| `EthernetProofs` | theorems about it |
| `MCSoftCpu`, `MCWorkloads`, `MCCpuInst`, `MCIopCrayChannel`, `MCIop`, `MCSimIos` | instances for TLC |

`IopPeripherals` composes the IOP's peripherals, which share no state with each other
beyond a done flag, and `MCIop` gives it tapes: Init chooses the part a behaviour exercises, and so do
`MCSimIos` between `SimIos` and `Ethernet`. `MCIopCrayChannel` chooses between one
channel with windows and counts of every relation and two channels that move single words.
`MCWorkloads` likewise chooses one of two instruction repertoires of the guest;
between them the six repertoires of its three runs fire every action of `SoftCpu`.

### SoftCpu

`pc[c]` is the place of CPU c's thread in Tick: `idle` between two Ticks,
`exchange` after the new package was read, `xleave` and `xjoin` before each of
the two critical sections of SetCluster in an exchange, `cleave` and `cjoin` the
same in the CLN instruction, `run` in a burst. `mMasterClearLock` is held exactly
while `pc[c] # "idle"`. A step is what lies between two accesses to state another
thread can see. `ctx[c]` is the part of `CpuState_s` that a package carries;
the A and S registers are abstracted to a `task` that tells contexts apart, and P
to the semaphore the context has passed. `latch[c]` is the set of the four atomic
latches that are requested (the code keeps them inverted), `flags[c]` is
`mState.Flags`.

Actions: `BeginExchange`/`BeginBurst` (HandleCounters, MirrorExternalInterrupts,
CheckInterrupts), `CreateExchangePacket`, `LeaveCluster`, `JoinCluster`,
`EndBurst`; one action per instruction that touches this state; `CpuMasterClearOn`,
`...Next` (one CPU per step, waiting for its lock), `...Off` (dead start);
`RouteChannelInterrupt`. An instruction that changes nothing modelled here is
stuttering in `run`. `Insts` says which instructions the guest may use in a run.

`HandleDeadLock`, whose call is commented out, is not called here either. No
instruction raises the floating-point and memory error flags in this code. The
guest is arbitrary, in user and in monitor mode, except for four restrictions that
the code does not enforce: a context clears only the semaphore it has passed, and
passes one at a time; it does not execute CLN while it holds one; it uses the exchange
addresses of its CPU (`XaOf`); and the operating system does not store a context that
is alive elsewhere (`StorePackage`, external). The semaphore instructions themselves
are modelled for every mode, as they are decoded.

`BeginExchange` consumes the latches and reads the package in one step, which the code
does one after the other. A request latched between the two stays for the next Tick,
like one that comes right after the step.

### IopCrayChannel

Functions over the channels hold the registers of both halves. `loop[t]` is the place of
thread t in DoTransfer: the loop test, the fetch of a word and its store are
separate steps. With `MultiThreaded = FALSE` a handler runs to its end before
another starts (`Free`); with TRUE the two threads interleave at these steps.
`asserted` records that a CRAY_ASSERT failed; the exception ends the program.
`moved` and `base` are history variables. The service routine of the operating
system (`TakeInterrupt`, `EndService`) is external: it loops over Ai CI and CI,Aj
until no channel is pending. `McAnywhere` says whether the operating system
issues MC outside that routine.

`SetLimit` (CL) may come at any time, also while the channel transfers.
`MasterClear` is the IOP's half of a dead start: it resets every channel of that IOP
at once and leaves the mainframe's halves primed.

Guest assumptions, none of which the code checks: windows lie in central memory; the
limit of an active channel is moved only beyond the address it has reached (GetData
and SetData stop at equality, so that an address past the limit would run through
memory); the IOP changes address and count only while the channel is not busy; it
sends no more words than the window takes (SetData does not close a channel at its
limit; the lines are commented out).

### IopCpu

`burst` counts the instructions left in a Tick; interrupts, peripherals and dead
start come when it is 0. `E` and `stack` are the exit stack, `done` and `enabled`
the flags of all channels as sets, `iWait` is `ISetIsWaiting`. Addresses are
abstracted to the call depth of the routine they belong to, and to address 0,
the interrupt vector and the handler. Instructions are classified by what they do
to `I`, to the burst, to P and to the stack. `saved` is the guest's extension of
the stack in memory. `want`, `via`, `ran`, `stale`, `unserved` and `late` are
history variables. `Boot`, `ServeBoundary` and `ServeFetch` are the operating
system of the IOP (external), reduced to what it must do for the stack to work:
on a full stack move all but the newest `Keep` addresses to memory, on an empty
one bring up to `Keep` back, and load the routine that was asked for. After the
program used the stack past a raised flag (`late`) it is followed no further
than to the next dead start.

Guest assumptions: the handler calls no routine, serves a boundary interrupt
before it leaves and leaves with `I = 1` and EXIT. **The program jumps to or calls a
routine that is not loaded only while no request is outstanding** (`PFR \notin done`
in `Call` and `JumpZero`): the channel holds one request, and the code lets a second
one replace it.

### CrayTypes and CpuInst

A word is the set of the positions of its one bits, so that `&`, `|` and `~` are
set operations; `Num` and `ToWord` convert. `Add`, `Mult` and their helpers
follow `cray_float.cpp` step by step, the guard bits, the truncated partial
products and the rounding constant included, with the sizes of the fields as
parameters. The state of `CpuInst` is one CPU between two exchanges (`cpu`: A, B,
S, T, V, VL, VM, base and limit, mode bits), `mem`, and the semaphores `sm`. There
is one action per group of operation codes; an instruction is a record with its
fields. Memory instructions go element by element up to the first address that
is out of range (`Reach`), as the exception in ReadDataMem and WriteDataMem makes
them. The reciprocal approximation is a parameter (the code has a table).
`left` bounds the instructions of a behaviour. Instruction 01743 (leading zeros of a
vector) is there as on a J90 or an SV1; on other machines the code rejects it.

### IopLink

The main loop runs one Tick of each IOP in turn (`turn`, `phase`). `link[i]` is
the channel from IOP i to the other one: the parcel and its valid bit, the done
flag of the sender, the control register and `mResetStalling`. Actions are the
functions of the two halves, the burst's begin with or without an interrupt, the
stall, and the dead start of the cluster. In turns the stall never comes to pass:
the dead started IOP leaves reset before its starter's next Tick, which is part
of StallEnds. Guest assumption: an IOP sends the next
parcel after the last was answered or withdrawn, and reads when there is one.

### Expander, Tape and IopDisk

`Expander` has a printer and one more device, which Init chooses; `pending` is the
remembered interrupt, `active` and `enabled` are the devices' own. `Tape` has the
whole state of the head (position, offset in the record, the two flags, file index
and offset for the patches); a tape is the sequence of its record sizes.
`IopDisk` has the image by sector number and the position; `last` and `fetched`
are history variables for the sectors as the IOP names them. Guest assumptions
are in the modules' headers: no write to a read-only device, devices selected
before use, addresses in range. On the disk the IOP does not select a cylinder
margin (mode 04, `CRAY_ASSERT(false)`) and sets no special mode in a read (function 2
asserts these bits to be zero).

### Bmx

The channel's busy and done flags, byte counter, device address and delay counter,
and one action per function and per command of the tape drive. The head is that of
`Tape`, whose operators the commands use. Backspace File and Forward Space File are
loops over the image; `Steps` is more than they can take before a position comes
again, so that a loop that has not ended by then never ends (`hung`): Backspace File
without a mark behind the head, or with a mark as the first thing on the tape. A
delay that was started goes on after a clear of the channel and sets done.

### Console and Concentrator

Completion handlers of the network library are actions of their own, since they
run from a poll between any two steps of the IOP. Accepts, reads and writes that
are outstanding are counted; closing a socket makes their handlers run with an
error later, when a new connection may already exist. Terminal and front-end
station (external) connect, send and disconnect at any time.

In `Console` the transmit queue, the entry being written, telnet negotiation and
the two channels' flags are modelled; characters have identities. The port is open
from the start, so a terminal may connect before the first character is printed. A
character printed then meets it in the poll of AcceptIfNeeded (`AcceptedInPoll`):
AcceptHandler runs inside SendFromQueue, queues the telnet offers behind the character
and writes the head, and the outer SendFromQueue writes the head again. The character
itself is assumed to be written by then (one byte on a fresh socket, 100 polls);
otherwise it would be shown twice. In
`Concentrator` the stream consists of lengths and words; `ProcessPackage` is a
turn of the receive state machine, `StartTransmit` the transmit one. The two
programs are assumed to send messages in turn, the first one logs on.
A connection accepted in the middle of a message of the last one is misread by
both state machines, and a master clear drops what it has read of a connection it
has just accepted: such a connection is marked `garbled` and not followed further
than to the next master clear.

### SimIos and PacketPool

`turn` alternates between the cluster's Tick, which acts on `state` (reset, waiting
for the time, I and J packets, running, panic), and ChannelTick of both channels.
`packet` and `queue` are the packet being sent and `mPacketQueue`; `outbox` and
`window` are the mainframe's sides. `HandleBuffer` folds the packet handler over a
received buffer: sequence numbers, consoles, one answer per drive that matches.
`Configs` are the kinds of subsystem: IOSE master and other, IOSD.

`PacketPool` is the abstract specification of the channel: a set of packets
handed over and the sequence received. `ImplementsPool` is its specification with
`pending` mapped to `packet` and `queue`; the order is left open because
QueuePacket lets a packet overtake those that wait (`BufferInOrder` says what is
left of the order).

### Ethernet

Three threads: the capture thread (`Receive`, `Push`; `held` is the frame between
its test of IsPaused and the push), the main thread (`pc`: the entry, the index
and the wakeup of HandleRxPacket are separate steps, as are each packet, the index
and the packet of HandleTxPackets), and the driver of the mainframe (external),
which fills and empties the rings, opens and closes the interface and is told by
packets when to look. A ring is its read and write index and its entries; a frame
is its number and whether it fits an entry. Packets to the driver may overtake
each other, so only their number is kept. Names that `SimIos` has too begin with
`eth` or `Eth` or are longer (`SendResponse` is SendPacket). `accepted`, `consumed`, `wire`, `resent`,
`lostIn` and `lostOut` are history variables.

Assumptions: the driver keeps the protocol (it wakes the interface when it adds a
packet while the interface sleeps, and looks at the ring again when it is told
that the interface went to sleep); only an open interface is kicked.

## 3. Runs

| Run | Checks | Shows |
|---|---|---|
| `cpu_contexts` | TypeOK, ClusterCountExact, ContextsUnique, SemaphoreExclusion | Two CPUs that start each other, exchange and change clusters, or compete for a semaphore: the counts stay exact between the two critical sections of SetCluster, every context is in one place, and contexts moved between CPUs by exchanges exclude each other, also when an interrupt comes after a failed test-and-set |
| `cpu_interrupts` | ResetIsQuiet, ExchangeHasCause, NoInterruptLost | Master clear and dead start in every interleaving with two CPUs that interrupt each other, or clock (limits 0 and 3, steps of 2), channel and error interrupts with MC, CCI, EFI, DFI: reset never lands in a Tick; the mask recomputed after reset was dropped still has a cause; requests only go by exchange, by a clearing instruction or by master clear |
| `cpu_liveness` | IoInterruptTaken, DeadStartTakesEffect | A user program is interrupted even while it spins on a semaphore, or causes errors, leaves its program range and has its exchange address changed; a dead started CPU leaves reset |
| `cpu_instructions` | VectorAgreesWithScalar, ShiftIsArithmetic, FaultRestartable, FloatArithmetic | Every modelled instruction: vector forms against the scalar ones with every overlap of operand and result registers, shifts by every count, a range error at every element and a restart, sums and products of all pairs of 7-bit words |
| `channel_transfer` | NoAssertionFails, TransferExact, TransferEnds, NoStalledTransfer, InterruptNotStuck | A channel of either direction with windows shorter, equal to and longer than the count; or two channels that complete, disconnect and are cleared in any order |
| `iop_cpu` | CallStackExact, InterruptsInTime, InterruptsSpaced | An arbitrary program of the IOP that calls, returns, is interrupted and asks for routines that are not loaded |
| `iop` | ParcelsAnswered, StallEnds (IopLink); InterruptsAnnounced (Expander); MarkFlagsExact (Tape, Bmx), PokeOffsetExact (Tape); SpacesOneFile (Bmx); DiskReadsBack (IopDisk); NoLostCompletion, PrintedInOrder (Console); PduPerTransfer, DownlineFramed (Concentrator) | Every order of channel functions, clears, connections and lost connections of each peripheral |
| `sim_ios` | BufferInOrder, AnswerAcknowledges, ImplementsPool, AllDelivered (SimIos); FramesIntact, PacketsSentOnce, ClosedIsQuiet, NoLostWakeup (Ethernet) | From boot to panic, three configurations, buffers of up to two requests, a mainframe that primes and clears its input channel at any time; two sessions of an Ethernet interface with frames and packets at any time, a full ring, and a kick that may fail |

Four runs end with a violation; each is a finding, a disagreement between the
code and what the repository says of it.

| Run | Property | What happens |
|---|---|---|
| `cpu_master_clear_race` | MasterClearHolds | `CpuMasterClear(true)` clears CPU 0; CPU 1, not reached yet, sends it an inter-processor interrupt; CPU 0 exchanges and runs although master clear is asserted and MasterClear "stops executing" |
| `cpu_deadlock_interrupt` | DeadlockInterrupts | The last CPU of a cluster blocks on a test-and-set, "DEADLOCK interrupt fired" is logged, no interrupt is requested |
| `channel_threads` | NoAssertionFails | With MultiThreaded, CA or MC in the CPU thread comes between the loop test and the access to the channel in the main thread; an assertion fails |
| `console_reconnect` | ReceiveBufferFree | A terminal disconnects with a character unread; `mReceiveFull` survives CloseSocket and the next connection's first character fails `CRAY_ASSERT(!mReceiveFull)` |

Three hazards are covered in part only, which their notes in `PROJECT.json` say: the
end of a burst of failed test-and-sets is assumed (fairness); AnswerAcknowledges is
about packets that answer a request while it is handled, not about those made later;
and DiskReadsBack says that formatting leaves the other cylinders alone, not which
sector of its own it erases. One has no property: `Lock_c` bounds no wait.

What the properties leave out because it does not hold, each noted at its
hazard in `PROJECT.json`: MC outside the interrupt service (`McAnywhere`) clears
another channel's request for good; a jump through a zero register does not end
the burst; 0153 with i = j shifts in bits of the new element; a gather into its own
index vector cannot be restarted; formatting a disk sector erases another one
(`FormatOffset`); with two drives on one channel a write of the simulated IOS is
answered twice (E writes are matched by channel alone, `Drives`); spacing backward
over a patched tape fails an assertion; a frame of almost the size of a ring entry
reaches into the next one, and a master clear of the mainframe leaves an open
Ethernet interface writing to its rings; opening an interface without a device is
not answered.

### Bounds

`MCSoftCpu`: two CPUs are enough for every pairwise race (sender and receiver of
an interrupt, leaver and joiner of a cluster, master clear between them); three
packages hold the two user contexts and the package through which CPU 1 is
started; an operating system in the users' cluster competes for the semaphore in
monitor mode. In the workload with test-and-set only CPU 1 is interrupted by the other
CPU (the contexts of CPU 0 change by EX), in the one with cluster changes both are.
One cluster and cluster 0 (none) give all four kinds of move; `SizeMod` 3 or
4 lets `TestAndSetBlockedCnt` wrap; limit 3 with increment 2 has a last step
shorter than the increment, limit 0 is the boundary. Runs about one CPU use one.

`CpuInst.cfg`: words of 7 bits (sign, 3 exponent, 3 fraction bits), so that all
pairs of operands can be tried and the sum still has carries, cancellations,
unnormalised operands and exponents at their limits; addresses of 4 bits (3 in
X-MP mode), 8 words of memory with base and limit, so that addresses wrap and
pass the limit at every element.

`IopCrayTransfer.cfg`: `IoSize = 3` stands for 16384, so that a count of 0 is a
transfer longer than some windows and the address wraps from every start. The
two channels of the other workload move one word at a time: what matters there is which
of them is pending when the other is served.

`IopCpu.cfg`: six slots (16 in the code) let a program of depth 5 fill the stack,
spill, empty it and reload; `Keep = 2` leaves room above and below; a burst of two
instructions separates those that break it. `MaxSaved = 4` lets a second spill
follow the first. A stale `I = 1` can nest interrupts without bound; where memory
for return addresses is used up the handler does not serve the boundary, and the
stack is then used `late`.

`Iop.cfg`: two tracks, two heads and three sectors make every wrong order of the
address computation visible; tapes of up to six records and marks have every pair of
neighbours; the tape on the block multiplexer, of up to four, has two files and can
be rewritten to any sequence of two records and marks; one lost connection, three
characters printed and two typed let a queue be interrupted at every entry; two
connections, one master clear, two messages of up to two segments of two words, read
in pieces of any size, give every cut of the stream.

`SimIos.cfg`: two requests of a J90, in one buffer or in two, are enough for one
to overtake the other; three of a Y-MP EL open a console, announce a panic and
print on it; sequence numbers are taken modulo 3, so that they wrap. An input ring
of two entries holds one frame, so that the second meets a full ring; an output
ring of three lets the driver add a packet while others are being sent, and the
third packet wraps it; two sessions show what a close leaves behind.

Deadlock is not checked in `cpu_instructions`, `iop`, `sim_ios` and
`console_reconnect`: their programs, terminals and stations are bounded
(`left`, `MaxSend`, `MaxTyped`, ...) and stop at the bound, and a failed assertion
ends the simulator. No symmetry is used: CPU 0 is special for routing and dead
start, channels have priorities.

### Fairness

`SoftCpu!FairSpec`, and `LivenessSpec` of `MCWorkloads` for two repertoires: weak fairness of Tick, since `CpuThread` calls it in an
endless loop, and strong fairness of `EndBurst`, since a burst is a loop over
at most `mInstructionBurstSize` instructions and the model does not count them. That
a burst ends is thus assumed, also for one that spins on a test-and-set; what
IoInterruptTaken shows is that an interrupt is then taken, not that the burst breaks.
Nothing is assumed of the guest, the main thread or the lock: `Lock_c` is an
unfair spin lock, and for that reason no liveness of CpuMasterClear is claimed.
`IopCrayChannel!FairSpec`: a thread inside DoTransfer goes on, and the operating
system takes and clears the interrupts it gets.
`SimIos!FairSpec`: weak fairness of the main loop's Tick and ChannelTick, of the
host's completion of a console write, and of a mainframe that primes its input
channel again; it may clear the channel `MaxClear` times, which is why a packet
can be interrupted but not for ever.
`EthFairness` of `Ethernet`: the main loop and the capture thread go on, the channel
delivers (which AllDelivered shows) and the driver serves what it is told; nothing
is assumed of frames, requests and kicks. `IosFairness` of `MCSimIos` is the same
for the part exercised.

## 4. Proofs

`SoftCpuProofs` proves for every number of CPUs, clusters, semaphores, packages
and every set of guest instructions, from `ConstantsAssumption` alone (the
constants are of their types, there is a CPU, the startup CPU exists, the clock's
increment and `SizeMod` are not 0):

* `TypeCorrect`: `Spec => []TypeOK`. One lemma per group of actions
  (`TickType`, `InstructionType`, `MainThreadType`), over lemmas on the operators
  (`HandleCountersType`: the countdown does not go below zero).
* `ResetQuiet`: `Spec => []ResetIsQuiet`, and
  `NoSpuriousExchange`: `Spec => []ExchangeHasCause`. Neither is inductive alone: an exchange has a
  cause because CheckInterrupts saw one with the mask of a CPU that may have
  been in reset, and dropping reset shrinks the mask only in monitor mode, which
  a reset CPU is not in. `ResetInv` joins TypeOK and both. The proof
  rests on `OthersUntouched`: a step of one thread leaves the private state of
  the other CPUs alone, so only the CPU that moves and master clear matter.
* `InterruptsKept`: `Spec => NoInterruptLost`, an action property, from TypeOK.
* `ClusterCounts`: `Spec => []ClusterCountExact`. The set of a cluster's
  members is finite and changes by at most the CPU that moves; the lemmas
  `LeaveClusterExact` and `JoinClusterExact` remove it and add it and use the
  cardinality theorems of the library.

Two theorems of `SoftCpuProofs` are about contexts. Both hold of an
operating system that never lets two CPUs exchange with one package at a time, the
hypothesis `[]PackagesApart`: the code reads and overwrites a package in two steps and
locks nothing, so two CPUs that did so would go on with the same context. The run
`cpu_contexts` checks both properties without the hypothesis, and its guest keeps to it.

* `ContextsInOnePlace`: `Spec /\ []PackagesApart => []ContextsUnique`. The property is
  not inductive, because it says nothing of the context an exchange has read and not yet
  stored. `PlacesInv` counts that one too: a context in transit is on no CPU, in no
  other transit, and in no package but the one it was read from.
* `SemaphoresExclude`: `Spec /\ []PackagesApart => []SemaphoreExclusion`, from the same
  invariant with `SemaphoreInv`: the exclusion among the contexts in transit too, and a
  context past a test-and-set does not execute CLN, so that it never leaves its
  cluster (`ClnInv` carries this from the first to the second step of a CLN).

`IopCrayChannelProofs` proves for every set of channels, directions, windows, counts and
memory sizes, from `ChannelAssumption`:

* `TypeCorrect`: `Spec => []TypeOK`, with the windows (`WindowOK`) and the places of the
  threads in the loop (`LoopOK`).
* `NothingStalls`: `Spec => []NoStalledTransfer`, in the single- and in the multi-threaded
  build. When both halves are primed some thread is in DoTransfer, for this channel
  (`PrimedServed`).
* `InterruptsGetThrough`: `Spec => []InterruptNotStuck` if MC is issued by the interrupt
  service only (`~McAnywhere`). Otherwise it is false, see section 3.
* `AssertionsHold`: `Spec => []NoAssertionFails`, and `TransfersExact`: `Spec =>
  TransferExact`, in the single-threaded build (`~MultiThreaded`; in the other one the run
  `channel_threads` refutes the first). `SingleInv` says that one thread is in the loop,
  that both halves stay primed while it is between test and store, and that the word it
  holds came from the address it is at; `HistoryInv` relates the words moved so far to
  the registers: count, address and, over a window, central memory address.

`IopCpuProofs` proves for every size of the exit stack, burst, call depth and set of
peripherals, from `IopAssumption` (five slots at least, numbers that are numbers):

* `TypeCorrect`: `Spec => []TypeOK`, in which the stack pointer and its wrap-around matter.
* `StackIsCallStack`: `Spec => []CallStackExact`. What runs and the frames below it are a
  `Chain`: callers in order, at most one address zero with a program fetch request for just
  that depth, then addresses in the handler. Each way to move an address has a lemma
  (`ChainPush`, `ChainPop`, `ChainFetch`), each way to move a frame another (`FramesPush`,
  `FramesPop`, `FramesServe`, `FramesReturn`).
* `InterruptsComeInTime`: `Spec => []InterruptsInTime`, and `InterruptsAreSpaced`: `Spec =>
  InterruptsSpaced`. Neither is inductive. While the boundary flag is up, either the interrupt
  comes before the next instruction or the handler runs (`BoundaryInv`), two slots are free
  while it is not (`SlotInv`), and in the handler interrupts are off unless an `I = 1` was
  stale (`HandlerInv`). The chain is needed here too: it says what an EXIT of the handler
  returns to. `Core` joins them; one lemma per action shows that it is kept.

`ConsoleProofs` needs no assumption: `CompletionsKept` (`Spec => []NoLostCompletion`) and
`OutputInOrder` (`Spec => []PrintedInOrder`). `QueueInv` relates the screen, the entries being written and the
transmit queue: each is in the order of printing, an entry that will be acknowledged
comes after everything on the screen, and the last entry being written is the head of
the queue, also after a write that a broken connection left behind.

`PeripheralProofs` proves properties of five parts, each from the specification of its own
module, and carries those of the peripherals over to `IopSpec`, the specification of all of them
(`PartsApart`: a behaviour of the whole is one of each part).

* `ParcelsAnsweredOnce`: `LinkSpec => []ParcelsAnswered`, and `NoMutualStall`: `LinkSpec =>
  []StallEnds`. The invariant `LinkInv` adds to them that a parcel still in the channel is the
  last one sent, later than all that were taken, and not dropped; that nothing later than the
  last one sent was taken or dropped; and that the IOP whose burst is running is out of reset.
* `InterruptsAreAnnounced`: `IopSpec => []InterruptsAnnounced`, if the lengths of clock
  responses are numbers. Every function of the expander that changes a device or the mask ends
  with IntStatusChanged; `ExpInv` adds that the clock is the only device with a response.
* `SectorsReadBack`: `IopSpec => []DiskReadsBack`, for every geometry with a track, a head and a
  sector. `DiskInv` extends the property from the sector that was just read to all of
  them. What it rests on is arithmetic: a place has one track, head and sector (`Places`,
  `PlacesDiffer`, from `Digits`: a number has one representation to a base), and the other order
  in which FormatSector computes a place stays within its track.
* `MarksExact`: `IopSpec => []MarkFlagsExact`, for all tapes (a tape is a sequence of record
  sizes), transfer sizes and lengths of sense data. Each operation of the image file keeps the head
  well formed (`HeadOK`) in every one of its branches (`NextMoves`, `PrevMoves`, `ReadMoves`,
  `WriteOK`). `Bmx` needs that a read moves no more bytes than were asked for (`WordsLeft`), or
  its byte counter would wrap.
* `PatchesExact`: `IopSpec => []PokeOffsetExact`. The invariant (`TapeInv`) adds that a head that
  met the end is there, which a step forward relies on, and that mFileSizes is that of the tape
  unless the tape was written: a step back over a mark takes the offset from it. That it finds
  the right entry is `FileSizeFound`: no two marks have as many marks before them (`MarksGrow`).
* `FilesSpaced`: `IopSpec => SpacesOneFile`, of the steps of `Bmx`. The four loops that space over
  records and files are recursive functions: `Runs` shows that a run of every length exists, and
  the invariants of the loops, `Ahead` (it has passed at least as many items as it took steps and
  no mark, or it stopped at the first) and `Behind`, hold by induction over their steps
  (`RunAhead`, `RunBehind`). There are fewer items than steps, so a loop forward stops. One
  backward says nothing once it passed the beginning, where a first mark is hidden from it; but
  there it never stops, and the property is about loops that do.

`ConcentratorProofs` proves, if packages have a word at least (`PackageSizes`), for any number of
messages, connections and master clears:

* `PackagesDelivered`: `IopSpec => []PduPerTransfer`. `Units` and `WordsOf` are the stream and the
  words of the last packages of a message. `Cut` says that for one of these numbers the receive
  buffer with what was not yet read is the stream of that many packages, and the words cut off
  and not yet taken, with the words of those packages, are what the IOP has not got. Each turn of
  ProcessReceivedBytes keeps that (`TurnCut`), and so do all of them, which are a recursive function (`ProcessedCut`,
  by induction over the turns); what the IOP then takes are words from the front, and
  where a transfer ends is where a package does (`PackageMoved`): by its size when the next package is
  there already, by IsReceptionComplete when the last one is short.
* `RepliesFramed`: `IopSpec => []DownlineFramed`. `ReplyOf` says which segments of a reply are
  complete and how much there is of the one being written; `Programs` relates that to what the
  IOP's program has still to write. It needs the other direction: mSubsegmentCount counts for
  both, so the receiver must have none left when a reply begins.

Neither holds by itself between messages: `Between` says that whatever happens to
the connection, both machines and the program are found between messages, or the connection is
`garbled`. `ConcInv` joins the parts; a handler of a closed socket that runs late is a step that
has to keep all of them.

`SimIosProofs` proves from `SimIosConstants` (the types of the constants, finitely many
drives, request types the handlers know):

* `PacketsArriveOnce`: `Spec => ImplementsPool`, the refinement: Init maps to the empty
  pool, and every step of the main loop and of the mainframe hands packets over, receives
  one that is in transit or stutters, with `pending` mapped to packet and queue.
* `AnswersInOrder`: `Spec => []BufferInOrder`, and `AnswersAcknowledge`:
  `Spec => []AnswerAcknowledges`. The order holds between what was received, the packet being
  sent and the queue, pairwise (`OrderInv`); everything sent belongs to a buffer and an
  acknowledgement made before (`SentInv`); the requests under way to an IOSE are numbered
  from the last one handled (`NumberInv`), which needs what each state of the handshake may
  find in its buffers (`HandshakeInv`). HandleBuffer is a recursive function over the requests
  of a buffer; what it does to a buffer of any length is proved by induction over the set of
  prefixes that were handled correctly (`SetInduction`).

`EthernetProofs` proves from `EthernetAssumption` (the rings have an entry), for every ring
size and every number of frames, packets, sessions and kicks:

* `TypeCorrect`: `EthSpec => []TypeOK`: no index leaves its ring.
* `NothingAfterClose`: `EthSpec => []ClosedIsQuiet`. It needs to know where everybody is in
  a session: `Session` says, for each state of the driver, which requests and answers are
  under way, that the capture thread is paused before an open and after a close was handled,
  and that the main thread has left the rings by then.
* `OutputSentOnce`: `EthSpec => []PacketsSentOnce`. The property says nothing of the packets
  HandleTxPackets is working on. `SentInv` adds that nobody moves the read index meanwhile and
  that the write index it read lies in the ring (`Working`), that the entries behind its index
  were sent (`DoneIsSent`), so that the read index may be moved over them, and that the
  others are newer than all that was sent unless a kick that failed had sent them (`RestIsNew`).
* `InputInOrder`: `EthSpec => []FramesIntact`. `LineInv` extends the line by the frame the
  capture thread holds, with the numbers given so far as its bound, and says that the slot
  HandleRxPacket has written is free and holds its frame until the index moves (`Entry`).

The rings have lemmas of their own, each for what one side does to indices that wrap: to write
the free slot changes no entry (`RingWrite`), to move the write index appends one
(`RingAppend`), to move the read index takes the oldest (`RingTake`) or several (`RingSkip`).
That the driver clears the rings when it opens or closes keeps all of this only because of
`Session`. `EthInv` joins the parts.

Each of the inductive invariants was checked by TLC on the instance of the component
before it was proved.

Only model-checked are the results of the instructions (`CpuInst`, whose arithmetic is made of
recursive operators, which the prover cannot reach) and every liveness property: liveness under
fairness and ENABLED are out of its reach.

## 5. Not modelled

* CPU: the SV1 bit matrix and cache instructions, the integer product of 0166 in
  Y-MP mode, the reciprocal table, the shared registers, the performance monitor,
  instruction buffers and breakpoints. Interrupts and arithmetic are in two modules:
  a context is a `task` in `SoftCpu` and a register file in `CpuInst`.
* IOP: accumulator, operand registers, shifts (rotating by more than 17, at
  `cray_iop.cpp:748`, shifts zeros in), the real-time clock, buffer memory
  transfers.
* Channels: the IOP's interrupt enable on the mainframe channel (functions 6 and
  7), the decoding of messages for the log, `mError`, which nothing raises; the
  order of routing an interrupt and setting its pending bit.
* Peripherals: host memory (a copy in one step), the error channel; memory
  addresses, device interrupts (which a tape never raises) and the registers that
  are only read back of the block multiplexer; the contents of records and sectors; what a concentrator does
  with a connection that starts in the middle of a message.
* Simulated IOS: PROBE and IOCTL of the Ethernet interface (answered, no other
  effect) and a master clear of it, file server, contents of disks, panel commands.
* Events, dumps, statistics, configuration, log, user interface, host network
  devices, guest inspection, stand-alone tools, vendored code.
* Host failures (a file that cannot be written) beyond the assertions.

The map covers about 13 % of all C and C++ lines of the repository. The larger
part of the rest carries no logic of the simulated machine: the vendored curses
library alone is more than 40 % of the lines, and stand-alone disassemblers and
converters, user interface, configuration, logging and the text of log messages
make up most of what is left. Of the simulation library (`sim_lib`, 27 433 lines
with the log's wording) the models stand for 9 100 lines, one in three.

## 6. Plan

1. `IopAlu`: accumulator, shifts and operand registers of the IOP as operators at
   a reduced width against a reference definition.
2. Buffer memory transfers and the real-time clock of the IOP, host memory.
3. Abstract call stack and abstract channel, implemented by `IopCpu` and
   `IopCrayChannel`.

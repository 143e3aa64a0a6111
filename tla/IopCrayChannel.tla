-------------------------- MODULE IopCrayChannel --------------------------
(***************************************************************************)
(* The channels between the mainframe and an I/O processor: Channel_i      *)
(* (cray_channels.h/.cpp), the mainframe's half, and IopCrayChannel_c      *)
(* (iop_iop2cray.h/.cpp), the half of the IOP.  A channel moves words in   *)
(* one direction, dir[ch]: "CtoI" from central memory to IOP memory, or    *)
(* "ItoC" back.                                                            *)
(*                                                                         *)
(* Two drivers use a channel.  The operating system on the CPU programs a  *)
(* window of central memory (CL, CA) and serves channel interrupts; the    *)
(* IOP programs an address and a word count (DoIo).  Whichever side comes  *)
(* second runs the loop DoTransfer, which goes on until the window or the  *)
(* count is used up.  In a single-threaded build a handler runs to its     *)
(* end before the other side gets a turn; with MultiThreaded the CPU       *)
(* thread and the main thread, which runs the IOP, interleave, and nothing *)
(* locks DoTransfer.                                                       *)
(*                                                                         *)
(* Functions 6 and 7 only enable the interrupt of the IOP, which is not    *)
(* part of this module.                                                    *)
(*                                                                         *)
(* Guest assumptions, none of which the code checks: the operating system  *)
(* programs windows inside central memory, and moves the limit of an       *)
(* active channel only beyond the address it has reached; the IOP sets     *)
(* address and count only while the channel is not busy, and never sends   *)
(* more words than the window it fills can take.                           *)
(***************************************************************************)
EXTENDS Integers, Sequences

CONSTANTS
  Channels,       \* channel numbers, the lowest has the highest priority
  Dirs,           \* the directions the configuration may give the channels
  MemSize,        \* words of central memory
  IoSize,         \* words of IOP memory: 16384, the range of the 14-bit counter
  Windows,        \* the <<address, limit>> pairs the operating system programs
                  \* on each channel
  IoAddrs,        \* IOP memory addresses the IOP programs
  Sizes,          \* word counts the IOP programs; 0 means IoSize
  MultiThreaded,  \* whether CPU and IOP run in threads of their own
  McAnywhere      \* whether the operating system also issues MC while it is
                  \* not serving a channel interrupt

ASSUME ChannelAssumption ==
  /\ Channels \subseteq Nat
  /\ Dirs \subseteq [Channels -> {"CtoI", "ItoC"}]
  /\ MemSize \in Nat \ {0} /\ IoSize \in Nat \ {0}
  /\ Windows \in [Channels -> SUBSET {w \in (0 .. MemSize) \X (0 .. MemSize) : w[1] <= w[2]}]
  /\ IoAddrs \subseteq 0 .. IoSize - 1
  /\ Sizes \subseteq 0 .. IoSize - 1
  /\ MultiThreaded \in BOOLEAN /\ McAnywhere \in BOOLEAN

Threads == {"cpu", "iop"}

VARIABLES
  dir,           \* mAllowCtoI and mAllowItoC: the direction, fixed at construction
  addr, limit,   \* mAddress, mLimit
  active,        \* mActive: the mainframe's half is primed
  pending,       \* mInterruptPending
  busy,          \* mCtoIActive or mItoCActive: the IOP's half is primed
  done,          \* mDone
  ready,         \* mReadyWaiting of an input channel of the IOP; that of an
                 \* output channel is never read
  hold,          \* mHoldDisconnect
  ioAddr, size,  \* mIoMemoryAddr, mTransferSize
  ioMc,          \* mIoMasterClear
  ioi,           \* an I/O interrupt is latched or flagged at the CPU
  serving,       \* the operating system is in its channel interrupt service
  loop,          \* loop[t]: where thread t is in DoTransfer, on which channel,
                 \* and where the word came from that it has yet to store
  moved,         \* history: central (c) and IOP (i) address of every word the
                 \* transfer under way has moved
  base,          \* history: the IOP address and word count of that transfer
  asserted       \* a CRAY_ASSERT failed: the exception ends the simulation

mfVars == <<addr, limit, active, pending>>
iopVars == <<busy, done, ready, hold, ioAddr, size>>
cpuVars == <<ioi, serving>>
history == <<moved, base>>
vars == <<dir, mfVars, iopVars, ioMc, cpuVars, loop, history, asserted>>

Idle == [at |-> "out", ch |-> 0, word |-> 0]
NoBase == <<0, 0>>

(* The number of words a programmed count stands for. *)
Count(n) == IF n = 0 THEN IoSize ELSE n

(* The IOP never sends more words than the window from a to l can take. *)
Room(ch, n, a, l) == dir[ch] = "ItoC" => Count(n) <= l - a

(* A thread may start a handler when it is in none, and, in a single-      *)
(* threaded build, when the other one is in none.                          *)
Free(t) ==
  /\ ~asserted
  /\ loop[t] = Idle
  /\ MultiThreaded \/ \A u \in Threads : loop[u] = Idle

DoNotEnter(t, ch) == UNCHANGED loop
EnterTransfer(t, ch) ==
  loop' = [loop EXCEPT ![t] = [at |-> "test", ch |-> ch, word |-> 0]]

Init ==
  /\ dir \in Dirs
  /\ addr = [ch \in Channels |-> 0] /\ limit = [ch \in Channels |-> 0]
  /\ active = [ch \in Channels |-> FALSE] /\ pending = [ch \in Channels |-> FALSE]
  /\ busy = [ch \in Channels |-> FALSE] /\ done = [ch \in Channels |-> FALSE]
  /\ ready = [ch \in Channels |-> FALSE] /\ hold = [ch \in Channels |-> FALSE]
  /\ ioAddr = [ch \in Channels |-> 0] /\ size = [ch \in Channels |-> 0]
  /\ ioMc = FALSE /\ ioi = FALSE /\ serving = FALSE
  /\ loop = [t \in Threads |-> Idle]
  /\ moved = [ch \in Channels |-> <<>>] /\ base = [ch \in Channels |-> NoBase]
  /\ asserted = FALSE

-----------------------------------------------------------------------------
(* Channel_i *)

(* SetInterruptPending(true): an interrupt is routed on the rising edge. *)
SetInterruptUnrouted(ch) == pending' = [pending EXCEPT ![ch] = TRUE] /\ UNCHANGED ioi
SetInterrupt(ch) ==
  /\ ioi' = (ioi \/ ~pending[ch])
  /\ pending' = [pending EXCEPT ![ch] = TRUE]

(* CL,Aj Ak, which may move the limit of a channel that is transferring. *)
SetLimit(ch, l) ==
  /\ Free("cpu")
  /\ active[ch] => addr[ch] < l /\ (busy[ch] => Room(ch, size[ch], addr[ch], l))
  /\ limit' = [limit EXCEPT ![ch] = l]
  /\ UNCHANGED <<addr, active, pending, iopVars, ioMc, cpuVars, loop, history, asserted, dir>>

(* SetActive and HandleActivation: on the rising edge the transfer starts. *)
OnlyNoteActivation(ch, activates) == UNCHANGED loop
HandleActivation(ch, activates) ==
  IF activates THEN EnterTransfer("cpu", ch) ELSE UNCHANGED loop

(* CA,Aj Ak.  An address unequal to the limit activates the channel;       *)
(* HandleActivation notes a ready signal the IOP did not wait for and      *)
(* tries to transfer.  An address equal to the limit deactivates it.       *)
SetAddress(ch, a) ==
  LET activates == a # limit[ch] /\ ~active[ch]
  IN /\ Free("cpu")
     /\ <<a, limit[ch]>> \in Windows[ch]
     /\ busy[ch] => a = limit[ch] \/ Room(ch, size[ch], a, limit[ch])
     /\ addr' = [addr EXCEPT ![ch] = a]
     /\ active' = [active EXCEPT ![ch] = a # limit[ch]]
     /\ ready' = [ready EXCEPT ![ch] =
                    @ \/ (activates /\ dir[ch] = "CtoI" /\ ~busy[ch])]
     /\ HandleActivation(ch, activates)
     /\ UNCHANGED <<limit, pending, busy, done, hold, ioAddr, size,
                    ioMc, cpuVars, history, asserted, dir>>

(* The CPU takes the routed interrupt; the operating system then asks for  *)
(* the pending channel of highest priority (Ai CI) and clears its          *)
(* interrupt (CI,Aj) until none is left.                                   *)
TakeInterrupt ==
  /\ Free("cpu") /\ ioi /\ ~serving
  /\ ioi' = FALSE /\ serving' = TRUE
  /\ UNCHANGED <<mfVars, iopVars, ioMc, loop, history, asserted, dir>>

PendingChannels == {ch \in Channels : pending[ch]}

ClearInterrupt ==
  /\ Free("cpu") /\ serving
  /\ \E ch \in PendingChannels :
       /\ \A other \in PendingChannels : ch <= other
       /\ pending' = [pending EXCEPT ![ch] = FALSE]
  /\ UNCHANGED <<addr, limit, active, iopVars, ioMc, cpuVars, loop, history, asserted, dir>>

EndService ==
  /\ Free("cpu") /\ serving /\ PendingChannels = {}
  /\ serving' = FALSE
  /\ UNCHANGED <<mfVars, iopVars, ioMc, ioi, loop, history, asserted, dir>>

MainframeSideMasterClear(S) ==
  /\ addr' = [ch \in Channels |-> IF ch \in S THEN 0 ELSE addr[ch]]
  /\ limit' = [ch \in Channels |-> IF ch \in S THEN 0 ELSE limit[ch]]
  /\ pending' = [ch \in Channels |-> pending[ch] /\ ch \notin S]
  /\ active' = [ch \in Channels |-> active[ch] /\ ch \notin S]

(* MC,Aj: clears the channel, and the I/O interrupt flag of the CPU; only  *)
(* a request that another thread latched during this burst survives.       *)
MC(ch) ==
  /\ Free("cpu") /\ (serving \/ McAnywhere)
  /\ MainframeSideMasterClear({ch})
  /\ ioi' \in (IF MultiThreaded THEN {ioi, FALSE} ELSE {FALSE})
  /\ UNCHANGED <<iopVars, ioMc, serving, loop, history, asserted, dir>>

-----------------------------------------------------------------------------
(* IopCrayChannel_c::DoIo *)

Forget(ch) == moved' = [moved EXCEPT ![ch] = <<>>] /\ base' = [base EXCEPT ![ch] = NoBase]

DoIo0(ch) ==
  /\ Free("iop")
  /\ busy' = [busy EXCEPT ![ch] = FALSE] /\ done' = [done EXCEPT ![ch] = FALSE]
  /\ Forget(ch)
  /\ UNCHANGED <<mfVars, ready, hold, ioAddr, size, ioMc, cpuVars, loop, asserted, dir>>

DoIo1(ch, a) ==
  /\ Free("iop") /\ ~busy[ch]
  /\ active[ch] => Room(ch, size[ch], addr[ch], limit[ch])
  /\ ioAddr' = [ioAddr EXCEPT ![ch] = a]
  /\ busy' = [busy EXCEPT ![ch] = TRUE] /\ done' = [done EXCEPT ![ch] = FALSE]
  /\ EnterTransfer("iop", ch)
  /\ moved' = [moved EXCEPT ![ch] = <<>>]
  /\ base' = [base EXCEPT ![ch] = <<a, size[ch]>>]
  /\ UNCHANGED <<mfVars, ready, hold, size, ioMc, cpuVars, asserted, dir>>

DoIo2(ch, n) ==
  /\ Free("iop") /\ ~busy[ch]
  /\ size' = [size EXCEPT ![ch] = n]
  /\ UNCHANGED <<mfVars, busy, done, ready, hold, ioAddr, ioMc, cpuVars, loop, history, asserted, dir>>

(* Function 4 of an input channel of the IOP clears the ready-waiting flag. *)
DoIo4CtoI(ch) ==
  /\ Free("iop") /\ dir[ch] = "CtoI"
  /\ ready' = [ready EXCEPT ![ch] = FALSE]
  /\ UNCHANGED <<mfVars, busy, done, hold, ioAddr, size, ioMc, cpuVars, loop, history, asserted, dir>>

(* Function 4 of an output channel: disconnect, hold the disconnect of the *)
(* next transfer, drive I/O master clear, whose falling edge clears every  *)
(* channel.  (Its CPU master clear bit is in SoftCpu.)                     *)
DoIo4ItoC(ch, disconnect, h, mc) ==
  LET cleared == IF ioMc /\ ~mc THEN Channels ELSE {}
      raised == IF disconnect THEN {ch} ELSE {}
  IN /\ Free("iop") /\ dir[ch] = "ItoC"
     /\ addr' = [x \in Channels |-> IF x \in cleared THEN 0 ELSE addr[x]]
     /\ limit' = [x \in Channels |-> IF x \in cleared THEN 0 ELSE limit[x]]
     /\ active' = [x \in Channels |-> active[x] /\ x \notin cleared \cup raised]
     /\ pending' = [x \in Channels |-> (pending[x] \/ x \in raised) /\ x \notin cleared]
     /\ ioi' = (ioi \/ \E x \in raised : ~pending[x])
     /\ hold' = [hold EXCEPT ![ch] = h]
     /\ ioMc' = mc
     /\ UNCHANGED <<busy, done, ready, ioAddr, size, serving, loop, history, asserted, dir>>

(* MasterClear: a dead start of the IOP clears its half of every channel,  *)
(* and leaves the half of the mainframe as it is.                          *)
MasterClear ==
  LET cleared == [ch \in Channels |-> FALSE]
  IN /\ Free("iop")
     /\ busy' = cleared /\ done' = cleared /\ ready' = cleared /\ hold' = cleared
     /\ ioAddr' = [ch \in Channels |-> 0] /\ size' = [ch \in Channels |-> 0]
     /\ moved' = [ch \in Channels |-> <<>>] /\ base' = [ch \in Channels |-> NoBase]
     /\ UNCHANGED <<mfVars, ioMc, cpuVars, loop, asserted, dir>>

-----------------------------------------------------------------------------
(* IopCrayChannel_c::DoTransfer, one word at a time *)

Fail == asserted' = TRUE /\ UNCHANGED <<mfVars, iopVars, ioMc, cpuVars, loop, history, dir>>

(* The loop condition, and the assertion that the IOP's half is not done. *)
TestLoop(t) ==
  LET ch == loop[t].ch
  IN /\ ~asserted /\ loop[t].at = "test"
     /\ \/ /\ ~(busy[ch] /\ active[ch])
           /\ loop' = [loop EXCEPT ![t] = Idle]
           /\ IF busy[ch] THEN UNCHANGED history ELSE Forget(ch)
           /\ UNCHANGED <<mfVars, iopVars, ioMc, cpuVars, asserted, dir>>
        \/ /\ busy[ch] /\ active[ch] /\ ~done[ch]
           /\ loop' = [loop EXCEPT ![t].at = "fetch"]
           /\ UNCHANGED <<mfVars, iopVars, ioMc, cpuVars, history, asserted, dir>>
        \/ busy[ch] /\ active[ch] /\ done[ch] /\ Fail

(* GetData: the word at addr; at the limit the window is used up. *)
UsedUpTooLate(ch) == addr[ch] = limit[ch]
UsedUp(ch) == addr[ch] + 1 = limit[ch]

GetData(t) ==
  LET ch == loop[t].ch
  IN /\ addr' = [addr EXCEPT ![ch] = @ + 1]
     /\ IF UsedUp(ch)
        THEN SetInterrupt(ch) /\ active' = [active EXCEPT ![ch] = FALSE]
        ELSE UNCHANGED <<pending, ioi, active>>
     /\ loop' = [loop EXCEPT ![t].at = "store", ![t].word = addr[ch]]
     /\ UNCHANGED <<limit, iopVars, ioMc, serving, history, asserted, dir>>

FetchCtoI(t) ==
  LET ch == loop[t].ch
  IN /\ ~asserted /\ loop[t].at = "fetch" /\ dir[ch] = "CtoI"
     /\ IF active[ch] /\ addr[ch] # limit[ch] THEN GetData(t) ELSE Fail

FetchItoC(t) ==
  LET ch == loop[t].ch
  IN /\ ~asserted /\ loop[t].at = "fetch" /\ dir[ch] = "ItoC"
     /\ loop' = [loop EXCEPT ![t].at = "store", ![t].word = ioAddr[ch]]
     /\ UNCHANGED <<mfVars, iopVars, ioMc, cpuVars, history, asserted, dir>>

(* The bookkeeping of the IOP's half after a word: the address wraps at    *)
(* the end of its memory, the count underflows, and at zero the transfer   *)
(* is done.                                                                *)
IoAddrWrappedEarly(a) == IF a < IoSize - 2 THEN a + 1 ELSE 0
NextIoAddr(a) == IF a # IoSize - 1 THEN a + 1 ELSE 0

Advance(t) ==
  LET ch == loop[t].ch
      left == (size[ch] - 1) % IoSize
  IN /\ ioAddr' = [ioAddr EXCEPT ![ch] = NextIoAddr(@)]
     /\ size' = [size EXCEPT ![ch] = left]
     /\ busy' = [busy EXCEPT ![ch] = @ /\ left # 0]
     /\ done' = [done EXCEPT ![ch] = @ \/ left = 0]
     /\ loop' = [loop EXCEPT ![t] = [at |-> "test", ch |-> ch, word |-> 0]]
     /\ UNCHANGED <<limit, ready, hold, ioMc, serving, base, asserted, dir>>

StoreCtoI(t) ==
  LET ch == loop[t].ch
  IN /\ ~asserted /\ loop[t].at = "store" /\ dir[ch] = "CtoI"
     /\ moved' = [moved EXCEPT ![ch] = Append(@, [c |-> loop[t].word, i |-> ioAddr[ch]])]
     /\ Advance(t)
     /\ UNCHANGED <<addr, active, pending, ioi>>

(* SetData, then a disconnect if the count is used up and none is held. *)
StoreItoC(t) ==
  LET ch == loop[t].ch
  IN /\ ~asserted /\ loop[t].at = "store" /\ dir[ch] = "ItoC"
     /\ \/ /\ active[ch] /\ addr[ch] # limit[ch]
           /\ moved' = [moved EXCEPT ![ch] = Append(@, [c |-> addr[ch], i |-> loop[t].word])]
           /\ addr' = [addr EXCEPT ![ch] = @ + 1]
           /\ Advance(t)
           /\ IF (size[ch] - 1) % IoSize = 0 /\ ~hold[ch]
              THEN SetInterrupt(ch) /\ active' = [active EXCEPT ![ch] = FALSE]
              ELSE UNCHANGED <<pending, ioi, active>>
        \/ ~(active[ch] /\ addr[ch] # limit[ch]) /\ Fail

DoTransfer(t) ==
  TestLoop(t) \/ FetchCtoI(t) \/ FetchItoC(t) \/ StoreCtoI(t) \/ StoreItoC(t)

-----------------------------------------------------------------------------
OperatingSystem ==
  \/ TakeInterrupt \/ ClearInterrupt \/ EndService
  \/ \E ch \in Channels :
       \/ MC(ch)
       \/ \E w \in Windows[ch] : SetLimit(ch, w[2]) \/ SetAddress(ch, w[1])

Iop ==
  \/ MasterClear
  \/ \E ch \in Channels :
       \/ DoIo0(ch) \/ DoIo4CtoI(ch)
       \/ \E a \in IoAddrs : DoIo1(ch, a)
       \/ \E n \in Sizes : DoIo2(ch, n)
       \/ \E d, h, mc \in BOOLEAN : DoIo4ItoC(ch, d, h, mc)

Next == OperatingSystem \/ Iop \/ \E t \in Threads : DoTransfer(t)

Spec == Init /\ [][Next]_vars

(* A thread in DoTransfer goes on, and the operating system serves the     *)
(* interrupts it gets.                                                     *)
FairSpec ==
  /\ Spec
  /\ \A t \in Threads : WF_vars(DoTransfer(t))
  /\ WF_vars(TakeInterrupt) /\ WF_vars(ClearInterrupt)

-----------------------------------------------------------------------------
(* Properties *)

(* The registers of both halves keep their ranges: the address stays in    *)
(* central memory, the IOP's address and count in 14 bits.                 *)
TypeOK ==
  /\ addr \in [Channels -> 0 .. MemSize] /\ limit \in [Channels -> 0 .. MemSize]
  /\ active \in [Channels -> BOOLEAN] /\ pending \in [Channels -> BOOLEAN]
  /\ busy \in [Channels -> BOOLEAN] /\ done \in [Channels -> BOOLEAN]
  /\ ready \in [Channels -> BOOLEAN] /\ hold \in [Channels -> BOOLEAN]
  /\ ioAddr \in [Channels -> 0 .. IoSize - 1] /\ size \in [Channels -> 0 .. IoSize - 1]
  /\ dir \in Dirs
  /\ ioMc \in BOOLEAN /\ ioi \in BOOLEAN /\ serving \in BOOLEAN
  /\ asserted \in BOOLEAN

(* No CRAY_ASSERT of GetData, SetData and DoTransfer fails: a word is      *)
(* moved only on an active channel, inside its window and before the IOP's *)
(* half is done.                                                           *)
NoAssertionFails == ~asserted

(* Whoever comes second moves the data: when no transfer is running, no    *)
(* channel has both halves primed, so neither side waits for the other     *)
(* although both are ready.                                                *)
NoStalledTransfer ==
  (\A t \in Threads : loop[t] = Idle) => \A ch \in Channels : ~(active[ch] /\ busy[ch])

(* When the IOP's half becomes done, exactly the programmed number of      *)
(* words was moved (16384 for a count of 0), through consecutive addresses *)
(* of IOP memory with wrap-around, and of central memory except where the  *)
(* operating system opened another window.                                 *)
MovedExactly(ch) ==
  /\ Len(moved[ch]) = Count(base[ch][2])
  /\ \A j \in 1 .. Len(moved[ch]) :
       /\ moved[ch][j].i = (base[ch][1] + j - 1) % IoSize
       /\ j > 1 => \/ moved[ch][j].c = moved[ch][j - 1].c + 1
                   \/ \E w \in Windows[ch] : w[1] = moved[ch][j].c

TransferExact ==
  [][\A ch \in Channels : ~done[ch] /\ done'[ch] => MovedExactly(ch)']_vars

(* A channel interrupt is never stuck: while a channel has one pending,    *)
(* the CPU has an I/O interrupt request or its service routine is running, *)
(* also when several channels complete together.                           *)
InterruptNotStuck ==
  (\E ch \in Channels : pending[ch]) => ioi \/ serving

(* A transfer ends: two primed halves do not stay primed for ever. *)
TransferEnds ==
  \A ch \in Channels : active[ch] /\ busy[ch] ~> ~(active[ch] /\ busy[ch])
=============================================================================

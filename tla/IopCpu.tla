------------------------------- MODULE IopCpu -------------------------------
(***************************************************************************)
(* One I/O processor: IopCpu_c (cray_iop.h/.cpp) with its interrupt logic, *)
(* the exit stack (ChannelPXS_c), program fetch requests (ChannelPFR_c)    *)
(* and the done and interrupt-enable flags of its channels.                *)
(*                                                                         *)
(* The main thread calls Tick(), which looks for an interrupt and then     *)
(* runs a burst of instructions; a peripheral may become done between two  *)
(* Ticks, and another IOP may dead start this one.                         *)
(*                                                                         *)
(* The exit stack is the call stack of the program in Depth slots, slot 0  *)
(* being the address of the interrupt handler.  The operating system of    *)
(* the IOP extends it into memory: the boundary flag interrupts it when    *)
(* the stack is almost full or was popped empty, and it moves return       *)
(* addresses to memory (saved) or back.                                    *)
(*                                                                         *)
(* Addresses are abstracted to what they belong to: n >= 0 is the routine  *)
(* at call depth n of the program; Zero is address 0, where the boot image *)
(* starts and where a jump to a routine that is not loaded leads (address  *)
(* k for the forms with an offset k); Vector, Handler and Leave are the    *)
(* entry, the body and the last instruction of the interrupt handler.      *)
(*                                                                         *)
(* Guest assumptions: the handler calls no routine, serves a boundary      *)
(* interrupt before it leaves, and leaves with "I = 1" directly followed   *)
(* by EXIT; the routine at depth 0 does not return; the program does I/O   *)
(* on the channels of peripherals only, and jumps to or calls a routine    *)
(* that is not loaded only when the last request for one was served (PFR   *)
(* is not done): the channel keeps one request, and a second one would     *)
(* replace it.  It is otherwise arbitrary.                                 *)
(***************************************************************************)
EXTENDS Integers, Sequences

CONSTANTS
  Depth,     \* slots of the exit stack: 16
  Keep,      \* return addresses the operating system leaves on the stack
  Burst,     \* InstructionBurstSize + 1: most instructions in a Tick
  MaxDepth,  \* bound: deepest call of the program
  MaxSaved,  \* bound: return addresses in memory
  Devices    \* channels of peripherals; PFR is channel 1, PXS channel 2 and
             \* MOS channel 5

PFR == 1
PXS == 2
MOS == 5
Channels == {PFR, PXS, MOS} \cup Devices

ASSUME IopAssumption ==
  /\ Depth \in Nat /\ Keep \in 1 .. Depth - 4
  /\ Burst \in Nat \ {0}
  /\ MaxDepth \in Nat /\ MaxSaved \in Nat
  /\ Devices \subseteq Nat \ {0, PFR, PXS, MOS}

Zero == -1
Vector == -2
Handler == -3
Leave == -4
Address == -4 .. MaxDepth

VARIABLES
  burst,         \* instructions left in the burst; 0 between two Ticks
  inReset,       \* InReset
  I, iWait,      \* I and ISetIsWaiting
  p,             \* P
  E, stack,      \* mE and mProgramExitStack
  done, enabled, \* channels whose done flag and whose interrupt enable is set
  saved,         \* guest: return addresses moved to memory, oldest first
  booted,        \* guest: the handler's address and the enables are set up
  want,          \* history: the routine a program fetch request asks for
  via,           \* history: how P was last loaded
  ran,           \* history: the program ran since its last interrupt
  stale,         \* history: "I = 1" was waiting when it was interrupted
  unserved,      \* history: which of PXS and PFR rose while it could not interrupt
  late           \* history: the stack was used after the boundary flag rose

cpuVars == <<burst, inReset, I, iWait, p, E, stack, done, enabled>>
guestVars == <<saved, booted>>
history == <<want, via, ran, stale, unserved, late>>
vars == <<cpuVars, guestVars, history>>

Empty == [e \in 0 .. Depth - 1 |-> Zero]

Init ==
  /\ burst = 0 /\ inReset = TRUE /\ I = TRUE /\ iWait = FALSE
  /\ p = Zero /\ E = 0 /\ stack = Empty
  /\ done = {} /\ enabled = Channels \ {PFR, PXS}
  /\ saved = <<>> /\ booted = FALSE
  /\ want = Zero /\ via = "jump" /\ ran = TRUE
  /\ stale = FALSE /\ unserved = {} /\ late = FALSE

-----------------------------------------------------------------------------
(* The exit stack *)

Up(e) == (e + 1) % Depth
Down(e) == (e - 1) % Depth

PushFlagsFull(e) == e >= Depth - 1
PushFlags(e) == e >= Depth - 2

(* Push: the flag rises when the new top is one of the last two slots. *)
Push(a, raised) ==
  /\ E' = Up(E)
  /\ stack' = [stack EXCEPT ![Up(E)] = a]
  /\ done' = done \cup raised \cup (IF PushFlags(Up(E)) THEN {PXS} ELSE {})

(* Pop: the flag rises when there is nothing to pop but the vector. *)
PopBelow ==
  /\ E' = Down(E)
  /\ p' = stack[Down(E)]
  /\ done' = done \cup (IF E = 0 THEN {PXS} ELSE {})
  /\ UNCHANGED stack
Pop ==
  /\ E' = Down(E)
  /\ p' = stack[E]
  /\ done' = done \cup (IF E = 0 THEN {PXS} ELSE {})
  /\ UNCHANGED stack

(* History of the flags, for every use of the stack. *)
Watch(tooLate) ==
  /\ unserved' = unserved \cup {ch \in done' \ done : ~(I /\ ch \in enabled)}
  /\ late' = tooLate

-----------------------------------------------------------------------------
(* Interrupts and bursts: Tick() *)

Interrupting == done \cap enabled

(* A channel may stall the IOP (StallIop): Tick then changes nothing. *)
Tick == burst = 0 /\ ~late

(* An interrupt also takes the IOP out of reset. *)
Interrupt ==
  /\ Tick /\ I /\ Interrupting # {}
  /\ inReset' = FALSE
  /\ I' = FALSE
  /\ Push(p, {})
  /\ p' = stack[0]
  /\ via' = "interrupt"
  /\ burst' = Burst
  /\ ran' = FALSE
  /\ stale' = (stale \/ iWait)
  /\ Watch(booted /\ PXS \in done /\ E = Depth - 1 /\ via # "exit")
  /\ UNCHANGED <<iWait, enabled, guestVars, want>>

StartBurst ==
  /\ Tick /\ ~(I /\ Interrupting # {})
  /\ ~inReset
  /\ burst' = Burst
  /\ UNCHANGED <<inReset, I, iWait, p, E, stack, done, enabled, guestVars, history>>

(* A peripheral becomes done between two Ticks. *)
DeviceDone(ch) ==
  /\ burst = 0 /\ ch \notin done
  /\ done' = done \cup {ch}
  /\ UNCHANGED <<burst, inReset, I, iWait, p, E, stack, enabled, guestVars, history>>

(* DeadStart, called for another IOP: MasterClear of the IOP and of every  *)
(* channel, then the buffer memory channel loads the boot image and is     *)
(* done.  InReset is left as it is.  A program that lost its stack is      *)
(* followed no further: only a dead start helps it.                        *)
DeadStart ==
  /\ burst = 0 \/ late
  /\ burst' = 0
  /\ p' = Zero /\ E' = 0 /\ stack' = Empty
  /\ I' = TRUE /\ iWait' = FALSE
  /\ done' = {MOS} /\ enabled' = Channels \ {PFR, PXS}
  /\ saved' = <<>> /\ booted' = FALSE
  /\ want' = Zero /\ via' = "jump" /\ ran' = TRUE
  /\ stale' = FALSE /\ unserved' = {} /\ late' = FALSE
  /\ UNCHANGED inReset

-----------------------------------------------------------------------------
(* Instructions: SingleStep().  A waiting "I = 1" takes effect after the   *)
(* first instruction that does not delay it; an instruction that does not  *)
(* break the burst leaves one instruction less.                            *)

Program == p >= 0
InHandler == p \in {Vector, Handler}
Fetch == burst > 0 /\ ~late

Settles == I' = (I \/ iWait) /\ iWait' = FALSE
Delays == UNCHANGED <<I, iWait>>
Breaks == burst' = 0
Continues == burst' = burst - 1

(* An instruction at the vector that an empty stack was popped into runs   *)
(* instead of the boundary interrupt.                                      *)
Missed == p = Vector /\ via = "exit"

Ran ==
  /\ ran' = (ran \/ p \notin {Vector, Handler, Leave})
  /\ stale' = (stale /\ ~ran')

Enter == p' = (IF InHandler THEN Handler ELSE p)

Stays ==
  /\ Fetch /\ p # Leave /\ Enter /\ Ran
  /\ late' = Missed
  /\ UNCHANGED <<inReset, E, stack, guestVars, want, via, unserved>>

(* Arithmetic, memory and register instructions. *)
Plain == Stays /\ Settles /\ Continues /\ UNCHANGED <<done, enabled>>

(* A branch that is not taken or stays in the routine. *)
Branch == Stays /\ Delays /\ Continues /\ UNCHANGED <<done, enabled>>

(* I = 0 *)
ClearI ==
  /\ Program /\ Stays /\ Continues
  /\ I' = FALSE /\ iWait' = FALSE
  /\ UNCHANGED <<done, enabled>>

(* I = 1; in the handler the next instruction is EXIT. *)
SetI ==
  /\ Fetch /\ Breaks /\ Ran
  /\ iWait' = TRUE
  /\ \/ Program /\ UNCHANGED p
     \/ InHandler /\ PXS \notin Interrupting /\ p' = Leave
  /\ late' = Missed
  /\ UNCHANGED <<inReset, I, E, stack, done, enabled, guestVars, want, via, unserved>>

(* Functions 0, 6 and 7 of a channel. *)
ClearDone(ch) ==
  /\ Stays /\ Delays /\ Breaks
  /\ done' = done \ {ch}
  /\ UNCHANGED enabled

SetEnable(ch, on) ==
  /\ Stays /\ Delays /\ Breaks
  /\ enabled' = IF on THEN enabled \cup {ch} ELSE enabled \ {ch}
  /\ UNCHANGED done

(* C = 1, iod = DN and its like look at a channel. *)
TestChannel == Stays /\ Delays /\ Breaks /\ UNCHANGED <<done, enabled>>

(* I/O on a channel that does not exist does not delay "I = 1". *)
NoChannel == Stays /\ Settles /\ Breaks /\ UNCHANGED <<done, enabled>>

(* P = dd, when dd is zero: the routine is not loaded.  The burst goes on. *)
(* That PFR is not done is the guest's doing, here and in Call.            *)
JumpZero ==
  /\ Fetch /\ Program /\ PFR \notin done
  /\ Delays /\ Continues /\ Ran
  /\ done' = done \cup {PFR}
  /\ p' = Zero /\ want' = p /\ via' = "jump"
  /\ UNCHANGED <<inReset, E, stack, enabled, guestVars, unserved, late>>

(* R = P + d, R = dd: a call; through a register that is zero it also      *)
(* requests the routine.                                                   *)
Call(loaded) ==
  /\ Fetch /\ Program /\ p < MaxDepth
  /\ Delays /\ Breaks /\ Ran
  /\ via' = "call"
  /\ IF loaded
     THEN Push(p, {}) /\ p' = p + 1 /\ UNCHANGED want
     ELSE PFR \notin done /\ Push(p, {PFR}) /\ p' = Zero /\ want' = p + 1
  /\ Watch(PXS \in done)
  /\ UNCHANGED <<inReset, enabled, guestVars>>

(* EXIT *)
ExitSettles == Settles
ExitDelays == Delays

Exit ==
  /\ Fetch /\ (p > 0 \/ p = Leave)
  /\ ExitDelays /\ Breaks /\ Ran
  /\ Pop
  /\ via' = "exit"
  /\ Watch(p > 0 /\ PXS \in done)
  /\ UNCHANGED <<inReset, enabled, guestVars, want>>

-----------------------------------------------------------------------------
(* The operating system of the IOP (not part of the simulator) *)

Slots(e) == [j \in 1 .. e |-> stack[j]]

(* The boot image points slot 0 at the handler, empties the stack, enables *)
(* the boundary and the program fetch interrupt and starts the program.    *)
Boot ==
  /\ Fetch /\ ~booted /\ p = Zero /\ ~I
  /\ E' = 0 /\ stack' = [stack EXCEPT ![0] = Vector]
  /\ done' = done \ {PXS, MOS} /\ enabled' = enabled \cup {PFR, PXS}
  /\ booted' = TRUE /\ p' = 0 /\ via' = "jump"
  /\ Delays /\ Breaks /\ Ran
  /\ UNCHANGED <<inReset, saved, want, unserved, late>>

(* The handler serves a boundary interrupt.  Full: all but the Keep newest *)
(* return addresses and its own go to memory.  Empty: up to Keep come      *)
(* back.                                                                   *)
ServeBoundary ==
  LET out == E - 1 - Keep
      in == IF Len(saved) < Keep THEN Len(saved) ELSE Keep
  IN /\ Fetch /\ InHandler /\ ~Missed /\ booted /\ PXS \in done
     /\ \/ /\ E > Keep /\ Len(saved) + out <= MaxSaved
           /\ saved' = saved \o SubSeq(Slots(E), 1, out)
           /\ stack' = [j \in 0 .. Depth - 1 |->
                          IF j \in 1 .. Keep + 1 THEN stack[j + out] ELSE stack[j]]
           /\ E' = Keep + 1
        \/ /\ E = 0
           /\ saved' = SubSeq(saved, 1, Len(saved) - in)
           /\ stack' = [j \in 0 .. Depth - 1 |->
                          IF j \in 1 .. in THEN saved[Len(saved) - in + j] ELSE stack[j]]
           /\ E' = in
     /\ done' = done \ {PXS} /\ unserved' = unserved \ {PXS}
     /\ p' = Handler
     /\ Delays /\ Breaks /\ Ran
     /\ UNCHANGED <<inReset, enabled, booted, want, via, late>>

(* The handler loads the requested routine and returns to it. *)
ServeFetch ==
  /\ Fetch /\ InHandler /\ ~Missed /\ booted /\ PFR \in done /\ stack[E] = Zero
  /\ stack' = [stack EXCEPT ![E] = want]
  /\ done' = done \ {PFR}
  /\ p' = Handler
  /\ Delays /\ Breaks /\ Ran
  /\ unserved' = unserved \ {PFR} /\ want' = Zero
  /\ UNCHANGED <<inReset, E, enabled, guestVars, via, late>>

-----------------------------------------------------------------------------
Instruction ==
  \/ Plain \/ Branch \/ ClearI \/ SetI \/ TestChannel \/ NoChannel
  \/ \E ch \in Devices : ClearDone(ch) \/ \E on \in BOOLEAN : SetEnable(ch, on)
  \/ JumpZero \/ \E loaded \in BOOLEAN : Call(loaded)
  \/ Exit

Guest == Boot \/ ServeBoundary \/ ServeFetch

Next ==
  \/ Interrupt \/ StartBurst \/ DeadStart
  \/ \E ch \in Devices : DeviceDone(ch)
  \/ Instruction \/ Guest

Spec == Init /\ [][Next]_vars

-----------------------------------------------------------------------------
(* Properties *)

(* The stack pointer stays in the stack and addresses in the program, at   *)
(* the wrap-around of the four-bit pointer too.                            *)
TypeOK ==
  /\ burst \in 0 .. Burst
  /\ inReset \in BOOLEAN /\ I \in BOOLEAN /\ iWait \in BOOLEAN
  /\ p \in Address
  /\ E \in 0 .. Depth - 1 /\ stack \in [0 .. Depth - 1 -> Address]
  /\ done \subseteq Channels /\ enabled \subseteq Channels
  /\ saved \in Seq(Address) /\ booted \in BOOLEAN
  /\ want \in Address /\ via \in {"jump", "call", "exit", "interrupt"}
  /\ ran \in BOOLEAN /\ stale \in BOOLEAN /\ unserved \subseteq Channels /\ late \in BOOLEAN

(* The exit stack and its extension in memory are the call stack of the    *)
(* program: as long as it was never used past a raised boundary flag, slot *)
(* 0 is the vector, below any frames of the interrupt handler lie the      *)
(* return addresses of the callers in order, and a routine that runs has   *)
(* as many frames as its depth, however calls, returns, interrupts and     *)
(* boundary services interleave.                                           *)
Frames == IF Missed THEN saved ELSE saved \o Slots(E)

CallStackExact ==
  booted /\ ~late =>
    /\ stack[0] = Vector
    /\ \A j \in 1 .. Len(Frames) : Frames[j] >= 0 =>
         Frames[j] = j - 1 /\ \A i \in 1 .. j : Frames[i] >= 0
    /\ Program => Len(Frames) = p

(* The interrupts an instruction asks for come in time.  The stack is used *)
(* past a raised boundary flag only if the flag rose while it could not    *)
(* interrupt, or if the handler itself was interrupted because of a stale  *)
(* "I = 1".  When a routine that is not loaded is called with interrupts   *)
(* and the program fetch request enabled, no instruction is executed at    *)
(* address 0: the call breaks the burst and the interrupt comes first.     *)
InterruptsInTime ==
  /\ late => PXS \in unserved \/ stale
  /\ p = Zero /\ via = "call" /\ burst > 0 => PFR \in unserved

(* A program that is interrupted again has run since its last interrupt,   *)
(* and the handler is not interrupted before its EXIT: "I = 1" is delayed  *)
(* past it.  The exception is an "I = 1" that was still waiting when the   *)
(* interrupt came; Tick does not cancel it.                                *)
InterruptsSpaced ==
  [][burst = 0 /\ I /\ ~I' => ran \/ stale]_vars
=============================================================================

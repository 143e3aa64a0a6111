------------------------------ MODULE Expander ------------------------------
(***************************************************************************)
(* The peripheral expander of the I/O processor (IopChannelExp_c) with its *)
(* clock, printer, disk and dummy devices (iop_expander.h/.cpp; the tape   *)
(* is module Tape).  The channel asks the devices for an interrupt only    *)
(* when one of them says that its state changed, and keeps the answer.     *)
(*                                                                         *)
(* A behaviour has a printer at address 2 and one more device: a clock at  *)
(* addresses 0 (responses) and 1 (requests), or a disk or dummy at 0.      *)
(* Left out: the text of clock requests and responses (a response is its   *)
(* number of characters), what is printed, and the sectors the disks move. *)
(*                                                                         *)
(* Guest assumption: a device is selected before it is used, register A of *)
(* the clock is written at the request address, and a CDC disk is started  *)
(* after its three parameters are given.                                   *)
(***************************************************************************)
EXTENDS Integers

CONSTANTS
  ResponseTimeout,  \* mResponseTimeout of the clock
  Lengths           \* the lengths a clock response can have

Kinds == {"clock", "ampex", "cdc", "dummy"}
Addresses == 0..2
ResponseChannel == 0
RequestChannel == 1
PrinterChannel == 2

VARIABLES
  kind,         \* the device at address 0
  done, intEnabled, devIntEnabled,  \* mDone, mInterruptEnabled, mDeviceInterruptEnabled
  pending,      \* mDeviceInterruptPending
  channel,      \* mActiveChannel, -1 when none is selected
  op,           \* mOperation: function 10 reads register A ("readA"), or not
  active,       \* mInterruptActive of the device at an address
  enabled,      \* mInterruptEnabled of the device at an address
  response,     \* clock: characters of mResponse not yet read
  timer,        \* clock: mResponseTimer
  regA,         \* mRegA of the device at 0: what a start does, see Start
  cdcState,     \* mState of a CDC disk
  command       \* mRegA of the printer

channelVars == <<done, intEnabled, devIntEnabled, channel, op>>
interruptVars == <<pending, active, enabled>>
deviceVars == <<response, timer, regA, cdcState, command>>
vars == <<kind, channelVars, interruptVars, deviceVars>>

Present == {0, PrinterChannel} \cup IF kind = "clock" THEN {RequestChannel} ELSE {}

(* What registers A and C tell a device to do when it is started: a clock  *)
(* takes a character, a disk command completes or is not implemented.      *)
Orders == [clock |-> {"char", "return"}, ampex |-> {"transfer", "seek"},
           cdc |-> {"transfer"}, dummy |-> {"none"}]

PrinterCommands == {"clear", "mode", "feed", "unknown"}

(* The constructors and MasterClear.  mDeviceInterruptEnabled is set by    *)
(* neither of them.                                                        *)
Init ==
  /\ kind \in Kinds
  /\ done = FALSE /\ intEnabled = TRUE /\ devIntEnabled \in BOOLEAN
  /\ pending = FALSE /\ channel = -1 /\ op = "other"
  /\ active = [a \in Addresses |-> FALSE] /\ enabled = [a \in Addresses |-> FALSE]
  /\ response = 0 /\ timer = 0 /\ cdcState = "seek"
  /\ regA \in Orders[kind] /\ command = "feed"

-----------------------------------------------------------------------------
(* IntStatusChanged: look for a device with an enabled, active interrupt. *)
IntStatusChanged(act, en) == pending' = (\E a \in Present : act[a] /\ en[a])

SetIntActive(a, b) ==
  /\ active' = [active EXCEPT ![a] = b]
  /\ IntStatusChanged(active', enabled)
  /\ UNCHANGED enabled

Selected(a) == channel = a /\ a \in Present

Completed == done' = TRUE /\ UNCHANGED <<intEnabled, devIntEnabled, channel, op>>

-----------------------------------------------------------------------------
(* IopChannelExp_c::DoIo *)

ClearChannel ==
  /\ done' = FALSE /\ intEnabled' = FALSE
  /\ UNCHANGED <<kind, devIntEnabled, channel, op, interruptVars, deviceVars>>

(* Functions 1 to 4. *)
SelectOperation(o) ==
  /\ channel # -1
  /\ op' = o /\ done' = TRUE
  /\ UNCHANGED <<kind, intEnabled, devIntEnabled, channel, interruptVars, deviceVars>>

SelectChannel(a) ==
  /\ channel' = a
  /\ UNCHANGED <<kind, done, intEnabled, devIntEnabled, op, interruptVars, deviceVars>>

(* Function 6: a bit disables the interrupt of the device it belongs to;   *)
(* bit 0 is of the device at 0, bit 1 of the printer.  Masks of all zeros  *)
(* and of all ones have the same effect in a branch of their own.          *)
SetInterruptMask(mask) ==
  /\ enabled' = [a \in Addresses |-> IF a = PrinterChannel THEN 1 \notin mask ELSE 0 \notin mask]
  /\ IntStatusChanged(active, enabled')
  /\ UNCHANGED <<kind, channelVars, active, deviceVars>>

(* Function 7. *)
EnableInterrupts(own, devices) ==
  /\ intEnabled' = own /\ devIntEnabled' = devices
  /\ UNCHANGED <<kind, done, channel, op, interruptVars, deviceVars>>

(* A mutation: the interrupt is set without telling the channel. *)
ReadResponseQuietly ==
  /\ op = "readA" /\ kind = "clock" /\ Selected(ResponseChannel)
  /\ response > 0
  /\ response' = response - 1
  /\ active' = [active EXCEPT ![ResponseChannel] = TRUE]
  /\ UNCHANGED <<kind, channelVars, pending, enabled, timer, regA, cdcState, command>>

(* Function 10: register A of the clock is the next response character;    *)
(* no other register has an effect when it is read.                        *)
ReadResponse ==
  /\ op = "readA" /\ kind = "clock" /\ Selected(ResponseChannel)
  /\ response > 0
  /\ response' = response - 1
  /\ SetIntActive(ResponseChannel, TRUE)
  /\ UNCHANGED <<kind, channelVars, timer, regA, cdcState, command>>

(* Function 14: the clock drops an active interrupt of the address. *)
SetRegA(o) ==
  /\ kind = "clock" => Selected(RequestChannel)
  /\ kind # "clock" => Selected(0)
  /\ o \in Orders[kind] /\ regA' = o
  /\ IF kind = "clock" THEN SetIntActive(channel, FALSE) ELSE UNCHANGED interruptVars
  /\ Completed
  /\ UNCHANGED <<kind, response, timer, cdcState, command>>

SetPrinterRegA(c) ==
  /\ Selected(PrinterChannel) /\ command' = c
  /\ Completed
  /\ UNCHANGED <<kind, interruptVars, response, timer, regA, cdcState>>

(* Function 16.  Register C of the printer prints the buffer at once; that *)
(* of the CDC disk gives a parameter, of which the second one selects the  *)
(* third.                                                                  *)
SetRegC ==
  /\ Selected(channel) /\ (channel = PrinterChannel \/ kind \in {"cdc", "ampex"})
  /\ IF channel = PrinterChannel THEN SetIntActive(channel, TRUE) ELSE UNCHANGED interruptVars
  /\ cdcState' = IF channel = 0 /\ cdcState = "high" THEN "low" ELSE cdcState
  /\ Completed
  /\ UNCHANGED <<kind, response, timer, regA, command>>

-----------------------------------------------------------------------------
(* Function 17, the Control methods of the devices.  A parcel holds any of *)
(* the bits clear, pulse and start, which the code handles in this order:  *)
(* it is the same as a function for every bit.                             *)

(* CLEAR of the clock: a response that is not read to its end is announced *)
(* again later.                                                            *)
ClearClock ==
  /\ kind = "clock" /\ channel \in {ResponseChannel, RequestChannel}
  /\ SetIntActive(channel, FALSE)
  /\ timer' = IF channel = ResponseChannel /\ response > 0 THEN 1 ELSE timer
  /\ Completed
  /\ UNCHANGED <<kind, response, regA, cdcState, command>>

ClearDevice ==
  /\ Selected(channel) /\ (channel = PrinterChannel \/ kind # "clock")
  /\ SetIntActive(channel, FALSE)
  /\ cdcState' = IF channel = 0 THEN "seek" ELSE cdcState
  /\ Completed
  /\ UNCHANGED <<kind, response, timer, regA, command>>

(* START of the clock: the last character of a request makes the response. *)
StartClock ==
  /\ kind = "clock" /\ channel \in {ResponseChannel, RequestChannel}
  /\ IF regA = "return" THEN response' \in Lengths /\ timer' = 1
                        ELSE UNCHANGED <<response, timer>>
  /\ SetIntActive(channel, TRUE)
  /\ Completed
  /\ UNCHANGED <<kind, regA, cdcState, command>>

(* START of a disk: a transfer completes in the call; seek, drive select   *)
(* and correction of the Ampex disk do nothing, not even interrupt.        *)
StartDisk ==
  /\ kind \in {"ampex", "cdc"} /\ channel = 0
  /\ kind = "cdc" => cdcState = "low"
  /\ cdcState' = "seek"
  /\ IF regA = "transfer" THEN SetIntActive(0, TRUE) ELSE UNCHANGED interruptVars
  /\ Completed
  /\ UNCHANGED <<kind, response, timer, regA, command>>

(* PULSE of the CDC disk. *)
PulseDisk ==
  /\ kind = "cdc" /\ channel = 0
  /\ cdcState' = "high"
  /\ Completed
  /\ UNCHANGED <<kind, interruptVars, response, timer, regA, command>>

(* PULSE of the printer. *)
PulsePrinter ==
  /\ channel = PrinterChannel
  /\ CASE command = "clear" -> SetIntActive(channel, FALSE)
       [] command = "feed" -> SetIntActive(channel, TRUE)
       [] OTHER -> UNCHANGED interruptVars
  /\ Completed
  /\ UNCHANGED <<kind, deviceVars>>

(* Functions 14 to 17 that only store or log something: register B, START  *)
(* and PULSE of most devices, and everything sent to a missing device.     *)
NoEffect ==
  /\ channel # -1
  /\ Completed
  /\ UNCHANGED <<kind, interruptVars, deviceVars>>

-----------------------------------------------------------------------------
(* IopChannelExp_c::Tick: only the clock needs it. *)
Tick ==
  /\ timer > 0
  /\ IF timer + 1 > ResponseTimeout
     THEN timer' = 0 /\ SetIntActive(ResponseChannel, TRUE)
     ELSE timer' = timer + 1 /\ UNCHANGED interruptVars
  /\ UNCHANGED <<kind, channelVars, response, regA, cdcState, command>>

(* MasterClear, which does not reach the devices. *)
MasterClear ==
  /\ done' = FALSE /\ intEnabled' = TRUE /\ channel' = -1 /\ op' = "other"
  /\ UNCHANGED <<kind, devIntEnabled, interruptVars, deviceVars>>

Next ==
  \/ ClearChannel
  \/ \E o \in {"readA", "other"} : SelectOperation(o)
  \/ \E a \in Addresses : SelectChannel(a)
  \/ \E mask \in SUBSET {0, 1} : SetInterruptMask(mask)
  \/ \E own, devices \in BOOLEAN : EnableInterrupts(own, devices)
  \/ ReadResponse
  \/ \E o \in Orders[kind] : SetRegA(o)
  \/ \E c \in PrinterCommands : SetPrinterRegA(c)
  \/ SetRegC
  \/ ClearClock
  \/ ClearDevice
  \/ StartClock
  \/ StartDisk
  \/ PulseDisk
  \/ PulsePrinter
  \/ NoEffect
  \/ Tick
  \/ MasterClear

Spec == Init /\ [][Next]_vars

-----------------------------------------------------------------------------
(* Properties *)

(* The channel's remembered answer is right whatever order devices are     *)
(* started, cleared, masked and ticked in: it says "pending" exactly when  *)
(* some device has an interrupt that is both active and enabled, so        *)
(* GetInterrupt neither misses nor invents one (iop_expander.cpp:1412).    *)
(* And a clock response that is not fully read is announced: its interrupt *)
(* is active, or the timer that sets it runs (iop_expander.cpp:670).       *)
InterruptsAnnounced ==
  /\ pending <=> \E a \in Present : active[a] /\ enabled[a]
  /\ response > 0 => active[ResponseChannel] \/ timer > 0
=============================================================================

-------------------------------- MODULE Bmx --------------------------------
(***************************************************************************)
(* A block multiplexer channel of an IOP (IopChannelBmx_c) with a tape     *)
(* drive (IopBmxTape_c).  The image file of the tape is that of module     *)
(* Tape; here are the functions of the channel and the commands of the     *)
(* drive, which move the head by records and by whole files.               *)
(*                                                                         *)
(* Bytes and their addresses in the IOP's memory, the interrupt enable and *)
(* the interrupt lines of a device, which the tape never raises, and the   *)
(* copies of the entered byte count and device address that the next read  *)
(* returns are left out, and with them functions 6, 7, 10 to 13 and 17,    *)
(* which change nothing else.                                              *)
(*                                                                         *)
(* Guest assumptions: a device is addressed before it is used (the code    *)
(* indexes mDevices with -1 otherwise); no write to a read-only drive.     *)
(***************************************************************************)
EXTENDS Integers, Sequences

CONSTANTS
  Images, MaxSize, MaxItems, MaxFile,  \* as in module Tape
  SenseSize,   \* length of the sense data, 6 bytes in the code
  DelayLimit   \* mDelayLimit

VARIABLES
  head, isOpen, written,  \* the tape image, as in module Tape
  busy, done,  \* mBusy, mDone
  counter,     \* mByteCounter
  loading,     \* mLoadByteCounter
  device,      \* mActiveDevice: "none", "tape" or "absent"
  status,      \* of mDeviceStatus the bits UnitException and UnitCheck; the others
               \* are the same whatever a command meets
  delay,       \* mDelayCounter
  failed,      \* an assertion has failed
  hung         \* a loop does not end

regs == <<busy, done, counter, loading, device, status, delay>>
tape == <<head, isOpen, written>>
vars == <<tape, regs, failed, hung>>

T == INSTANCE Tape
  WITH count <- 0, status <- "none", int <- FALSE, ended <- FALSE

Init ==
  /\ \E items \in Images :
       \/ head = T!NewTape(items, TRUE, FALSE) /\ isOpen = TRUE
       \/ head = T!NewTape(<<>>, FALSE, FALSE) /\ isOpen = FALSE
  /\ written = FALSE
  /\ busy = FALSE /\ done = FALSE
  /\ counter = 0 /\ loading = FALSE
  /\ device = "none" /\ status = {} /\ delay = 0
  /\ failed = FALSE /\ hung = FALSE

(* MasterClear of the channel; the drive does not notice. *)
MasterClear ==
  /\ busy' = FALSE /\ done' = FALSE
  /\ counter' = 0 /\ loading' = FALSE
  /\ device' = "none" /\ status' = {} /\ delay' = 0
  /\ UNCHANGED <<tape, failed, hung>>

-----------------------------------------------------------------------------
(* DoIo: the functions that do not reach a device *)

Idle == UNCHANGED <<tape, failed, hung>>

(* Function 0.  The delay counter goes on. *)
ClearChannel ==
  /\ busy' = FALSE /\ done' = FALSE
  /\ UNCHANGED <<counter, loading, device, status, delay>> /\ Idle

(* Function 1: clear the output tags or reset a device or all of them.     *)
(* Reset does nothing to a tape.                                           *)
ResetDevices ==
  /\ done' = TRUE /\ busy' = FALSE
  /\ UNCHANGED <<counter, loading, device, status, delay>> /\ Idle

(* Function 1: interface disconnect. *)
InterfaceDisconnect ==
  /\ device # "none" /\ failed' = (device = "absent")
  /\ IF device = "tape" THEN done' = TRUE /\ busy' = FALSE ELSE UNCHANGED <<done, busy>>
  /\ UNCHANGED <<counter, loading, device, status, delay, tape, hung>>

(* Function 3.  No device requests service. *)
ReadRequestIn ==
  /\ done' = TRUE /\ busy' = TRUE
  /\ UNCHANGED <<counter, loading, device, status, delay>> /\ Idle

(* Function 4 is an assertion that fails. *)
AsynchronousIo == failed' = TRUE /\ UNCHANGED <<tape, regs, hung>>

(* Function 5 *)
DelayDiagnostics ==
  /\ delay' = DelayLimit /\ done' = FALSE /\ busy' = TRUE
  /\ UNCHANGED <<counter, loading, device, status>> /\ Idle

(* Function 14: the next byte count belongs to this address. *)
EnterLocalMemoryAddress ==
  /\ loading' = TRUE
  /\ UNCHANGED <<busy, done, counter, device, status, delay>> /\ Idle

(* Function 15.  mNextByteCounter is never used. *)
EnterByteCount(n) ==
  /\ counter' = IF loading THEN n ELSE counter
  /\ loading' = FALSE
  /\ UNCHANGED <<busy, done, device, status, delay>> /\ Idle

(* Function 16 *)
EnterDeviceAddress(d) ==
  /\ device' = d
  /\ UNCHANGED <<busy, done, counter, loading, status, delay>> /\ Idle

(* Tick: the delay counter. *)
Tick ==
  /\ delay > 0 /\ delay' = delay - 1
  /\ IF delay = 1 THEN done' = TRUE /\ busy' = FALSE ELSE UNCHANGED <<done, busy>>
  /\ UNCHANGED <<counter, loading, device, status>> /\ Idle

-----------------------------------------------------------------------------
(* Function 2: a command to the tape drive.  A command to an address       *)
(* without a device fails an assertion.                                    *)

(* The command ends with these bits, and with n bytes left to move. *)
Ends(bits, n) ==
  /\ status' = bits /\ counter' = n
  /\ done' = TRUE /\ busy' = FALSE
  /\ UNCHANGED <<loading, device, delay, failed, hung>>

Fails == failed' = TRUE /\ UNCHANGED <<tape, regs, hung>>
Hangs == hung' = TRUE /\ UNCHANGED <<tape, regs, failed>>

NoDevice == device = "absent" /\ Fails

(* The image is opened again after a rewind; one that does not exist stays *)
(* closed.                                                                 *)
ReOpened == isOpen' = head.exists

Bits(exception, check) ==
  (IF exception THEN {"exception"} ELSE {}) \cup (IF check THEN {"check"} ELSE {})

TestIo == device = "tape" /\ Ends({}, counter) /\ UNCHANGED tape

(* Read: the assertions ask for a byte count, unless there is no tape. *)
ReadRecord ==
  /\ device = "tape"
  /\ IF counter = 0 /\ head.exists THEN Fails
     ELSE /\ head' = T!PokedRead(head, counter)
          /\ ReOpened /\ UNCHANGED written
          /\ LET s == T!State(head', TRUE)
             IN  Ends(Bits(s = "file", s = "end"),
                      counter - T!WordsRead(head, counter))

(* Sense *)
Sense ==
  /\ device = "tape"
  /\ IF counter < SenseSize THEN Fails
     ELSE Ends({}, counter - SenseSize) /\ UNCHANGED tape

(* Read backward, and command 8, are assertions that fail. *)
ReadBackward == device = "tape" /\ Fails

(* Write: a record of as many bytes as the counter says.  The head is then *)
(* behind a record and never behind a mark.                                *)
WriteRecord ==
  /\ device = "tape"
  /\ IF counter = 0 THEN Fails
     ELSE /\ head.pos < MaxItems
          /\ head' = T!WriteRecordInternal(head, counter)
          /\ isOpen' = TRUE /\ written' = TRUE
          /\ Ends({}, 0)

(* Control commands take all the bytes of the counter and ignore them.     *)
(* This one is also Erase Gap.                                             *)
ModeSetting == device = "tape" /\ Ends({}, 0) /\ UNCHANGED tape

(* Rewind; with unload the closed file is taken for the beginning of a     *)
(* tape, which is reported as a unit check.                                *)
Rewind ==
  /\ device = "tape"
  /\ head' = T!PokedRewind(head) /\ isOpen' = FALSE
  /\ \E unload \in BOOLEAN : Ends(Bits(FALSE, unload), 0)
  /\ UNCHANGED written

WriteTapeMark ==
  /\ device = "tape" /\ head.pos < MaxItems
  /\ head' = [T!WriteRecordInternal(head, 0) EXCEPT !.file = @ + 1]
  /\ isOpen' = TRUE /\ written' = TRUE
  /\ Ends({}, 0)

BackspaceBlock ==
  /\ device = "tape"
  /\ IF ~T!PrevAsserts(head) THEN Fails
     ELSE \E junk \in 0..1 :
            /\ head' = T!PokedPrev(head, junk)
            /\ ReOpened /\ UNCHANGED written
            /\ LET s == T!State(head', FALSE)
               IN  Ends(Bits(s = "file", s = "begin"), 0)

ForwardSpaceBlock ==
  /\ device = "tape"
  /\ head' = T!PokedNext(head)
  /\ ReOpened /\ UNCHANGED written
  /\ LET s == T!State(head', TRUE)
     IN  Ends(Bits(s = "file", s = "end"), 0)

(* More steps than a loop over the tape can take before it repeats a       *)
(* position.                                                               *)
Steps == Len(head.items) + 2

(* A mutation: the mark is looked for before the first step. *)
BackspaceFileTestsFirst ==
  /\ device = "tape"
  /\ \E junk \in 0..1 :
       LET back[k \in 0..Steps] ==
             IF k = 0 THEN [h |-> head, ok |-> TRUE]
             ELSE LET b == back[k - 1]
                  IN  IF T!State(b.h, FALSE) = "file" \/ ~b.ok THEN b
                      ELSE IF ~T!PrevAsserts(b.h) THEN [b EXCEPT !.ok = FALSE]
                      ELSE [h |-> T!PokedPrev(b.h, junk), ok |-> TRUE]
           last == back[Steps]
       IN  IF ~last.ok THEN Fails
           ELSE IF T!State(last.h, FALSE) # "file" THEN Hangs
           ELSE head' = last.h /\ ReOpened /\ UNCHANGED written /\ Ends({}, 0)

(* Back to the front of the last mark.  The beginning of the tape does not *)
(* end the loop, and hides a mark that is the first thing on the tape.     *)
BackspaceFile ==
  /\ device = "tape"
  /\ \E junk \in 0..1 :
       LET back[k \in 0..Steps] ==
             IF k = 0 THEN [h |-> head, ok |-> TRUE, stop |-> FALSE]
             ELSE LET b == back[k - 1]
                      prev == T!PokedPrev(b.h, junk)
                  IN  IF b.stop \/ ~b.ok THEN b
                      ELSE IF ~T!PrevAsserts(b.h) THEN [b EXCEPT !.ok = FALSE]
                      ELSE [h |-> prev, ok |-> TRUE, stop |-> T!State(prev, FALSE) = "file"]
           last == back[Steps]
       IN  IF ~last.ok THEN Fails
           ELSE IF ~last.stop THEN Hangs
           ELSE head' = last.h /\ ReOpened /\ UNCHANGED written /\ Ends({}, 0)

(* Forward to the back of the next mark, or to the end of the tape. *)
ForwardSpaceFile ==
  /\ device = "tape"
  /\ LET forth[k \in 0..Steps] ==
           IF k = 0 THEN [h |-> head, stop |-> FALSE]
           ELSE LET f == forth[k - 1]
                    next == T!PokedNext(f.h)
                IN  IF f.stop THEN f
                    ELSE [h |-> next, stop |-> T!State(next, TRUE) \in {"file", "end"}]
     IN  /\ head' = forth[Steps].h
         /\ ReOpened /\ UNCHANGED written
         /\ Ends(Bits(FALSE, T!State(forth[Steps].h, TRUE) = "end"), 0)

(* The mount command of the operator, refused while the file is open. *)
MountTape(items) ==
  /\ ~isOpen
  /\ \E there \in {TRUE, items # <<>>} : head' = T!NewTape(items, there, head.mark)
  /\ written' = FALSE
  /\ UNCHANGED <<isOpen, regs, failed, hung>>

Channel ==
  \/ ClearChannel \/ ResetDevices \/ InterfaceDisconnect \/ ReadRequestIn \/ AsynchronousIo
  \/ DelayDiagnostics
  \/ EnterLocalMemoryAddress \/ Tick \/ MasterClear
  \/ \E n \in 0..MaxSize : EnterByteCount(n)
  \/ \E d \in {"tape", "absent"} : EnterDeviceAddress(d)

Command ==
  \/ NoDevice \/ TestIo \/ ReadRecord \/ Sense \/ ReadBackward \/ WriteRecord \/ ModeSetting
  \/ Rewind \/ WriteTapeMark \/ BackspaceBlock \/ ForwardSpaceBlock
  \/ BackspaceFile \/ ForwardSpaceFile

Next ==
  /\ ~failed /\ ~hung /\ head.file < MaxFile
  /\ Channel \/ Command \/ \E items \in Images : MountTape(items)

Spec == Init /\ [][Next]_vars

-----------------------------------------------------------------------------
(* Properties *)

(* The two flags of the head describe what is on the tape there, also for  *)
(* the commands of this drive (see module Tape).                           *)
MarkFlagsExact == T!MarkFlagsExact

(* The marks on the tape that are behind the head. *)
Marks(h) == T!MarksBefore(h.items, h.pos)

(* Spacing by a file passes one mark and stops next to it, whether it      *)
(* starts in a record, between records, in front of a mark, behind one or  *)
(* at the end, although the loops see only the flags the last step left;   *)
(* forward spacing that passes none stops at the end and says so.          *)
SpacesOneFile ==
  [][/\ ~failed' /\ ~hung' /\ BackspaceFile =>
          Marks(head') = Marks(head) - 1 /\ head'.items[head'.pos + 1] = 0
     /\ ForwardSpaceFile =>
          IF "check" \in status'
          THEN Marks(head') = Marks(head) /\ head'.pos = Len(head.items)
          ELSE Marks(head') = Marks(head) + 1 /\ head'.items[head'.pos] = 0]_vars
=============================================================================

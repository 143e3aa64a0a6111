------------------------------ MODULE IopDisk ------------------------------
(***************************************************************************)
(* A DD-29 disk drive on a channel of the I/O processor: IopDiskDD29_c     *)
(* (iop_disk.h/.cpp).  Function 1 selects a mode or a register, functions  *)
(* 4 and 5 position the drive, functions 2 and 3 move a sector between the *)
(* image file and IOP memory.  A command is executed inside DoIo, so the   *)
(* channel is never seen busy.  After master clear the drive is in buffer  *)
(* echo mode until the first function 1: data then goes to and comes from  *)
(* a buffer in the channel instead of the disk.                            *)
(*                                                                         *)
(* A sector is one value: what the n-th command that changes one finds in  *)
(* IOP memory is n, and a formatted sector is 0.  The status register and  *)
(* the interrupt enable (functions 6 and 7), which no step depends on, are *)
(* left out, and so are addresses of IOP memory but for one thing:         *)
(* function 1 leaves its own operand in the address register, so that the  *)
(* IOP has to enter the address (function 14) after it.                    *)
(*                                                                         *)
(* Guest assumptions: the IOP names cylinders, heads and sectors of the    *)
(* drive, writes to no read-only drive, enters an address before it moves  *)
(* data, and uses nothing the code asserts not to be used: mode 04 of      *)
(* function 1 (select cylinder margin) and the special modes of function 2 *)
(* in the bits above the sector number.                                    *)
(***************************************************************************)
EXTENDS Integers

CONSTANTS
  Tracks, Heads, Sectors,  \* mNumTracks, mNumHeads, mNumSectors
  MaxChange                \* bound on the writes and formats of a behaviour

VARIABLES
  image,      \* the image file, by sector number
  track, head, sector,  \* mCurrentTrack, mCurrentHead, mCurrentSector
  mounted,    \* mMounted
  echo,       \* mBufferEchoMode
  buffer,     \* mBufferAB
  entered,    \* mIoMemoryAddr is what the IOP entered
  done,       \* mDone
  failed,     \* a CRAY_ASSERT failed
  last,       \* history: what was last written to each sector of the drive
  fetched,    \* history: the sector the last command read, and what it got
  changes     \* number of writes and formats so far

position == <<track, head, sector>>
history == <<last, fetched, changes>>
vars == <<image, position, mounted, echo, buffer, entered, done, failed, history>>

Address == (0 .. Tracks - 1) \X (0 .. Heads - 1) \X (0 .. Sectors - 1)
Any == -1           \* nothing is known of a sector
Garbage == -2       \* mBufferAB before the first write
Nothing == [at |-> <<0, 0, 0>>, got |-> Any]

(* The place of a sector in the image. *)
OffsetByHeads(t, h, s) == t * Heads * Sectors + h * Heads + s
Offset(t, h, s) == t * Heads * Sectors + h * Sectors + s

(* Formatting numbers the sectors of a cylinder the other way round. *)
FormatOffset(t, h, s) == t * Heads * Sectors + s * Heads + h

(* Master clear, at construction and later; the image stays. *)
MasterClearTo(done1, mounted1, echo1) ==
  done1 = FALSE /\ mounted1 = FALSE /\ echo1 = TRUE

Init ==
  /\ image = [n \in 0 .. Tracks * Heads * Sectors - 1 |-> 0]
  /\ track = 0 /\ head = 0 /\ sector = 0
  /\ MasterClearTo(done, mounted, echo)
  /\ buffer = Garbage /\ entered = FALSE
  /\ failed = FALSE
  /\ last = [a \in Address |-> Any] /\ fetched = Nothing /\ changes = 0

MasterClear ==
  /\ MasterClearTo(done', mounted', echo')
  /\ track' = 0 /\ head' = 0 /\ sector' = 0
  /\ entered' = FALSE
  /\ UNCHANGED <<image, buffer, failed, history>>

-----------------------------------------------------------------------------
(* DoIo *)

(* Function 0 *)
ClearChannel ==
  /\ done' = FALSE
  /\ UNCHANGED <<image, position, mounted, echo, buffer, entered, failed, history>>

(* Function 1.  Every mode ends echo mode and overwrites the address; an   *)
(* unknown one does nothing else.  Mode 04 is not used.                    *)
SelectMode ==
  /\ echo' = FALSE /\ entered' = FALSE
  /\ UNCHANGED <<image, sector, buffer, failed, history>>

ReleaseUnit ==
  SelectMode /\ mounted' = FALSE /\ done' = TRUE /\ UNCHANGED <<track, head>>
ReserveUnit ==
  SelectMode /\ mounted' = TRUE /\ head' = 0 /\ done' = TRUE /\ UNCHANGED <<track>>
ReturnToZero ==
  SelectMode /\ track' = 0 /\ done' = TRUE /\ UNCHANGED <<head, mounted>>

(* The modes that load the status register, or clear the faults no drive   *)
(* has.                                                                    *)
ReadRegister == SelectMode /\ done' = TRUE /\ UNCHANGED <<track, head, mounted>>

NoMode == SelectMode /\ UNCHANGED <<track, head, mounted, done>>

(* Functions 4, 5: selecting a head reserves the unit. *)
SelectHead(h) ==
  /\ mounted' = TRUE /\ head' = h
  /\ UNCHANGED <<image, track, sector, echo, buffer, entered, done, failed, history>>
SelectCylinder(t) ==
  /\ track' = t /\ done' = TRUE
  /\ UNCHANGED <<image, head, sector, mounted, echo, buffer, entered, failed, history>>

(* Function 14 *)
EnterAddress ==
  /\ entered' = TRUE
  /\ UNCHANGED <<image, position, mounted, echo, buffer, done, failed, history>>

(* Functions 2, 3 on a unit that is neither reserved nor in echo mode. *)
Refuse(s) ==
  /\ ~(mounted \/ echo) /\ failed' = TRUE
  /\ UNCHANGED <<image, position, mounted, echo, buffer, entered, done, history>>

Moves(s) == (mounted \/ echo) /\ entered /\ sector' = s /\ done' = TRUE
Stays == UNCHANGED <<track, head, mounted, echo, entered, failed>>

(* Function 2: ExecOperation with Operation_Read. *)
ReadSector(s) ==
  LET at == <<track, head, s>>
  IN /\ Moves(s)
     /\ fetched' = IF echo THEN Nothing
                   ELSE [at |-> at, got |-> image[Offset(track, head, s)]]
     /\ UNCHANGED <<image, buffer, last, changes>> /\ Stays

(* Function 3 without and with format bits: Operation_Write, _Format. *)
Change(s) ==
  /\ changes < MaxChange /\ changes' = changes + 1
  /\ fetched' = Nothing /\ Moves(s) /\ Stays

WriteSector(s) ==
  /\ Change(s)
  /\ \/ echo /\ buffer' = changes' /\ UNCHANGED <<image, last>>
     \/ /\ ~echo
        /\ image' = [image EXCEPT ![Offset(track, head, s)] = changes']
        /\ last' = [last EXCEPT ![<<track, head, s>>] = changes']
        /\ UNCHANGED buffer

(* What the formatted cylinder holds afterwards is not promised: the       *)
(* sector that is erased is not always the one that was addressed.         *)
FormatSector(s) ==
  /\ Change(s)
  /\ \/ echo /\ buffer' = changes' /\ UNCHANGED <<image, last>>
     \/ /\ ~echo
        /\ image' = [image EXCEPT ![FormatOffset(track, head, s)] = 0]
        /\ last' = [a \in Address |-> IF a[1] = track THEN Any ELSE last[a]]
        /\ UNCHANGED buffer

DoIo ==
  \/ ClearChannel \/ ReleaseUnit \/ ReserveUnit \/ ReturnToZero \/ ReadRegister \/ NoMode
  \/ \E h \in 0 .. Heads - 1 : SelectHead(h)
  \/ \E t \in 0 .. Tracks - 1 : SelectCylinder(t)
  \/ EnterAddress
  \/ \E s \in 0 .. Sectors - 1 :
       Refuse(s) \/ ReadSector(s) \/ WriteSector(s) \/ FormatSector(s)

Next ==
  \/ ~failed /\ DoIo
  \/ ~failed /\ MasterClear

Spec == Init /\ [][Next]_vars

-----------------------------------------------------------------------------
(* A sector reads back as it was last written, whatever was read, written, *)
(* positioned, released or cleared since, unless its cylinder was          *)
(* formatted: no two addresses share a place in the image, and a format    *)
(* stays in its cylinder.                                                  *)
DiskReadsBack == last[fetched.at] \in {Any, fetched.got} \/ fetched = Nothing
=============================================================================

--------------------------- MODULE IopPeripherals ---------------------------
(***************************************************************************)
(* The channels and peripherals of an I/O processor, which share no state  *)
(* with it or with each other beyond a done flag.  A behaviour exercises   *)
(* one part, and the others stay as they were built.  The names of Console *)
(* and IopLink are used as they are.                                       *)
(***************************************************************************)
EXTENDS Console, IopLink

CONSTANTS
  Tracks, Heads, Sectors, MaxChange,        \* IopDisk
  TapeImages, MaxSize, MaxItems, MaxFile,   \* Tape
  BmxImages, BmxItems, BmxFile, SenseSize, DelayLimit,  \* Bmx, with MaxSize
  ResponseTimeout, Lengths,                 \* Expander
  LcpWords, SegWords, MaxSegs, MaxMsgs, MaxCalls, MaxResets  \* Concentrator

VARIABLES
  part,  \* the part this behaviour exercises
  image, track, diskHead, sector, mounted, echo, buffer, entered, diskDone,
  diskFailed, last, fetched, changes,
  tapeHead, isOpen, count, status, int, written, ended, tapeFailed,
  bmxHead, bmxOpen, bmxWritten, bmxBusy, bmxDone, counter, loading, device, bmxStatus,
  delay, bmxFailed, hung,
  kind, expDone, intEnabled, devIntEnabled, pending, channel, op, active,
  expEnabled, response, timer, regA, cdcState, command,
  concConn, knock, stream, acceptors, failing, rbuf, rcv, subsegs, segSize, xmt, fromCray,
  input, output, concGuest, garbled, packages, got, current, down, msgs, calls, resets

diskVars == <<image, track, diskHead, sector, mounted, echo, buffer, entered, diskDone,
              diskFailed, last, fetched, changes>>
tapeVars == <<tapeHead, isOpen, count, status, int, written, ended, tapeFailed>>
bmxVars == <<bmxHead, bmxOpen, bmxWritten, bmxBusy, bmxDone, counter, loading, device,
             bmxStatus, delay, bmxFailed, hung>>
expVars == <<kind, expDone, intEnabled, devIntEnabled, pending, channel, op, active,
             expEnabled, response, timer, regA, cdcState, command>>
concVars == <<concConn, knock, stream, acceptors, failing, rbuf, rcv, subsegs, segSize, xmt,
              fromCray, input, output, concGuest, garbled, packages, got, current, down, msgs,
              calls, resets>>

Disk == INSTANCE IopDisk WITH head <- diskHead, done <- diskDone, failed <- diskFailed
Mt == INSTANCE Tape WITH head <- tapeHead, failed <- tapeFailed, Images <- TapeImages
Bm == INSTANCE Bmx
  WITH head <- bmxHead, isOpen <- bmxOpen, written <- bmxWritten, busy <- bmxBusy,
       done <- bmxDone, status <- bmxStatus, failed <- bmxFailed,
       Images <- BmxImages, MaxItems <- BmxItems, MaxFile <- BmxFile
Exp == INSTANCE Expander WITH done <- expDone, enabled <- expEnabled
Conc == INSTANCE Concentrator WITH conn <- concConn, guest <- concGuest

Parts == {"console", "disk", "link", "tape", "bmx", "expander", "concentrator"}

(* A part that is not exercised starts in one of its initial states. *)
IopInit ==
  /\ part \in Parts
  /\ Init /\ Disk!Init /\ LinkInit /\ Mt!Init /\ Bm!Init /\ Exp!Init /\ Conc!Init
  /\ part # "tape" => ~isOpen /\ ~tapeHead.mark
  /\ part # "bmx" => ~bmxOpen
  /\ part # "expander" => kind = "dummy" /\ ~devIntEnabled

IopNext ==
  \/ /\ part = "console" /\ Next
     /\ UNCHANGED <<part, diskVars, linkVars, tapeVars, bmxVars, expVars, concVars>>
  \/ /\ part = "disk" /\ Disk!Next
     /\ UNCHANGED <<part, vars, linkVars, tapeVars, bmxVars, expVars, concVars>>
  \/ /\ part = "link" /\ LinkNext
     /\ UNCHANGED <<part, vars, diskVars, tapeVars, bmxVars, expVars, concVars>>
  \/ /\ part = "tape" /\ Mt!Next
     /\ UNCHANGED <<part, vars, diskVars, linkVars, bmxVars, expVars, concVars>>
  \/ /\ part = "bmx" /\ Bm!Next
     /\ UNCHANGED <<part, vars, diskVars, linkVars, tapeVars, expVars, concVars>>
  \/ /\ part = "expander" /\ Exp!Next
     /\ UNCHANGED <<part, vars, diskVars, linkVars, tapeVars, bmxVars, concVars>>
  \/ /\ part = "concentrator" /\ Conc!Next
     /\ UNCHANGED <<part, vars, diskVars, linkVars, tapeVars, bmxVars, expVars>>

IopSpec ==
  IopInit /\ [][IopNext]_<<part, vars, diskVars, linkVars, tapeVars, bmxVars,
                            expVars, concVars>>

(* IopDisk: a sector reads back as it was last written. *)
DiskReadsBack == part = "disk" => Disk!DiskReadsBack

(* Tape: the flags of the head describe what is on the tape there, ... *)
MarkFlagsExact ==
  /\ part = "tape" => Mt!MarkFlagsExact
  /\ part = "bmx" => Bm!MarkFlagsExact
(* ... and patches are applied where the configuration says. *)
PokeOffsetExact == part = "tape" => Mt!PokeOffsetExact

(* Bmx: spacing by a file passes one mark and stops next to it. *)
SpacesOneFile == Bm!SpacesOneFile

(* Expander: the remembered interrupt is that of the devices, and the rest *)
(* of a clock response stays announced.                                    *)
InterruptsAnnounced == part = "expander" => Exp!InterruptsAnnounced

(* Concentrator: a transfer of the IOP gets one package of the station, ... *)
PduPerTransfer == part = "concentrator" => Conc!PduPerTransfer
(* ... and the station can tell the packages of the reply apart. *)
DownlineFramed == part = "concentrator" => Conc!DownlineFramed
=============================================================================

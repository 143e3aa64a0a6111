-------------------------------- MODULE Tape --------------------------------
(***************************************************************************)
(* The tape drive of the peripheral expander (IopExpTape_c) and the image  *)
(* file behind it: TapFile_c, which moves over records and end-of-file     *)
(* marks, and PokedTapFile_c, which keeps the index of the file the head   *)
(* is in and the offset in it, to find the bytes it has to patch.          *)
(*                                                                         *)
(* A tape is the sequence of the sizes of its records, 0 for a mark.  The  *)
(* head is after pos of them, or, in an open record, `into' words further. *)
(* The data, the busy and done flags and the DMA addresses are left out;   *)
(* interrupts to the IOP are the subject of module Expander.               *)
(*                                                                         *)
(* Guest assumption: no write to a read-only drive, no erase command.      *)
(***************************************************************************)
EXTENDS Integers, Sequences, FiniteSets

CONSTANTS
  Images,    \* the tapes the operator has, each a sequence of record sizes
  MaxSize,   \* bound on the words of a transfer and on the records of a skip
  MaxItems,  \* bound on the records and marks of a tape that is written
  MaxFile    \* bound on mCurFileIdx, which grows with every read at the end

VARIABLES
  head,    \* the members of PokedTapFile_c, see NewTape
  isOpen,  \* the file stream is open
  count,   \* -mRegC: what is left of the transfer or skip
  status,  \* mRegAStat: "none", "ready" or "error"
  int,     \* mInterruptActive
  written, \* the tape was written since it was mounted
  ended,   \* the end of the tape was met since the last rewind or mount
  failed   \* an assertion has failed

vars == <<head, isOpen, count, status, int, written, ended, failed>>

(* The marks among the first n items of a tape, ... *)
MarksBefore(items, n) == Cardinality({i \in 1..n : items[i] = 0})

(* ... and, for every n, the words after the last of them. *)
WordsSinceMark(items) ==
  LET since[n \in 0..Len(items)] ==
        IF n = 0 \/ items[n] = 0 THEN 0 ELSE since[n - 1] + items[n]
  IN  since

(* The sizes of the files on a tape that end with a mark, as               *)
(* UpdateForNewFile finds them.                                            *)
FileSizes(items) ==
  LET marks == {i \in 1..Len(items) : items[i] = 0}
      End(file) == CHOOSE i \in marks : MarksBefore(items, i) = file
  IN  [file \in 1..Cardinality(marks) |-> WordsSinceMark(items)[End(file) - 1]]

(* PokedTapFile_c::open of an image that exists, or that does not: then    *)
(* mCurRecordEof keeps the value m it has, at first not initialised.       *)
NewTape(items, there, m) ==
  [items |-> items, exists |-> there, pos |-> 0, into |-> 0, valid |-> FALSE,
   mark |-> ~there /\ m, end |-> FALSE, file |-> 0, ofs |-> 0,
   sizes |-> IF there THEN FileSizes(items) ELSE <<>>]

Init ==
  /\ \E items \in Images, m \in BOOLEAN :
       \/ head = NewTape(items, TRUE, m) /\ isOpen = TRUE
       \/ head = NewTape(<<>>, FALSE, m) /\ isOpen = FALSE
  /\ count = 0 /\ status = "none" /\ int = FALSE /\ written = FALSE /\ ended = FALSE
  /\ failed = FALSE

-----------------------------------------------------------------------------
(* TapFile_c *)

(* mCurRecordValid && !mCurRecordEof: the head is in a record. *)
InRecord(h) == h.valid /\ ~h.mark

Reset(h) == [h EXCEPT !.into = 0, !.valid = FALSE]

(* GetState after an operation in the given direction. *)
State(h, forward) ==
  IF ~h.exists THEN IF forward THEN "end" ELSE "begin"
  ELSE IF h.end THEN "end"
  ELSE IF h.pos = 0 /\ ~InRecord(h) THEN "begin"
  ELSE IF h.mark THEN "file" ELSE "record"

SeekToNextRecord(h) ==
  IF ~h.exists THEN h
  ELSE IF InRecord(h) THEN [Reset(h) EXCEPT !.pos = @ + 1]
  ELSE IF h.pos = Len(h.items) THEN [h EXCEPT !.end = TRUE]
  ELSE LET eof == h.items[h.pos + 1] = 0
       IN  [h EXCEPT !.pos = @ + 1, !.mark = eof, !.valid = eof, !.into = 0]

(* A mutation: mCurRecordEof is not cleared on the way back. *)
SeekToPrevKeepsMark(h0) ==
  LET h == [h0 EXCEPT !.end = FALSE]
  IN  IF ~h.exists THEN h0
      ELSE IF h.pos = 0 /\ ~InRecord(h) THEN [Reset(h) EXCEPT !.mark = FALSE]
      ELSE IF InRecord(h) THEN Reset(h)
      ELSE IF h.valid THEN [Reset(h) EXCEPT !.pos = @ - 1]
      ELSE [Reset(h) EXCEPT !.pos = @ - 1, !.mark = h.mark \/ h.items[h.pos] = 0]

SeekToPrevRecord(h0) ==
  LET h == [h0 EXCEPT !.end = FALSE]
  IN  IF ~h.exists THEN h0
      ELSE IF h.pos = 0 /\ ~InRecord(h) THEN [Reset(h) EXCEPT !.mark = FALSE]
      ELSE IF InRecord(h) THEN Reset(h)
      ELSE IF h.valid THEN [Reset(h) EXCEPT !.pos = @ - 1]
      ELSE [Reset(h) EXCEPT !.pos = @ - 1, !.mark = h.items[h.pos] = 0]

(* Read at most max words.  A record of which no word is left is closed. *)
Read(h, max) ==
  LET at == IF InRecord(h) THEN h.into ELSE 0
      size == h.items[h.pos + 1]
  IN  IF ~h.exists THEN h
      ELSE IF ~InRecord(h) /\ h.pos = Len(h.items) THEN [h EXCEPT !.end = TRUE]
      ELSE IF size = 0 THEN [h EXCEPT !.pos = @ + 1, !.into = 0, !.valid = TRUE, !.mark = TRUE]
      ELSE IF max >= size - at THEN [Reset(h) EXCEPT !.pos = @ + 1, !.mark = FALSE]
      ELSE [h EXCEPT !.into = at + max, !.valid = TRUE, !.mark = FALSE]

(* WriteRecordInternal of a record of a size, or a mark.  What follows the *)
(* head is cut off unless the next record has the same size.               *)
WriteRecordInternal(h, size) ==
  LET same == ~InRecord(h) /\ h.pos < Len(h.items) /\ h.items[h.pos + 1] = size
      rest == IF same THEN SubSeq(h.items, h.pos + 2, Len(h.items)) ELSE <<>>
  IN  [Reset(h) EXCEPT !.items = SubSeq(@, 1, h.pos) \o <<size>> \o rest, !.exists = TRUE,
         !.pos = @ + 1, !.end = FALSE, !.mark = size = 0, !.valid = size = 0]

SeekToBeginningOfTape(h) == [Reset(h) EXCEPT !.pos = 0, !.end = FALSE, !.mark = FALSE]

-----------------------------------------------------------------------------
(* PokedTapFile_c: the same operations with the file index and offset.  A  *)
(* distance is what the code computes from tellg before and after.         *)

WordsPassed(h, n) ==
  IF InRecord(h) THEN n - h.into ELSE n

PokedNext(h) ==
  LET next == SeekToNextRecord(h)
  IN  IF State(next, TRUE) \in {"file", "end"} THEN [next EXCEPT !.file = @ + 1, !.ofs = 0]
      ELSE [next EXCEPT !.ofs = @ + WordsPassed(h, h.items[h.pos + 1])]

(* The offset at the end of the file in front of a mark is looked up in    *)
(* mFileSizes; past the end of that vector it is some value junk.          *)
PokedPrev(h, junk) ==
  LET prev == SeekToPrevRecord(h)
  IN  CASE State(prev, FALSE) = "begin" -> [prev EXCEPT !.file = 0, !.ofs = 0]
        [] State(prev, FALSE) = "file" ->
             [prev EXCEPT !.file = @ - 1,
                          !.ofs = IF h.file <= Len(h.sizes) THEN h.sizes[h.file] ELSE junk]
        [] OTHER -> [prev EXCEPT !.ofs = @ - (IF InRecord(h) THEN h.into ELSE h.items[h.pos])]

(* The assertions of SeekToPrevRecord hold: the file index is positive in  *)
(* front of a mark, and the words passed are at least the offset.  A       *)
(* negative offset is a huge one in the code, where it is a size_t.        *)
PrevAsserts(h) ==
  LET prev == SeekToPrevRecord(h)
  IN  CASE State(prev, FALSE) = "begin" -> TRUE
        [] State(prev, FALSE) = "file" -> h.file > 0
        [] OTHER -> h.ofs \in 0..(IF InRecord(h) THEN h.into ELSE h.items[h.pos])

WordsRead(h, max) ==
  IF h.exists /\ (InRecord(h) \/ h.pos < Len(h.items))
  THEN LET n == WordsPassed(h, h.items[h.pos + 1]) IN IF n < max THEN n ELSE max
  ELSE 0

(* A mutation: the offset counts the words asked for, not the words read. *)
PokedReadByRequest(h, max) ==
  LET read == Read(h, max)
  IN  IF State(read, TRUE) \in {"file", "end"} THEN [read EXCEPT !.file = @ + 1, !.ofs = 0]
      ELSE [read EXCEPT !.ofs = @ + max]

PokedRead(h, max) ==
  LET read == Read(h, max)
  IN  IF State(read, TRUE) \in {"file", "end"} THEN [read EXCEPT !.file = @ + 1, !.ofs = 0]
      ELSE [read EXCEPT !.ofs = @ + WordsRead(h, max)]

(* close, after SeekToBeginningOfTape. *)
PokedRewind(h) == [SeekToBeginningOfTape(h) EXCEPT !.file = 0, !.ofs = 0]

-----------------------------------------------------------------------------
(* IopExpTape_c::Control *)

(* FinalizeControl *)
FinalizeControl(s) == status' = s /\ int' = TRUE

(* An operation stopped by a mark or by the end of the tape is an error. *)
StatusOf(s) == IF s \in {"file", "end"} THEN "error" ELSE "ready"

ReadForward(n) ==
  /\ head' = PokedRead(head, n)
  /\ count' = n - WordsRead(head, n)
  /\ FinalizeControl(StatusOf(State(head', TRUE)))
  /\ ended' = (ended \/ State(head', TRUE) = "end")
  /\ isOpen' = head.exists
  /\ UNCHANGED <<written, failed>>

Rewind ==
  /\ head' = PokedRewind(head)
  /\ FinalizeControl("ready")
  /\ isOpen' = FALSE /\ ended' = FALSE
  /\ UNCHANGED <<count, written, failed>>

(* Skip n records forward; stop at a mark or at the end of the tape. *)
SpaceForward(n) ==
  LET skip[k \in 0..n] ==
        IF k = 0 THEN [h |-> head, left |-> n, stop |-> FALSE]
        ELSE LET s == skip[k - 1]
                 next == PokedNext(s.h)
                 hit == State(next, TRUE) \in {"file", "end"}
             IN  IF s.stop THEN s
                 ELSE [h |-> next, left |-> IF hit THEN s.left ELSE s.left - 1, stop |-> hit]
  IN  /\ head' = skip[n].h
      /\ count' = skip[n].left
      /\ FinalizeControl(IF skip[n].stop THEN "error" ELSE "ready")
      /\ ended' = (ended \/ State(head', TRUE) = "end")
      /\ isOpen' = head.exists
      /\ UNCHANGED <<written, failed>>

(* Skip n records backward; stop at a mark.  The beginning of the tape     *)
(* does not stop it, except for the state "end", which it never has.       *)
SpaceBackward(n) ==
  \E junk \in 0..1 :
    LET skip[k \in 0..n] ==
          IF k = 0 THEN [h |-> head, left |-> n, stop |-> FALSE, ok |-> TRUE]
          ELSE LET s == skip[k - 1]
                   prev == PokedPrev(s.h, junk)
                   hit == State(prev, FALSE) = "file"
               IN  IF s.stop \/ ~s.ok THEN s
                   ELSE IF ~PrevAsserts(s.h) THEN [s EXCEPT !.ok = FALSE]
                   ELSE [h |-> prev, left |-> IF hit THEN s.left ELSE s.left - 1,
                         stop |-> hit, ok |-> TRUE]
    IN  /\ head' = skip[n].h
        /\ count' = skip[n].left
        /\ isOpen' = head.exists
        /\ IF skip[n].ok
           THEN /\ FinalizeControl(IF skip[n].stop THEN "error" ELSE "ready")
                /\ UNCHANGED failed
           ELSE failed' = TRUE /\ status' = "none" /\ UNCHANGED int
        /\ UNCHANGED <<written, ended>>

WriteForward(n) ==
  /\ head.pos < MaxItems
  /\ head' = WriteRecordInternal(head, n)
  /\ count' = 0 /\ isOpen' = TRUE /\ written' = TRUE
  /\ FinalizeControl("ready")
  /\ UNCHANGED <<ended, failed>>

WriteEOF ==
  /\ head.pos < MaxItems
  /\ head' = [WriteRecordInternal(head, 0) EXCEPT !.file = @ + 1]
  /\ isOpen' = TRUE /\ written' = TRUE
  /\ FinalizeControl("ready")
  /\ UNCHANGED <<count, ended, failed>>

(* CLEAR *)
Clear == int /\ int' = FALSE /\ UNCHANGED <<head, isOpen, count, status, written, ended, failed>>

(* MountTape, refused while the stream is open: open and close.  The name  *)
(* of a file that does not exist mounts an empty tape.                     *)
MountTape(items) ==
  /\ ~isOpen
  /\ \E there \in {TRUE, items # <<>>} : head' = NewTape(items, there, head.mark)
  /\ written' = FALSE /\ ended' = FALSE
  /\ UNCHANGED <<isOpen, count, status, int, failed>>

Next ==
  /\ ~failed /\ head.file < MaxFile
  /\ \/ \E n \in 1..MaxSize :
          ReadForward(n) \/ SpaceForward(n) \/ SpaceBackward(n) \/ WriteForward(n)
     \/ Rewind
     \/ WriteEOF
     \/ Clear
     \/ \E items \in Images : MountTape(items)

Spec == Init /\ [][Next]_vars

-----------------------------------------------------------------------------
(* Properties *)

(* The table of tap_file.cpp:18: mCurRecordValid and mCurRecordEof say     *)
(* that the head is behind a mark, in front of a mark or in a record, and  *)
(* the tape has a mark or an unfinished record there.  Read, SeekToNext-   *)
(* Record, SeekToPrevRecord and the writes all rely on it.                 *)
MarkFlagsExact ==
  head.exists =>
    /\ head.valid /\ head.mark => head.pos > 0 /\ head.items[head.pos] = 0
    /\ ~head.valid /\ head.mark => head.pos < Len(head.items) /\ head.items[head.pos + 1] = 0
    /\ InRecord(head) => head.pos < Len(head.items) /\ head.into \in 1..head.items[head.pos + 1] - 1

(* As long as the tape is not written and its end not reached, the file    *)
(* index and offset of PokedTapFile_c, kept incrementally from positions   *)
(* before and after each operation, are those of the head: a patch of the  *)
(* configuration is applied to the byte it names.                          *)
PokeOffsetExact ==
  ~(written \/ ended \/ failed) =>
    /\ head.file = MarksBefore(head.items, head.pos)
    /\ head.ofs = WordsSinceMark(head.items)[head.pos] + (IF InRecord(head) THEN head.into ELSE 0)
=============================================================================

------------------------------ MODULE Console ------------------------------
(***************************************************************************)
(* A console of an I/O processor: the terminal connection of Console_c     *)
(* (console.cpp) and the channels TO and TI of IopConsole_c.               *)
(*                                                                         *)
(* Completion handlers run from the polls of io_context: each is a step.   *)
(* SendFromQueue also polls, so that a write may complete inside the call  *)
(* that started it; this shows only where a call goes on afterwards        *)
(* (AcceptHandler), and so does the poll of AcceptIfNeeded                 *)
(* (AcceptedInPoll).  Characters have identities: what the guest prints is *)
(* numbered, and what a terminal sends is a key or a part of an option.    *)
(* The Do and Will fields of an option are written and never read.         *)
(***************************************************************************)
EXTENDS Naturals, Sequences, FiniteSets, SequencesExt

CONSTANTS MaxPrint,  \* bound: characters printed with function 14
          MaxTyped,  \* bound: keys and options typed
          MaxDrop    \* bound: connections that break

VARIABLES
  peer,       \* a terminal program wants to be connected
  sock,       \* mConnectionSocket: "none", "accepting" or (mAccepted) "open"
  accepts,    \* outstanding accepts; 2: some are for destroyed sockets
  broken,     \* the terminal left: the next read or write fails
  aborted,    \* handlers of closed sockets that have yet to run
  line,       \* bytes on their way from the terminal
  reads,      \* outstanding reads
  full,       \* mReceiveFull (the character itself is left out)
  telnet,     \* mTelnetState with mTelnetAction
  offered,    \* options with OutstandingWillWont
  txq,        \* mTransmitQueue
  inflight,   \* entries being written
  to, ti,     \* mBusy and mDone of the channels (mInterruptEnabled only
              \* gates the interrupt, and no step here depends on it)
  esc,        \* mEscSequence
  owed,       \* history: function 14 was accepted and Done is not set yet
  fault,      \* an assertion failed, or a destroyed socket was used
  screen,     \* history: numbers of the characters shown
  keys, printed, drops  \* history: words typed, characters printed,
                        \* connections broken

conn == <<sock, accepts, broken, aborted, line, reads, full, telnet, offered, inflight>>
guest == <<to, ti, esc, owed, printed>>
vars == <<conn, guest, peer, txq, fault, screen, keys, drops>>

Accepted == {"ECHO", "SGA"}   \* the options the console agrees to
Option(action, opt) == [id |-> 0, notify |-> FALSE, action |-> action, opt |-> opt]
Text(n) == [id |-> n, notify |-> TRUE, action |-> "", opt |-> ""]

Init == /\ peer = FALSE /\ sock = "none" /\ accepts = 0 /\ broken = FALSE
        /\ aborted = 0 /\ line = <<>> /\ reads = 0 /\ full = FALSE
        /\ telnet = "WaitIAC" /\ offered = {} /\ txq = <<>> /\ inflight = <<>>
        /\ to = [busy |-> FALSE, done |-> FALSE]
        /\ ti = FALSE
        /\ esc = <<>> /\ owed = FALSE /\ fault = "" /\ screen = <<>> /\ keys = 0
        /\ printed = 0 /\ drops = 0

(***************************************************************************)
(* The connection.                                                         *)
(***************************************************************************)

Pending(n) == IF n = 0 THEN 1 ELSE 2

(* SendFromQueue for a queue q that has become non-empty: without a socket *)
(* an accept is started, on an open one the head of the queue is written.  *)
SendFromQueue(q) ==
  /\ sock' = (IF sock = "none" THEN "accepting" ELSE sock)
  /\ accepts' = (IF sock = "none" THEN Pending(accepts) ELSE accepts)
  /\ inflight' = (IF sock = "open" THEN Append(inflight, Head(q)) ELSE inflight)

(* SendStringInternal: only a string that finds the queue empty is sent.   *)
SendStringInternal(entry) ==
  /\ txq' = Append(txq, entry)
  /\ IF txq = <<>> THEN SendFromQueue(txq') ELSE UNCHANGED <<sock, accepts, inflight>>

(* CloseSocket and the AcceptIfNeeded it ends with.  The operations still  *)
(* outstanding on the socket come back aborted; n handlers are then left.  *)
CloseSocket(n) ==
  /\ sock' = "accepting" /\ accepts' = Pending(accepts)
  /\ broken' = FALSE /\ line' = <<>> /\ reads' = 0 /\ inflight' = <<>>
  /\ aborted' = n /\ offered' = {}
  /\ UNCHANGED <<full, telnet>>

Outstanding == reads + Len(inflight)

(* AcceptHandler of the current socket: a read is primed and the options   *)
(* are offered.  When nothing was queued each offer is sent at once; k of  *)
(* them complete in the poll, and if any is left the closing SendFromQueue *)
(* writes the head of the queue a second time.  An accept for a socket     *)
(* that was destroyed writes to freed memory.  Handlers run in the order   *)
(* they were posted in: those of the last socket come first.               *)
Offers == <<Option("WILL", "ECHO"), Option("WILL", "SGA"), Option("WONT", "LINEMODE")>>

AcceptHandler ==
  /\ peer /\ accepts > 0 /\ aborted = 0
  /\ peer' = FALSE
  /\ IF accepts > 1
       THEN fault' = "destroyed socket" /\ UNCHANGED <<conn, txq>>
       ELSE \E k \in 0..3 :
              /\ txq = <<>> \/ k = 0
              /\ sock' = "open" /\ accepts' = 0 /\ reads' = reads + 1
              /\ offered' = {"ECHO", "SGA", "LINEMODE"}
              /\ txq' = txq \o SubSeq(Offers, k + 1, 3)
              /\ inflight' = (IF txq' = <<>> THEN <<>>
                              ELSE IF txq = <<>> THEN <<Head(txq'), Head(txq')>>
                              ELSE <<Head(txq')>>)
              /\ UNCHANGED <<fault, broken, aborted, line, full, telnet>>
  /\ UNCHANGED <<guest, screen, keys, drops>>

(* ReadHandler: the byte is a key, an LF or NUL that is eaten, or part of  *)
(* a telnet command; the reply to an option is sent unless the option was  *)
(* offered and this is the answer.                                         *)
Reply(action, opt) ==
  LET word == IF action \in {"DO", "DONT"}
                THEN (IF opt \in Accepted THEN "WILL" ELSE "WONT")
                ELSE (IF opt \in Accepted THEN "DO" ELSE "DONT")
      quiet == action \in {"DO", "DONT"} /\ opt \in offered
  IN  /\ IF quiet THEN UNCHANGED <<txq, sock, accepts, inflight>>
                  ELSE SendStringInternal(Option(word, opt))
      /\ offered' = offered \ {opt}

Actions == {"DO", "DONT", "WILL", "WONT"}

Receive(byte) ==
  \/ /\ telnet = "WaitIAC"
     /\ telnet' = (IF byte = "IAC" THEN "WaitAction" ELSE "WaitIAC")
     /\ full' = (byte \notin {"IAC", "LF", "NUL"})
     /\ UNCHANGED <<txq, sock, accepts, inflight, offered>>
  \/ /\ telnet = "WaitAction"
     /\ telnet' = (IF byte \in Actions THEN byte ELSE "WaitIAC")
     /\ full' = (byte \notin Actions \cup {"NOP"})
     /\ UNCHANGED <<txq, sock, accepts, inflight, offered>>
  \/ /\ telnet \in Actions
     /\ telnet' = "WaitIAC" /\ full' = FALSE
     /\ Reply(telnet, byte)

ReadHandler ==
  /\ reads > 0 /\ line # <<>>
  /\ line' = Tail(line)
  /\ IF full
       THEN /\ fault' = "mReceiveFull" /\ reads' = reads - 1
            /\ UNCHANGED <<txq, sock, accepts, inflight, offered, full, telnet>>
       ELSE /\ Receive(Head(line)) /\ UNCHANGED fault
            /\ reads' = (IF full' THEN reads - 1 ELSE reads)
  /\ UNCHANGED <<guest, peer, screen, keys, drops, broken, aborted>>

ReadFails ==
  /\ reads > 0 /\ broken
  /\ CloseSocket(aborted + Outstanding - 1)
  /\ UNCHANGED <<guest, peer, txq, fault, screen, keys, drops>>

WriteFails ==
  /\ inflight # <<>> /\ broken
  /\ CloseSocket(aborted + Outstanding - 1)
  /\ UNCHANGED <<guest, peer, txq, fault, screen, keys, drops>>

(* A handler of a closed socket closes the socket that took its place.     *)
AbortedHandler ==
  /\ aborted > 0
  /\ CloseSocket(aborted - 1 + Outstanding)
  /\ UNCHANGED <<guest, peer, txq, fault, screen, keys, drops>>

(* ChannelTO_c::SetDone, called by SendHandlerDetail.                      *)
SetDone == to' = [to EXCEPT !.busy = FALSE, !.done = TRUE] /\ owed' = FALSE

Show(entry) == IF entry.notify THEN Append(screen, entry.id) ELSE screen

(* Mutants: the entry stays at the head of the queue; nobody is notified.  *)
WriteHandlerKeeps ==
  /\ inflight # <<>>
  /\ screen' = Show(Head(inflight))
  /\ IF txq = <<>> THEN inflight' = Tail(inflight) /\ UNCHANGED txq
     ELSE /\ UNCHANGED txq /\ inflight' = Append(Tail(inflight), Head(txq))
  /\ SetDone
  /\ UNCHANGED <<peer, fault, keys, drops, sock, accepts, broken, aborted, line, reads,
                 full, telnet, offered, ti, esc, printed>>
WriteHandlerSilent ==
  /\ inflight # <<>>
  /\ screen' = Show(Head(inflight))
  /\ txq' = (IF txq = <<>> THEN <<>> ELSE Tail(txq))
  /\ inflight' = (IF txq' = <<>> THEN Tail(inflight) ELSE Append(Tail(inflight), Head(txq')))
  /\ UNCHANGED <<peer, fault, keys, drops, sock, accepts, broken, aborted, line, reads,
                 full, telnet, offered, guest>>

(* WriteHandler: the head of the queue is taken off and the next entry is  *)
(* written; then the device hears of it.                                   *)
WriteHandler ==
  /\ inflight # <<>>
  /\ screen' = Show(Head(inflight))
  /\ txq' = (IF txq = <<>> THEN <<>> ELSE Tail(txq))
  /\ inflight' = (IF txq' = <<>> THEN Tail(inflight) ELSE Append(Tail(inflight), Head(txq')))
  /\ IF txq # <<>> /\ Head(txq).notify THEN SetDone ELSE UNCHANGED <<to, owed>>
  /\ UNCHANGED <<peer, fault, keys, drops, sock, accepts, broken, aborted, line, reads,
                 full, telnet, offered, ti, esc, printed>>

(***************************************************************************)
(* The IOP's side.                                                         *)
(***************************************************************************)

(* Characters the guest prints: ordinary ones, ESC and the letters that    *)
(* make an escape sequence longer; DEL is eaten.                           *)
OutChars == {"x", "ESC", "DEL", "="}

(* What function 14 does with ch: whether it extends the sequence, ends it *)
(* (or stands alone) and is sent, or is eaten.                             *)
Escape(ch) ==
  CASE esc = <<>> -> (IF ch = "ESC" THEN "more" ELSE IF ch = "DEL" THEN "eaten" ELSE "send")
    [] Len(esc) = 1 -> (IF ch = "=" THEN "more" ELSE "send")
    [] Len(esc) = 2 -> ("more")
    [] OTHER -> "send"

(* The first accept finds a terminal that waits already: the poll inside   *)
(* AcceptIfNeeded runs AcceptHandler, which queues the offers behind the   *)
(* entry and sends from the queue; k of the offers complete too.  Then the *)
(* outer SendFromQueue goes on and writes the head once more.  The entry   *)
(* itself is assumed to complete within the 100 polls, as one byte on a    *)
(* socket that was just opened does; otherwise it would be shown twice.    *)
AcceptedInPoll(entry) ==
  /\ sock = "none" /\ peer /\ txq = <<>>
  /\ peer' = FALSE /\ sock' = "open" /\ accepts' = 0 /\ reads' = reads + 1
  /\ offered' = {"ECHO", "SGA", "LINEMODE"}
  /\ \E k \in 0..3 : txq' = SubSeq(Offers, k + 1, 3)
  /\ inflight' = (IF txq' = <<>> THEN <<>> ELSE <<Head(txq'), Head(txq')>>)
  /\ screen' = Append(screen, entry.id)
  /\ SetDone

(* Function 14 of TO.                                                      *)
PutChar(ch) ==
  /\ printed < MaxPrint /\ ~to.busy
  /\ LET what == Escape(ch)
     IN  /\ esc' = (CASE what = "more" -> Append(esc, ch)
                      [] what = "send" -> <<>>
                      [] what = "eaten" -> esc)
         /\ printed' = printed + 1
         /\ \/ /\ what = "send"
               /\ to' = [to EXCEPT !.busy = TRUE, !.done = FALSE]
               /\ owed' = TRUE
               /\ SendStringInternal(Text(printed + 1))
               /\ UNCHANGED <<peer, screen, reads, offered>>
            \/ what = "send" /\ AcceptedInPoll(Text(printed + 1))
            \/ /\ what # "send" /\ SetDone
               /\ UNCHANGED <<conn, peer, txq, screen>>
  /\ UNCHANGED <<fault, keys, drops, ti, broken, aborted, line, full, telnet>>

(* Function 0 of TO; function 14 on a busy channel only warns.             *)
ToClear == /\ to' = [to EXCEPT !.busy = FALSE, !.done = FALSE] /\ owed' = FALSE
           /\ to # to'
           /\ UNCHANGED <<conn, peer, txq, fault, screen, keys, drops, ti, esc, printed>>

(* Master clear of the IOP reaches both channels and not the connection.   *)
MasterClear ==
  /\ to' = [busy |-> FALSE, done |-> FALSE]
  /\ ti' = FALSE /\ owed' = FALSE
  /\ <<to, ti>> # <<to', ti'>>
  /\ UNCHANGED <<conn, peer, txq, fault, screen, keys, drops, esc, printed>>

(* Tick: a character that waits sets Done of TI (ReceiveHandlerDetail).    *)
Tick ==
  /\ full /\ ~ti
  /\ ti' = TRUE
  /\ UNCHANGED <<conn, peer, txq, fault, screen, keys, drops, to, esc, owed, printed>>

TiClear == /\ ti /\ ti' = FALSE
           /\ UNCHANGED <<conn, peer, txq, fault, screen, keys, drops, to, esc, owed, printed>>

(* Function 10 of TI: GetChar, which primes the next read.  A read on a    *)
(* socket that is not connected fails.                                     *)
GetChar ==
  /\ ti
  /\ ti' = FALSE
  /\ IF ~full THEN fault' = "GetChar" /\ UNCHANGED <<full, reads, aborted>>
     ELSE /\ full' = FALSE /\ UNCHANGED fault
          /\ IF sock = "open" THEN reads' = reads + 1 /\ UNCHANGED aborted
                              ELSE aborted' = aborted + 1 /\ UNCHANGED reads
  /\ UNCHANGED <<peer, txq, screen, keys, drops, to, esc, owed, printed,
                 sock, accepts, broken, line, telnet, offered, inflight>>

(***************************************************************************)
(* The person and the terminal program (external).  The port is open from  *)
(* the start, before the console accepts.                                  *)
(***************************************************************************)
Connect == /\ ~peer /\ sock # "open" /\ peer' = TRUE
           /\ UNCHANGED <<conn, guest, txq, fault, screen, keys, drops>>

Type == /\ sock = "open" /\ ~broken /\ keys < MaxTyped
        /\ \E word \in {<<"k">>, <<"LF">>, <<"IAC", "DO", "ECHO">>, <<"IAC", "NOP">>} :
             /\ line' = line \o word
             /\ keys' = keys + 1
        /\ UNCHANGED <<guest, peer, txq, fault, screen, drops, sock, accepts, broken, aborted,
                       reads, full, telnet, offered, inflight>>

(* The terminal goes away; bytes it has sent may still arrive.             *)
Disconnect == /\ sock = "open" /\ ~broken /\ drops < MaxDrop
              /\ broken' = TRUE /\ drops' = drops + 1
              /\ UNCHANGED <<guest, peer, txq, fault, screen, keys, sock, accepts, aborted, line,
                             reads, full, telnet, offered, inflight>>

Running == fault = ""

Next == \/ Running /\ AcceptHandler
        \/ Running /\ ReadHandler
        \/ Running /\ ReadFails
        \/ Running /\ WriteFails
        \/ Running /\ AbortedHandler
        \/ Running /\ WriteHandler
        \/ Running /\ \E ch \in OutChars : PutChar(ch)
        \/ Running /\ ToClear
        \/ Running /\ MasterClear
        \/ Running /\ Tick
        \/ Running /\ TiClear
        \/ Running /\ GetChar
        \/ Running /\ Connect
        \/ Running /\ Type
        \/ Running /\ Disconnect

Spec == Init /\ [][Next]_vars

(***************************************************************************)
(* Properties.                                                             *)
(***************************************************************************)

(* A character the channel accepted and did not acknowledge yet is still   *)
(* in the queue, through broken connections and aborted writes: the        *)
(* channel is never busy for ever with nothing left to send.               *)
NoLostCompletion ==
  owed => to.busy /\ \E i \in DOMAIN txq : txq[i].notify

(* Terminals show what the guest printed once and in order.                *)
PrintedInOrder ==
  \A i, j \in DOMAIN screen :
    i < j => screen[i] < screen[j]

(* CRAY_ASSERT(!mReceiveFull) in ReadHandler (console.cpp:264): no byte    *)
(* arrives while the last one has not been taken.                          *)
ReceiveBufferFree == fault # "mReceiveFull"
=============================================================================

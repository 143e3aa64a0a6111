------------------------------ MODULE Ethernet ------------------------------
(***************************************************************************)
(* An Ethernet interface of a simulated I/O subsystem (SimIopEth_c,        *)
(* sim_iop_eth.cpp).  Three threads meet here: the capture thread, which   *)
(* moves frames from the host's tap device into mPacketQueue; the main     *)
(* thread, which runs Tick and the handlers of requests; and the CPUs of   *)
(* the mainframe, whose driver shares two rings in its memory with the     *)
(* interface.  The driver fills the output ring and empties the input      *)
(* ring; SLEEP and WAKEUP packets tell the other side when to look.        *)
(*                                                                         *)
(* Packets to the mainframe may overtake each other (see PacketPool), so   *)
(* only their number is kept.  A frame is its number and whether the       *)
(* filter of the capture thread and the length of a ring entry let it      *)
(* pass.  Left out are PROBE and IOCTL, which are answered and change      *)
(* nothing, and the SLEEP requests other than WAKEUP_OUTPUT, which have no *)
(* effect.                                                                 *)
(*                                                                         *)
(* Operator assumption: only an open interface is kicked.  A master clear  *)
(* of the mainframe, which the interface does not notice, is left out.     *)
(***************************************************************************)
EXTENDS Integers, Sequences, FiniteSets, SequencesExt

CONSTANTS
  InSize, OutSize,  \* Size of the rings; one entry of each stays free
  MaxFrames,  \* bound: frames on the tap device
  MaxPuts,    \* bound: packets the driver sends
  MaxOpens,   \* bound: times the driver opens the interface
  MaxKicks    \* bound: kick commands of the operator

ASSUME EthernetAssumption == InSize \in Nat \ {0} /\ OutSize \in Nat \ {0}

VARIABLES
  present,   \* mPacketCaptureThread # nullptr: the tap device was opened
  started,   \* mThreadStarted
  paused,    \* mPaused of the capture thread
  held,      \* the frame the capture thread is about to push, or <<>>
  hostQueue, \* mPacketQueue
  pc,        \* where the main thread is
  frame,     \* local Packet of HandleRxPacket
  tx,        \* locals of HandleTxPackets: RdIdx, Idx and WrIdx
  in, out,   \* the rings in the mainframe's memory: rd, wr, slots
  toCray,    \* packets on their way to the mainframe, counted by kind
  fromCray,  \* requests on their way to the interface
  driver,    \* the driver: "closed", "opening", "open" or "closing"
  inAwake,   \* the driver is emptying the input ring
  outAsleep, \* the driver knows that the interface does not look for output
  arrived, puts, opens, kicks,  \* counters
  accepted,  \* history: frames pushed
  consumed,  \* history: frames the driver took
  wire,      \* history: packets sent
  resent,    \* history: packets sent by a kick that failed later
  lostIn, lostOut  \* history: frames and packets left in a ring when it
                   \* was closed, or put into it without a device

threads == <<present, started, paused, held, hostQueue>>
mainVars == <<pc, frame, tx>>
driverVars == <<driver, inAwake, outAsleep>>
counters == <<arrived, puts, opens, kicks>>
history == <<accepted, consumed, wire, resent, lostIn, lostOut>>
ethVars == <<threads, mainVars, in, out, toCray, fromCray, driverVars, counters, history>>

AnswerKinds == {"opened", "closed", "wakeInput", "sleepOutput"}
Nothing == [id |-> 0, fits |-> TRUE]
NewRing(n) == [rd |-> 0, wr |-> 0, size |-> n, slots |-> [i \in 0..(n - 1) |-> 0]]
NextIdx(i, r) == (i + 1) % r.size

(* The entries from the read to the write index, oldest first. *)
Entries(r) == [i \in 1..((r.wr - r.rd) % r.size) |-> r.slots[(r.rd + i - 1) % r.size]]

EthInit ==
  /\ present \in BOOLEAN /\ started = FALSE /\ paused = TRUE
  /\ held = <<>> /\ hostQueue = <<>>
  /\ pc = "idle" /\ frame = Nothing /\ tx = [rd |-> 0, idx |-> 0, wr |-> 0]
  /\ in = NewRing(InSize) /\ out = NewRing(OutSize)
  /\ toCray = [k \in AnswerKinds |-> 0] /\ fromCray = <<>>
  /\ driver = "closed" /\ inAwake = FALSE /\ outAsleep = TRUE
  /\ arrived = 0 /\ puts = 0 /\ opens = 0 /\ kicks = 0
  /\ accepted = <<>> /\ consumed = <<>> /\ wire = <<>> /\ resent = {}
  /\ lostIn = {} /\ lostOut = {}

SendResponse(kind) == toCray' = [toCray EXCEPT ![kind] = @ + 1]

-----------------------------------------------------------------------------
(* PacketCaptureThread_c::Thread *)

(* BlockingReceive returns a frame; one that is too short, for another     *)
(* address or received while the thread is paused is dropped.              *)
Receive ==
  /\ started /\ held = <<>> /\ arrived < MaxFrames
  /\ arrived' = arrived + 1
  /\ \E passes, fits \in BOOLEAN :
       held' = IF passes /\ ~paused THEN <<[id |-> arrived + 1, fits |-> fits]>> ELSE <<>>
  /\ UNCHANGED <<present, started, paused, hostQueue, mainVars, in, out, toCray, fromCray,
                 driverVars, puts, opens, kicks, history>>

(* SafeQueue::Push.  Since the test of IsPaused the interface may have     *)
(* been closed.                                                            *)
Push ==
  /\ held # <<>> /\ held' = <<>>
  /\ hostQueue' = hostQueue \o held
  /\ accepted' = accepted \o held
  /\ UNCHANGED <<present, started, paused, mainVars, in, out, toCray, fromCray, driverVars,
                 counters, consumed, wire, resent, lostIn, lostOut>>

-----------------------------------------------------------------------------
(* HandleRxPacket, called by Tick unless the capture thread is paused *)

(* A mutation: the ring may be filled to the last entry. *)
RoomInFullRing == TRUE

(* NextReplyWrIdx # ReplyRdIdx *)
Room == NextIdx(in.wr, in) # in.rd

Rx == UNCHANGED <<present, started, paused, held, out, fromCray, driverVars, counters, history>>

(* The first frame of the queue is written to the entry at the write       *)
(* index; one that is longer than an entry is dropped.                     *)
RxFill ==
  /\ pc = "idle" /\ present /\ ~paused
  /\ hostQueue # <<>> /\ Room
  /\ hostQueue' = Tail(hostQueue)
  /\ IF Head(hostQueue).fits
       THEN /\ pc' = "rxIndex" /\ frame' = Head(hostQueue)
            /\ in' = [in EXCEPT !.slots[in.wr] = Head(hostQueue).id]
       ELSE UNCHANGED <<pc, frame, in>>
  /\ UNCHANGED <<tx, toCray, present, started, paused, held, out, fromCray, driverVars,
                 counters, history>>

RxIndex ==
  /\ pc = "rxIndex" /\ pc' = "rxWake"
  /\ in' = [in EXCEPT !.wr = NextIdx(@, in)]
  /\ frame' = Nothing
  /\ UNCHANGED <<tx, hostQueue, toCray>> /\ Rx

RxWake ==
  /\ pc = "rxWake" /\ pc' = "idle"
  /\ SendResponse("wakeInput")
  /\ UNCHANGED <<frame, tx, hostQueue, in>> /\ Rx

-----------------------------------------------------------------------------
(* HandleTxPackets *)

Tx == UNCHANGED <<threads, frame, in, fromCray, driverVars, arrived, puts, opens,
                  accepted, consumed, lostIn>>

TxBegin == tx' = [rd |-> out.rd, idx |-> out.rd, wr |-> out.wr]

(* HandleTxPacket for one entry; without a device it is skipped. *)
TxSend ==
  /\ pc \in {"tx", "kick"} /\ tx.idx # tx.wr
  /\ wire' = IF present THEN Append(wire, out.slots[tx.idx]) ELSE wire
  /\ lostOut' = IF present THEN lostOut ELSE lostOut \cup {out.slots[tx.idx]}
  /\ tx' = [tx EXCEPT !.idx = NextIdx(@, out)]
  /\ UNCHANGED <<pc, out, toCray, kicks, resent>> /\ Tx

(* A mutation: the read index becomes the write index of this moment. *)
TxIndexAtEnd ==
  /\ pc \in {"tx", "kick"} /\ tx.idx = tx.wr
  /\ out' = [out EXCEPT !.rd = out.wr]
  /\ pc' = IF tx.rd # tx.wr THEN "txSleep" ELSE "idle"
  /\ UNCHANGED <<tx, wire, toCray, kicks, resent, lostOut>> /\ Tx

(* The read index becomes the write index of the beginning; the driver is  *)
(* told if anything was sent.                                              *)
TxIndex ==
  /\ pc \in {"tx", "kick"} /\ tx.idx = tx.wr
  /\ out' = [out EXCEPT !.rd = tx.wr]
  /\ pc' = IF tx.rd # tx.wr THEN "txSleep" ELSE "idle"
  /\ UNCHANGED <<tx, wire, toCray, kicks, resent, lostOut>> /\ Tx

(* A mutation: no packet when the ring has filled again. *)
TxSleepIfEmpty ==
  /\ pc = "txSleep" /\ pc' = "idle"
  /\ IF out.rd = out.wr THEN SendResponse("sleepOutput") ELSE UNCHANGED toCray
  /\ UNCHANGED <<tx, out, wire, kicks, resent, lostOut>> /\ Tx

TxSleep ==
  /\ pc = "txSleep" /\ pc' = "idle"
  /\ SendResponse("sleepOutput")
  /\ UNCHANGED <<tx, out, wire, kicks, resent, lostOut>> /\ Tx

(* The kick command calls HandleTxPackets as well, and survives an error   *)
(* of the tap device: the packets sent before it will be sent again.  (In  *)
(* a request such an error ends the simulator.)                            *)
Kick ==
  /\ pc = "idle" /\ driver = "open" /\ started /\ kicks < MaxKicks
  /\ kicks' = kicks + 1 /\ pc' = "kick"
  /\ TxBegin
  /\ UNCHANGED <<out, wire, toCray, resent, lostOut>> /\ Tx

KickFails ==
  /\ pc = "kick" /\ present /\ tx.idx # tx.wr /\ pc' = "idle"
  /\ resent' = resent \cup {out.slots[i] : i \in {j \in 0..(OutSize - 1) :
                 (j - tx.rd) % OutSize < (tx.idx - tx.rd) % OutSize}}
  /\ UNCHANGED <<tx, out, wire, toCray, kicks, lostOut>> /\ Tx

-----------------------------------------------------------------------------
(* HandleIosEPacket *)

HandleRequest(request) ==
  /\ pc = "idle" /\ fromCray # <<>> /\ Head(fromCray) = request
  /\ fromCray' = Tail(fromCray)
  /\ UNCHANGED <<present, held, hostQueue, frame, in, out, driverVars, counters, history>>

(* MPFC_OPN.  The answer that reports a missing device is not sent. *)
HandleOpen ==
  /\ HandleRequest("open")
  /\ IF present THEN SendResponse("opened") /\ started' = TRUE /\ paused' = FALSE
                ELSE UNCHANGED <<toCray, started, paused>>
  /\ UNCHANGED <<pc, tx>>

(* A mutation: the capture thread goes on. *)
HandleCloseNoPause ==
  /\ HandleRequest("close")
  /\ SendResponse("closed")
  /\ UNCHANGED <<started, paused, pc, tx>>

(* MPFC_CLS *)
HandleClose ==
  /\ HandleRequest("close")
  /\ SendResponse("closed")
  /\ paused' = (present \/ paused)
  /\ UNCHANGED <<started, pc, tx>>

(* MPFC_SLEEP with WAKEUP_OUTPUT *)
HandleWakeOutput ==
  /\ HandleRequest("wakeOutput")
  /\ pc' = "tx" /\ TxBegin
  /\ UNCHANGED <<started, paused, toCray>>

-----------------------------------------------------------------------------
(* The driver of the mainframe (external), as the protocol has it: it      *)
(* empties the input ring when it is woken, wakes the interface when it    *)
(* has something to send and the interface sleeps, and looks at the output *)
(* ring when it learns that the interface went to sleep.                   *)

Driver == UNCHANGED <<threads, mainVars, arrived, kicks, accepted, wire, resent>>
Request(r) == fromCray' = Append(fromCray, r)

Open ==
  /\ driver = "closed" /\ opens < MaxOpens
  /\ opens' = opens + 1 /\ driver' = "opening"
  /\ in' = NewRing(InSize) /\ out' = NewRing(OutSize) /\ inAwake' = FALSE /\ outAsleep' = TRUE
  /\ Request("open")
  /\ UNCHANGED <<toCray, puts, consumed, lostIn, lostOut>> /\ Driver

Close ==
  /\ driver = "open" /\ driver' = "closing"
  /\ Request("close")
  /\ UNCHANGED <<in, out, toCray, inAwake, outAsleep, opens, puts, consumed, lostIn, lostOut>>
  /\ Driver

Put ==
  /\ driver = "open" /\ puts < MaxPuts /\ NextIdx(out.wr, out) # out.rd
  /\ puts' = puts + 1
  /\ out' = [out EXCEPT !.slots[out.wr] = puts + 1, !.wr = NextIdx(@, out)]
  /\ IF outAsleep THEN Request("wakeOutput") ELSE UNCHANGED fromCray
  /\ outAsleep' = FALSE
  /\ UNCHANGED <<in, toCray, driver, inAwake, opens, consumed, lostIn, lostOut>> /\ Driver

Consume ==
  /\ driver = "open" /\ inAwake
  /\ IF in.rd = in.wr
       THEN inAwake' = FALSE /\ UNCHANGED <<in, consumed>>
       ELSE /\ consumed' = Append(consumed, in.slots[in.rd])
            /\ in' = [in EXCEPT !.rd = NextIdx(@, in)]
            /\ UNCHANGED inAwake
  /\ UNCHANGED <<out, toCray, fromCray, driver, outAsleep, opens, puts, lostIn, lostOut>> /\ Driver

Take(kind) ==
  /\ toCray[kind] > 0 /\ toCray' = [toCray EXCEPT ![kind] = @ - 1]
  /\ UNCHANGED <<opens, puts, consumed>> /\ Driver

TakeOpened == /\ Take("opened") /\ driver' = "open"
              /\ UNCHANGED <<in, out, fromCray, inAwake, outAsleep, lostIn, lostOut>>
TakeClosed == /\ Take("closed") /\ driver' = "closed"
              /\ lostIn' = lostIn \cup Range(Entries(in))
              /\ lostOut' = lostOut \cup Range(Entries(out))
              /\ in' = NewRing(InSize) /\ out' = NewRing(OutSize)
              /\ UNCHANGED <<fromCray, inAwake, outAsleep>>
TakeWakeInput == /\ Take("wakeInput") /\ inAwake' = TRUE
                 /\ UNCHANGED <<in, out, fromCray, driver, outAsleep, lostIn, lostOut>>
TakeSleepOutput ==
  /\ Take("sleepOutput")
  /\ IF driver = "open" /\ out.rd # out.wr
       THEN Request("wakeOutput") /\ UNCHANGED outAsleep
       ELSE outAsleep' = TRUE /\ UNCHANGED fromCray
  /\ UNCHANGED <<in, out, driver, inAwake, lostIn, lostOut>>

-----------------------------------------------------------------------------
MainThread ==
  \/ RxFill \/ RxIndex \/ RxWake
  \/ TxSend \/ TxIndex \/ TxSleep \/ KickFails
  \/ HandleOpen \/ HandleClose \/ HandleWakeOutput

Answers == TakeOpened \/ TakeClosed \/ TakeWakeInput \/ TakeSleepOutput

EthNext == Receive \/ Push \/ MainThread \/ Kick
             \/ Open \/ Close \/ Put \/ Consume \/ Answers

(* The main loop and the capture thread go on, the channel delivers, and   *)
(* the driver serves what it is told.  Frames, requests and kicks come or  *)
(* do not.                                                                 *)
EthFairness ==
  WF_ethVars(MainThread) /\ WF_ethVars(Push) /\ WF_ethVars(Consume) /\ WF_ethVars(Answers)

EthSpec == EthInit /\ [][EthNext]_ethVars

EthFairSpec == EthSpec /\ EthFairness

-----------------------------------------------------------------------------
(* Properties *)

Ids(frames) == [i \in DOMAIN frames |-> frames[i].id]
Fitting(frames) == {f.id : f \in {g \in Range(frames) : g.fits}}
Increasing(s) == \A i, j \in DOMAIN s : i < j => s[i] < s[j]

(* What lies between the arrival of a frame and the driver, the oldest     *)
(* first: frames taken, in the ring, about to enter it, and waiting.       *)
Placed == consumed \o Entries(in) \o (IF pc = "rxIndex" THEN <<frame.id>> ELSE <<>>)
Line == Placed \o Ids(hostQueue)

(* A frame that fits an entry is, from the moment it is queued, in one     *)
(* place: the driver has taken it, or it waits in the ring or in the       *)
(* queue, in the order of arrival and with its own contents.  The entry is *)
(* written before the index that lets the driver see it, with the read     *)
(* index the driver moves at any time, in a ring that may be full.         *)
FramesIntact ==
  /\ Increasing(Line)
  /\ Range(Placed) \cup Fitting(hostQueue) = Fitting(accepted) \ lostIn

(* A packet of the driver is sent or still in the ring, although the       *)
(* driver adds packets while HandleTxPackets works with the write index it *)
(* read at first; packets are sent in order, and again only after a kick   *)
(* that failed.                                                            *)
PacketsSentOnce ==
  /\ 1..puts = Range(wire) \cup Range(Entries(out)) \cup lostOut
  /\ \A i, j \in DOMAIN wire : i < j /\ wire[i] >= wire[j] => wire[j] \in resent

(* Once the driver has the answer to its close, and until it opens the     *)
(* interface again, nothing is written where its rings were.               *)
ClosedIsQuiet ==
  driver = "closed" \/ (driver = "opening" /\ paused) => in = NewRing(InSize) /\ out = NewRing(OutSize)

(* No wakeup is lost: as long as the driver keeps the interface open, what *)
(* was received is taken and what the driver put into the ring is sent,    *)
(* although both sides sleep until the other one tells them.               *)
NoLostWakeup ==
  <>[](driver = "open") =>
    []<>(Fitting(hostQueue) = {} /\ Entries(in) = <<>> /\ Entries(out) = <<>>)
=============================================================================

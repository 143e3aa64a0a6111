------------------------------- MODULE SimIos -------------------------------
(***************************************************************************)
(* A simulated I/O subsystem of a J90 ("IOSE") or Y-MP EL ("IOSD"): the    *)
(* cluster's boot sequence and packet handlers (sim_iop.cpp), the packet   *)
(* queue to the mainframe and the packet assembly from it, and what its    *)
(* consoles send.  Left out: the Ethernet interface (see module Ethernet), *)
(* the file server, the sectors a disk moves and the terminal connection   *)
(* (see module Console).                                                   *)
(*                                                                         *)
(* The main loop of cray_sim runs the cluster's Tick and then the          *)
(* channels' ChannelTick; the CPUs prime and use their channels at any     *)
(* time.  Bit fields of a packet are abstracted to the type of request,    *)
(* the drive it names, the Ini flag and the sequence numbers.              *)
(***************************************************************************)
EXTENDS Naturals, Sequences, FiniteSets, SequencesExt

CONSTANTS Configs,    \* configurations a behaviour may have, see config
          Disks,      \* records with a channel, iop and unit
          ERequests,  \* the requests UNICOS sends to an IOSE
          DRequests,  \* the requests UNICOS sends to an IOSD
          MaxBatch,   \* bound: packets in one buffer of the mainframe
          MaxReq,     \* bound: requests to an IOSE
          MaxSingle,  \* bound: requests to an IOSD
          MaxTyped,   \* bound: characters typed on the console
          MaxClear,   \* bound: input channels cleared by the mainframe
          SeqRange    \* 2^8, the number of sequence numbers

(* The requests the handlers tell apart; an unknown one is left unanswered *)
(* ("empty"), and a K packet announces a kernel panic.                     *)
RequestTypes == {"read", "write", "clock", "control", "atm", "connect", "string", "panic",
                 "empty", "K"}

ASSUME SimIosConstants == /\ Configs \subseteq [revision : {"IOSD", "IOSE"},
                                                master : BOOLEAN, auto : BOOLEAN]
                          /\ {MaxBatch, MaxReq, MaxSingle, MaxTyped, MaxClear} \subseteq Nat
                          /\ SeqRange \in Nat \ {0, 1}
                          /\ IsFiniteSet(Disks)
                          /\ \A r \in ERequests \cup DRequests : r.type \in RequestTypes

VARIABLES
  config,       \* mIopRevision, mMasterCluster and ~mDisableAutoTerminal
  turn,         \* next in the main loop: "tick" or "channels"
  state,        \* mState
  seqSent, seqReceived,
  packet,       \* ChannelIToC_c::mPacket, <<>> when mPacketValid is FALSE
  queue,        \* ChannelIToC_c::mPacketQueue
  inbox,        \* ChannelCToI_c::mPacket, <<>> when mPacketValid is FALSE
  outbox,       \* the words the mainframe's output channel is active with
  window,       \* the mainframe's input channel is active
  consoles,     \* mConsoles.size()
  unsent,       \* strings in the transmit queue of console 0
  handled,      \* history: requests handled
  got,          \* history: packets the mainframe received
  batches,      \* history: ticks and console events that sent packets
  nsent, asked, typed, cleared  \* history: packets sent, requests made,
                               \* keys typed, input channels cleared

vars == <<config, turn, state, seqSent, seqReceived, packet, queue, inbox, outbox,
          window, consoles, unsent, handled, got, batches, nsent, asked, typed, cleared>>

IOSE == config.revision = "IOSE"

(* The numbers are uninitialised in a cluster that is not the master until *)
(* the mainframe sends the Ini flag: any value stands for them.            *)
Init == /\ config \in Configs
        /\ turn = "tick" /\ state = "Reset"
        /\ seqSent \in (IF config.master THEN {0} ELSE 0..(SeqRange - 1))
        /\ seqReceived \in (IF config.master THEN {0} ELSE 0..(SeqRange - 1))
        /\ packet = <<>> /\ queue = <<>> /\ inbox = <<>> /\ outbox = <<>>
        /\ window = FALSE /\ consoles = 0 /\ unsent = 0
        /\ handled = 0 /\ got = <<>> /\ batches = 0
        /\ nsent = 0 /\ asked = 0 /\ typed = 0 /\ cleared = 0

(***************************************************************************)
(* The queue to the mainframe.                                             *)
(***************************************************************************)

(* Mutant: the newest packet is sent first.                                *)
QueueNewestFirst(ps) ==
  IF packet = <<>> /\ ps # <<>>
    THEN packet' = <<Last(ps)>> /\ queue' = queue \o Front(ps)
    ELSE queue' = queue \o ps /\ UNCHANGED packet

(* QueuePacket for each packet of ps in turn: the first goes straight into *)
(* an idle channel, even when older packets are queued.                    *)
QueuePackets(ps) ==
  IF packet = <<>> /\ ps # <<>>
    THEN packet' = <<Head(ps)>> /\ queue' = queue \o Tail(ps)
    ELSE queue' = queue \o ps /\ UNCHANGED packet

(* The mainframe's channel takes the whole packet when it is active.       *)
Transmit == /\ packet' = (IF window THEN <<>> ELSE packet)
            /\ got' = (IF window THEN got \o packet ELSE got)
            /\ window' = FALSE
            /\ UNCHANGED queue

FirstOf(q) == IF q = <<>> THEN <<>> ELSE <<Head(q)>>

(* Mutants: the queue keeps the packet it hands on; it is never looked at. *)
IToCTickKeeps ==
  \/ packet # <<>> /\ Transmit
  \/ packet = <<>> /\ packet' = FirstOf(queue) /\ UNCHANGED <<queue, got, window>>
IToCTickIdle ==
  \/ packet # <<>> /\ Transmit
  \/ packet = <<>> /\ UNCHANGED <<packet, queue, got, window>>

(* ChannelIToC_c::ChannelTick: an idle channel takes the next packet of    *)
(* the queue, if there is one, and sends it in a later tick.               *)
IToCTick ==
  \/ packet # <<>> /\ Transmit
  \/ /\ packet = <<>> /\ packet' = FirstOf(queue)
     /\ queue' = (IF queue = <<>> THEN <<>> ELSE Tail(queue))
     /\ UNCHANGED <<got, window>>

(* ChannelCToI_c::ChannelTick: the words of the mainframe's channel become *)
(* the packet once the last one was taken; an unread packet holds it up.   *)
CToITick ==
  IF inbox = <<>> THEN inbox' = outbox /\ outbox' = <<>>
                  ELSE UNCHANGED <<inbox, outbox>>

ChannelTick ==
  /\ turn = "channels" /\ turn' = "tick"
  /\ IToCTick /\ CToITick
  /\ UNCHANGED <<config, state, seqSent, seqReceived, consoles, unsent, handled,
                 batches, nsent, asked, typed, cleared>>

(***************************************************************************)
(* Handlers.  An accumulator holds what the handling of a buffer changes:  *)
(* the two sequence numbers, the packets sent, the console's strings, the  *)
(* number of consoles and of the requests handled.                         *)
(***************************************************************************)
Acc == [sent |-> seqSent, received |-> seqReceived, out |-> <<>>,
        unsent |-> unsent, consoles |-> consoles, done |-> handled]

(* SendPacket of the cluster, n times: a packet gets the next sequence     *)
(* number and the number of the last packet received.  IOSD packets carry  *)
(* none.                                                                   *)
SendCopies(a, kind, req, n) ==
  [a EXCEPT !.out = @ \o [i \in 1..n |-> [id |-> nsent + Len(a.out) + i, kind |-> kind, req |-> req,
                                         batch |-> batches + 1,
                                         seq |-> IF IOSE THEN (a.sent + i - 1) % SeqRange ELSE 0,
                                         ack |-> IF IOSE THEN a.received ELSE 0]],
            !.sent = IF IOSE THEN (@ + n) % SeqRange ELSE @]

SendPacket(a, kind, req) == SendCopies(a, kind, req, 1)

(* The drives a request is carried out on: A packets and E reads compare   *)
(* channel, IOP and unit, E writes the channel alone.                      *)
Drives(r) ==
  IF r.type = "write" /\ IOSE
    THEN {d \in Disks : d.channel = r.drive.channel}
    ELSE {d \in Disks : d = r.drive}

MakeConsoles(a, n) == [a EXCEPT !.consoles = IF @ > n THEN @ ELSE n + 1]

(* SendString, n times, on console 0.  A terminal that is ready takes each *)
(* string at once; an IOSE then acknowledges it (SendHandlerDetail) unless *)
(* automatic terminals are disabled.                                       *)
PutStrings(a, n, ready) ==
  LET b == MakeConsoles(a, 0)
  IN  IF ~ready \/ a.unsent > 0 THEN [b EXCEPT !.unsent = @ + n]
      ELSE IF IOSE /\ config.auto THEN SendCopies(b, "written", 0, n)
      ELSE b

(* One request, numbered k.  A string on an IOSE is acknowledged at once   *)
(* when automatic terminals are disabled; on an IOSD it always is.         *)
Handle(a, r, k, ready) ==
  LET b == CASE r.type \in {"read", "write"} ->
                  SendCopies(a, r.type, k, Cardinality(Drives(r)))
             [] r.type \in {"clock", "control", "atm"} -> SendPacket(a, r.type, k)
             [] r.type = "connect" -> SendPacket(MakeConsoles(a, 0), r.type, k)
             [] r.type = "string" ->
                  LET c == PutStrings(a, 1, ready)
                  IN  IF IOSE /\ config.auto THEN c ELSE SendPacket(c, r.type, k)
             [] r.type = "panic" -> PutStrings(a, 3, ready)
             [] r.type \in {"empty", "K"} -> a
  IN  [b EXCEPT !.done = k]

(* Mutant: the number of the last packet received is not kept.             *)
TakeHeaderNoSeq(a, r) == [a EXCEPT !.sent = IF IOSE /\ r.ini THEN 1 ELSE @]

(* The header of one packet of a buffer: its number and its Ini flag.      *)
TakeHeader(a, r) ==
  IF IOSE THEN [a EXCEPT !.received = r.seq, !.sent = IF r.ini THEN 1 ELSE @] ELSE a

(* The packets of one buffer, one after the other.                         *)
HandleBuffer(buffer, ready) ==
  LET after[i \in 0..Len(buffer)] ==
        IF i = 0 THEN Acc
        ELSE LET a == TakeHeader(after[i - 1], buffer[i])
             IN  Handle(a, buffer[i], a.done + 1, ready)
  IN  after[Len(buffer)]

Apply(result) ==
  \E a \in {result} :
    /\ QueuePackets(a.out)
    /\ nsent' = nsent + Len(a.out)
    /\ batches' = (IF a.out = <<>> THEN batches ELSE batches + 1)
    /\ seqSent' = a.sent /\ seqReceived' = a.received
    /\ consoles' = a.consoles /\ unsent' = a.unsent /\ handled' = a.done

(***************************************************************************)
(* Tick of the cluster.  Its consoles come first: a key typed or a string  *)
(* taken by the terminal sends a packet.                                   *)
(***************************************************************************)
ConsoleTyped ==
  /\ turn = "tick" /\ consoles > 0 /\ typed < MaxTyped
  /\ typed' = typed + 1
  /\ Apply(SendPacket(Acc, "typed", 0))
  /\ UNCHANGED <<config, turn, state, inbox, outbox, window, got, asked, cleared>>

(* WriteHandler: the terminal takes n strings.  SendHandlerDetail runs for *)
(* each of them after the last: each is acknowledged when nothing is left  *)
(* in the queue, and none when something is (the option strings of a new   *)
(* connection, for one).                                                   *)
ConsoleWritten ==
  /\ turn = "tick"
  /\ \E n \in 1..unsent : \E optionsLeft \in BOOLEAN :
       LET a == [Acc EXCEPT !.unsent = @ - n]
       IN  Apply(IF IOSE /\ config.auto /\ n = unsent /\ ~optionsLeft
                   THEN SendCopies(a, "written", 0, n) ELSE a)
  /\ UNCHANGED <<config, turn, state, inbox, outbox, window, got, asked, typed, cleared>>

InTick == turn = "tick" /\ turn' = "channels" /\ UNCHANGED <<config, outbox, window, got, asked, typed, cleared>>

(* Case Reset: the master loads the kernel and dead starts the CPUs; an    *)
(* IOSD sends the time.                                                    *)
TickReset ==
  /\ InTick /\ state = "Reset"
  /\ state' = IF IOSE THEN "RunningJ90" ELSE "WaitTimeSent"
  /\ LET a == IF config.master THEN [Acc EXCEPT !.sent = 0, !.received = 0] ELSE Acc
     IN  Apply(IF IOSE THEN a ELSE SendPacket(a, "time", 0))
  /\ UNCHANGED inbox

(* Cases WaitTimeSent, WaitISent and WaitJSent: each step of the handshake *)
(* waits for the channel to be free or for the mainframe's reply.          *)
TickTimeSent == /\ InTick /\ state = "WaitTimeSent" /\ packet = <<>>
                /\ state' = "WaitISent" /\ Apply(SendPacket(Acc, "I", 0))
                /\ UNCHANGED inbox
TickISent == /\ InTick /\ state = "WaitISent" /\ inbox # <<>>
             /\ state' = "WaitJSent" /\ Apply(SendPacket(Acc, "J", 0))
             /\ inbox' = <<>>
TickJSent == /\ InTick /\ state = "WaitJSent" /\ inbox # <<>>
             /\ state' = "RunningYEL" /\ Apply(SendPacket(Acc, "C", 0))
             /\ inbox' = <<>>

(* Cases RunningYEL and RunningJ90.  A K packet announces a kernel panic.  *)
TickRunning ==
  /\ InTick /\ state \in {"RunningYEL", "RunningJ90"} /\ inbox # <<>>
  /\ inbox' = <<>>
  /\ \E ready \in BOOLEAN : Apply(HandleBuffer(inbox, ready))
  /\ state' = IF \E i \in DOMAIN inbox : inbox[i].type = "K" THEN "KernelPanic" ELSE state

(* Case KernelPanic: everything received is printed on the first console.  *)
TickPanic ==
  /\ InTick /\ state = "KernelPanic" /\ inbox # <<>> /\ consoles > 0
  /\ inbox' = <<>>
  /\ Apply(PutStrings(Acc, 1, FALSE))
  /\ UNCHANGED state

TickIdle ==
  /\ InTick
  /\ \/ state = "WaitTimeSent" /\ packet # <<>>
     \/ state \in {"WaitISent", "WaitJSent", "RunningYEL", "RunningJ90"} /\ inbox = <<>>
     \/ state = "KernelPanic" /\ (inbox = <<>> \/ consoles = 0)
  /\ Apply(Acc) /\ UNCHANGED <<state, inbox>>

Tick == \/ TickReset \/ TickTimeSent \/ TickISent \/ TickJSent
        \/ TickRunning \/ TickPanic \/ TickIdle

(***************************************************************************)
(* The mainframe and UNICOS (external), as far as the handlers see them:   *)
(* it primes its input channel, may clear it again, answers the handshake  *)
(* of an IOSD, and sends requests once it is up.                           *)
(***************************************************************************)
Mainframe == UNCHANGED <<config, turn, state, seqSent, seqReceived, packet, queue, inbox,
                         consoles, unsent, handled, got, batches, nsent, typed>>

PrimeInput == /\ ~window /\ window' = TRUE
              /\ UNCHANGED <<outbox, asked, cleared>> /\ Mainframe
ClearInput == /\ window /\ window' = FALSE
              /\ cleared < MaxClear /\ cleared' = cleared + 1
              /\ UNCHANGED <<outbox, asked>> /\ Mainframe

Heard(kind) == \E i \in DOMAIN got : got[i].kind = kind

SendReply ==
  /\ ~IOSE /\ outbox = <<>> /\ inbox = <<>>
  /\ \/ state = "WaitISent" /\ Heard("I")
     \/ state = "WaitJSent" /\ Heard("J")
  /\ outbox' = <<[type |-> "reply"]>>
  /\ UNCHANGED <<window, asked, cleared>> /\ Mainframe

(* An IOSD gets one packet at a time, an IOSE several in one buffer, with  *)
(* consecutive numbers and the Ini flag in the very first one.             *)
SendRequests ==
  /\ outbox = <<>> /\ UNCHANGED <<window, cleared>> /\ Mainframe
  /\ \/ /\ ~IOSE /\ Heard("C") /\ asked < MaxSingle
        /\ \E r \in DRequests : outbox' = <<r>>
        /\ asked' = asked + 1
     \/ /\ IOSE /\ state = "RunningJ90"
        /\ \E n \in 1..MaxBatch : \E rs \in [1..n -> ERequests] :
             /\ asked' = asked + n /\ asked' <= MaxReq
             /\ outbox' = [i \in 1..n |-> [type |-> rs[i].type, drive |-> rs[i].drive,
                                           seq |-> (asked + i) % SeqRange,
                                           ini |-> asked + i = 1]]

Next == \/ Tick \/ ConsoleTyped \/ ConsoleWritten \/ ChannelTick
        \/ PrimeInput \/ ClearInput \/ SendReply \/ SendRequests

Spec == Init /\ [][Next]_vars

(* The main loop goes on, terminals take what they are sent, and UNICOS    *)
(* primes its input channel again after each packet; it clears a primed    *)
(* channel only finitely often (MaxClear).                                 *)
FairSpec == /\ Spec
            /\ WF_vars(Tick) /\ WF_vars(ChannelTick) /\ WF_vars(ConsoleWritten)
            /\ WF_vars(PrimeInput)

(***************************************************************************)
(* Properties.                                                             *)
(***************************************************************************)
InTransit == Range(packet) \cup Range(queue)

Kinds == {"time", "I", "J", "C", "typed", "written", "read", "write", "clock", "control",
          "atm", "connect", "string"}
Numbers == 0..(SeqRange - 1)
AllPackets == [id : Nat, kind : Kinds, req : Nat, batch : Nat,
               seq : Numbers, ack : Numbers]

(* Type invariant of the cluster and its channels; a request is handled    *)
(* only after the handshake.                                               *)
TypeOK == /\ config \in Configs /\ turn \in {"tick", "channels"}
          /\ state \in {"Reset", "WaitTimeSent", "WaitISent", "WaitJSent",
                        "RunningYEL", "RunningJ90", "KernelPanic"}
          /\ seqSent \in Numbers /\ seqReceived \in Numbers
          /\ Len(packet) <= 1 /\ Len(inbox) <= MaxBatch /\ Len(outbox) <= MaxBatch
          /\ window \in BOOLEAN
          /\ {consoles, unsent, nsent, typed, batches} \subseteq Nat
          /\ asked \in Nat /\ handled <= asked
          /\ InTransit \cup Range(got) \subseteq AllPackets

(* The packet channel implements the pool: through the queue, the packet   *)
(* being sent, channels cleared by the mainframe and packets that overtake *)
(* others, no packet is lost, doubled or invented.                         *)
Pool == INSTANCE PacketPool WITH Packets <- AllPackets, pending <- InTransit
ImplementsPool == Pool!Spec

(* Answers to the requests of one buffer arrive in the order of the        *)
(* requests, whatever overtakes them (QueuePacket sends directly whenever  *)
(* the channel is idle, so answers to different buffers may change places).*)
BufferInOrder ==
  \A i, j \in DOMAIN got :
    i < j /\ got[i].batch = got[j].batch => got[i].id < got[j].id

(* An answer of an IOSE acknowledges the request it answers, and not the   *)
(* last one of the buffer that request came in.                            *)
AnswerAcknowledges ==
  \A p \in InTransit \cup Range(got) :
    IOSE /\ p.req > 0 => p.ack = p.req % SeqRange

(* With finitely many requests, and a mainframe that primes its channel    *)
(* again, everything handed to the channel reaches the mainframe, although *)
(* newer packets may overtake it: the channel runs empty again and again.  *)
AllDelivered == InTransit # {} ~> InTransit = {}
=============================================================================

---------------------------- MODULE Concentrator ----------------------------
(***************************************************************************)
(* The network concentrator of an I/O processor (iop_concentrator.h/.cpp). *)
(* A front-end station connects to a TCP port; a message is a link control *)
(* package (LCP), which says how many segments follow, and its segments,   *)
(* each behind its length.  What the station sends is cut into packages    *)
(* again and read by the IOP through the input channel; what the IOP       *)
(* writes through the output channel gets its lengths here.                *)
(*                                                                         *)
(* The units of the stream are lengths (4 bytes) and words (8 bytes); a    *)
(* word carries, in an LCP, the message code and the number of segments.   *)
(* The handlers of the host's network library run whenever somebody polls  *)
(* it: between any two steps of the IOP and in the middle of MasterClear.  *)
(* Handlers that report an error may run in any order.  A write is handed  *)
(* to the host at once.                                                    *)
(*                                                                         *)
(* Assumptions on the two programs: they send messages in turn, the        *)
(* station first (mSubsegmentCount serves both directions), and the first  *)
(* one logs on, which sets the segment size; all segments of the station   *)
(* but the last of a message have full size; the IOP asks for an LCP and   *)
(* for full segments.                                                      *)
(*                                                                         *)
(* A connection accepted in the middle of a message of the last one is     *)
(* misread, since neither state machine is reset for it, and MasterClear   *)
(* drops what it has read of a connection it has just accepted.  garbled   *)
(* notes both; such a connection is not followed up to the next master     *)
(* clear.                                                                  *)
(***************************************************************************)
EXTENDS Naturals, Sequences, SequencesExt

CONSTANTS
  LcpWords,   \* WordsPerLCP (6)
  SegWords,   \* words of a full segment, as the logon message says
  MaxSegs,    \* bound on the segments of a message
  MaxMsgs,    \* bound on the messages of the station
  MaxCalls,   \* bound on the connections
  MaxResets   \* bound on the master clears

VARIABLES
  conn,       \* the connection: "none" (not mAccepted), "open", "broken" by the station
  knock,      \* a connection waits to be accepted
  stream,     \* sent by the station and not yet read
  acceptors,  \* async_accepts outstanding
  failing,    \* handlers that will be called with an error
  rbuf,       \* mReceiveBuf
  rcv,        \* mRcvState, mPduLength, mLastRcvdMessageCode, mToCrayData
  subsegs,    \* mSubsegmentCount
  segSize,    \* mSegmentSize in words
  xmt,        \* mXmtState, mBytesTransmitted in words, mLastXmitMessageCode
  fromCray,   \* mFromCrayData
  input, output, \* the channels: active, done, left (mTransferSize)
  guest,      \* the IOP's program: what it does, segments left, words of the
              \* current one already written, message code
  garbled,    \* history: see above
  packages,   \* history: packages of the station's last message on this connection
  got,        \* history: what the IOP's transfers got of them
  current,    \* history: what the transfer in progress has got
  down,       \* history: packages transmitted, [lcp, n, words, segs]
  msgs, calls, resets  \* history: messages of the station, connects, master clears

network == <<conn, knock, stream, acceptors, failing, packages>>
machine == <<rbuf, rcv, subsegs, segSize, xmt, fromCray>>
channels == <<input, output>>
history == <<garbled, got, current, down>>
bounds == <<msgs, calls, resets>>
vars == <<network, machine, channels, guest, history, bounds>>

Idle == [active |-> FALSE, done |-> FALSE, left |-> 0]
(* Functions 2 and 1.                                                      *)
Started(n) == [active |-> TRUE, done |-> FALSE, left |-> n]

Awaiting == [at |-> "await", todo |-> 0, words |-> 0, code |-> "none"]
RcvStart == [state |-> "lcpLength", pdu |-> 0, code |-> "none", data |-> <<>>]
XmtStart == [state |-> "lcpStart", words |-> 0, code |-> "none"]

(* The constructor's MasterClear has started the first accept, and the     *)
(* program waits for the station.                                          *)
Init ==
  /\ conn = "none" /\ knock = FALSE /\ stream = <<>> /\ acceptors = 1 /\ failing = 0
  /\ rbuf = <<>> /\ rcv = RcvStart /\ subsegs = 0 /\ segSize = 0
  /\ xmt = XmtStart /\ fromCray = <<>>
  /\ input = Started(LcpWords) /\ output = Idle /\ guest = Awaiting
  /\ garbled = FALSE /\ packages = <<>> /\ got = <<>> /\ current = <<>> /\ down = <<>>
  /\ msgs = 0 /\ calls = 0 /\ resets = 0

-----------------------------------------------------------------------------
(* The connection.                                                         *)

(* CloseConnSocket, called with f handlers left to fail.  StartAccept      *)
(* follows in any case: without a connection there are then two accepts.   *)
CloseConnSocket(f) ==
  /\ conn' = "none"
  /\ stream' = IF conn = "none" THEN stream ELSE <<>>
  /\ packages' = IF conn = "none" THEN packages ELSE <<>>
  /\ failing' = f
  /\ acceptors' = acceptors + 1
  /\ UNCHANGED knock

(* The read that close cuts off.                                           *)
Aborted == IF conn = "none" THEN 0 ELSE 1

(* Both machines and both programs are between two messages.               *)
BetweenMessages ==
  /\ rcv.state = "lcpLength" /\ xmt.state = "lcpStart"
  /\ guest.at = "await" /\ ~input.done /\ current = <<>>

(* ClearBuffers leaves the states of the machines alone.                   *)
AcceptHandler ==
  /\ acceptors > 0 /\ knock /\ conn = "none"
  /\ conn' = "open" /\ knock' = FALSE /\ acceptors' = acceptors - 1
  /\ rcv' = [rcv EXCEPT !.data = <<>>] /\ rbuf' = <<>> /\ fromCray' = <<>>
  /\ garbled' = (garbled \/ ~BetweenMessages)
  /\ got' = <<>> /\ down' = <<>>
  /\ UNCHANGED <<stream, failing, packages, subsegs, segSize, xmt, channels, guest, current,
                 bounds>>

(* A connection accepted into the socket in use: the handler gets an error *)
(* and closes the socket.                                                  *)
AcceptFails ==
  /\ acceptors > 0 /\ knock /\ conn # "none"
  /\ conn' = "none" /\ knock' = FALSE /\ stream' = <<>> /\ packages' = <<>>
  /\ failing' = failing + Aborted
  /\ UNCHANGED <<acceptors, machine, channels, guest, history, bounds>>

ReadHandler ==
  /\ conn # "none"
  /\ \E n \in 1 .. Len(stream) :
       /\ rbuf' = rbuf \o SubSeq(stream, 1, n)
       /\ stream' = SubSeq(stream, n + 1, Len(stream))
  /\ UNCHANGED <<conn, knock, acceptors, failing, packages, rcv, subsegs, segSize, xmt,
                 fromCray, channels, guest, history, bounds>>

(* The end of the connection; the read that failed was the last.           *)
ReadFails ==
  /\ conn = "broken" /\ stream = <<>>
  /\ CloseConnSocket(failing)
  /\ UNCHANGED <<machine, channels, guest, history, bounds>>

(* The handler of a read that was aborted or of a write that failed.       *)
FailedHandler ==
  /\ failing > 0
  /\ CloseConnSocket(failing - 1 + Aborted)
  /\ UNCHANGED <<machine, channels, guest, history, bounds>>

(* MasterClear of the concentrator (function 4 of the output channel): the *)
(* poll in StartAccept may accept a connection that waits and read of it   *)
(* before the buffers are cleared.  The program clears the channels, too   *)
(* (function 0), and waits for an LCP.                                     *)
MasterClear ==
  /\ resets < MaxResets /\ resets' = resets + 1
  /\ \/ /\ CloseConnSocket(failing + Aborted)
        /\ garbled' = FALSE
     \/ /\ knock /\ conn' = "open" /\ knock' = FALSE
        /\ failing' = failing + Aborted
        /\ \E waits \in {IF conn = "none" THEN stream ELSE <<>>} :
           \E n \in 0 .. Len(waits) :
             /\ stream' = SubSeq(waits, n + 1, Len(waits))
             /\ garbled' = (n > 0)
        /\ packages' = IF conn = "none" THEN packages ELSE <<>>
        /\ UNCHANGED acceptors
  /\ rcv' = [rcv EXCEPT !.state = "lcpLength", !.pdu = 0, !.data = <<>>]
  /\ xmt' = [xmt EXCEPT !.state = "lcpStart", !.words = 0]
  /\ rbuf' = <<>> /\ fromCray' = <<>> /\ segSize' = 0
  /\ input' = Started(LcpWords) /\ output' = Idle /\ guest' = Awaiting
  /\ got' = <<>> /\ current' = <<>> /\ down' = <<>>
  /\ UNCHANGED <<subsegs, msgs, calls>>

-----------------------------------------------------------------------------
(* From the station to the IOP.                                            *)

Rest(data, n) == SubSeq(data, n + 1, Len(data))

(* A turn of the loop of ProcessReceivedBytes; r is unchanged when it has  *)
(* to wait for more.                                                       *)
ProcessPackage(r) ==
  LET content == SubSeq(r.buf, 1, r.pdu)
      next(n) == IF n > 0 THEN "segLength" ELSE "lcpLength"
      waits == r.buf = <<>> \/ (r.state \in {"lcp", "seg"} /\ Len(r.buf) < r.pdu)
  IN  CASE waits -> r
        [] ~waits /\ r.state \in {"lcpLength", "segLength"} ->
             [r EXCEPT !.pdu = Head(r.buf).length, !.buf = Tail(@),
                       !.state = IF @ = "lcpLength" THEN "lcp" ELSE "seg"]
        [] ~waits /\ r.state = "lcp" ->
             [r EXCEPT !.subsegs = Head(r.buf).segs, !.code = Head(r.buf).code, !.pdu = 0,
                       !.buf = Rest(@, r.pdu), !.data = @ \o content, !.state = next(Head(r.buf).segs)]
        [] ~waits /\ r.state = "seg" ->
             [r EXCEPT !.size = IF r.code = "logon" THEN SegWords ELSE @,
                       !.subsegs = @ - 1, !.pdu = 0, !.buf = Rest(@, r.pdu),
                       !.data = @ \o content, !.state = next(r.subsegs - 1)]

(* Every turn takes something from the buffer. *)
ProcessReceivedBytes ==
  LET after[turns \in 0 .. Len(rbuf)] ==
        IF turns = 0
        THEN [state |-> rcv.state, pdu |-> rcv.pdu, code |-> rcv.code, data |-> rcv.data,
              buf |-> rbuf, subsegs |-> subsegs, size |-> segSize]
        ELSE ProcessPackage(after[turns - 1])
  IN  after[Len(rbuf)]

(* Mutant: what waits to be read is not looked at. *)
IsReceptionCompleteEarly(state, data) == state \in {"lcpLength", "segLength"}
IsReceptionComplete(state, data) == state \in {"lcpLength", "segLength"} /\ data = <<>>

(* The transfer ends with the n-th word of r.data. *)
EndsWith(r, n) == n = input.left \/ IsReceptionComplete(r.state, Rest(r.data, n))

(* Tick of the input channel: all that has arrived is cut into packages,   *)
(* then words move until there is none left or the transfer ends.          *)
InputTick ==
  /\ ~garbled
  /\ \E r \in {ProcessReceivedBytes} : \E n \in 0 .. Len(r.data) :
     \E ends \in {n > 0 /\ EndsWith(r, n)} :
       /\ IF input.active
          THEN (n = Len(r.data) \/ ends) /\ \A k \in 1 .. n - 1 : ~EndsWith(r, k)
          ELSE n = 0
       /\ rbuf' = r.buf /\ subsegs' = r.subsegs /\ segSize' = r.size
       /\ rcv' = [state |-> r.state, pdu |-> r.pdu, code |-> r.code, data |-> Rest(r.data, n)]
       /\ input' = [active |-> input.active /\ ~ends, left |-> input.left - n,
                    done |-> input.done \/ ends]
       /\ \E words \in {current \o SubSeq(r.data, 1, n)} :
            IF ends THEN got' = Append(got, words) /\ current' = <<>>
                    ELSE current' = words /\ UNCHANGED got
  /\ UNCHANGED <<network, xmt, fromCray, output, guest, garbled, down, bounds>>

(* The program after a transfer: an LCP says how many segments are to be   *)
(* read, after the last one it replies.                                    *)
ReadNext ==
  /\ ~garbled /\ input.done /\ guest.at \in {"await", "read"}
  /\ \E left \in {IF guest.at = "await" THEN Last(got)[1].segs ELSE guest.todo - 1} :
       IF left > 0
       THEN /\ guest' = [guest EXCEPT !.at = "read", !.todo = left]
            /\ input' = Started(SegWords)
       ELSE /\ guest' = [guest EXCEPT !.at = "reply", !.todo = 0]
            /\ input' = [input EXCEPT !.done = FALSE]
  /\ UNCHANGED <<network, machine, output, history, bounds>>

-----------------------------------------------------------------------------
(* From the IOP to the station.                                            *)

(* The program writes an LCP, ...                                          *)
WriteLcp(code, segs) ==
  /\ ~garbled /\ guest.at = "reply"
  /\ code = "start" => segs > 0
  /\ guest' = [at |-> "write", todo |-> segs, words |-> 0, code |-> code]
  /\ fromCray' = [n \in 1 .. LcpWords |-> [code |-> code, segs |-> segs]]
  /\ output' = Started(LcpWords)
  /\ UNCHANGED <<network, rbuf, rcv, subsegs, segSize, xmt, input, history, bounds>>

(* ... then the segments: full ones in one transfer or more, or, after a   *)
(* start message, a segment of any size in one.                            *)
WriteSegment(words) ==
  /\ ~garbled /\ guest.at = "write" /\ output.done /\ guest.todo > 0
  /\ guest.words + words <= SegWords
  /\ guest' = IF guest.code = "start" \/ guest.words + words = SegWords
              THEN [guest EXCEPT !.todo = @ - 1, !.words = 0]
              ELSE [guest EXCEPT !.words = @ + words]
  /\ fromCray' = [n \in 1 .. words |-> [code |-> "none", segs |-> 0]]
  /\ output' = Started(words)
  /\ UNCHANGED <<network, rbuf, rcv, subsegs, segSize, xmt, input, history, bounds>>

(* The reply is complete: the next LCP is awaited.                         *)
AwaitLcp ==
  /\ ~garbled /\ guest.at = "write" /\ output.done /\ guest.todo = 0
  /\ guest' = Awaiting /\ input' = Started(LcpWords) /\ output' = Idle
  /\ UNCHANGED <<network, machine, history, bounds>>

(* Mutant: every segment ends with the transfer that began it. *)
SegmentEndsAtOnce(words, code) == TRUE
SegmentEnds(words, code) == words >= segSize \/ code = "start"

(* StartTransmit: the length goes before the first words of a package.     *)
StartTransmit ==
  LET n == Len(fromCray)
      lcp == xmt.state = "lcpStart"
      begins == lcp \/ xmt.state = "segStart"
      code == IF lcp THEN fromCray[1].code ELSE xmt.code
      words == IF lcp THEN xmt.words ELSE IF begins THEN n ELSE xmt.words + n
      ends == lcp \/ SegmentEnds(words, code)
      left == IF lcp THEN fromCray[1].segs ELSE IF ends THEN subsegs - 1 ELSE subsegs
      length == IF lcp THEN LcpWords ELSE IF code = "start" THEN n ELSE segSize
  IN  /\ subsegs' = left
      /\ xmt' = [state |-> IF ~ends THEN "seg" ELSE IF left > 0 THEN "segStart" ELSE "lcpStart",
                 words |-> words, code |-> code]
      /\ down' = IF begins
                 THEN Append(down, [lcp |-> lcp, n |-> length, words |-> n,
                                    segs |-> IF lcp THEN left ELSE 0])
                 ELSE [down EXCEPT ![Len(down)].words = @ + n]

(* Tick of the output channel and ProcessFromCrayData: without a           *)
(* connection the words are dropped, on a broken one the write may fail.   *)
OutputTick ==
  /\ ~garbled /\ output.active
  /\ output' = [active |-> FALSE, done |-> TRUE, left |-> 0]
  /\ fromCray' = <<>>
  /\ IF conn = "none" THEN UNCHANGED <<subsegs, xmt, down>> ELSE StartTransmit
  /\ failing' \in {failing} \cup {f \in {failing + 1} : conn = "broken"}
  /\ UNCHANGED <<conn, knock, stream, acceptors, packages, rbuf, rcv, segSize, input, guest,
                 garbled, got, current, bounds>>

-----------------------------------------------------------------------------
(* The station.                                                            *)

(* A package: words that are told apart by the message and their place.    *)
Package(m, place, n, code, segs) ==
  [i \in 1 .. n |-> [id |-> <<m, place, i>>, code |-> code, segs |-> segs, length |-> 0]]

Length(n) == [id |-> <<>>, code |-> "none", segs |-> 0, length |-> n]

(* The packages of a message; the last segment may be a short one.         *)
Message(m, code, segs, short) ==
  <<Package(m, 0, LcpWords, code, segs)>> \o
  [s \in 1 .. segs |-> Package(m, s, IF s = segs THEN short ELSE SegWords, "none", 0)]

(* Each package goes behind its length: last[n] is the stream of the last  *)
(* n packages.                                                             *)
Stream(message) ==
  LET last[n \in 0 .. Len(message)] ==
        IF n = 0 THEN <<>>
        ELSE LET package == message[Len(message) + 1 - n]
             IN  <<Length(Len(package))>> \o package \o last[n - 1]
  IN  last[Len(message)]

(* The reply is complete.                                                  *)
Answered ==
  packages # <<>> =>
    /\ down # <<>>
    /\ \A p \in DOMAIN down :
         down[p].words = down[p].n /\ (down[p].lcp => p + down[p].segs <= Len(down))

Connect ==
  /\ ~knock /\ calls < MaxCalls
  /\ knock' = TRUE /\ calls' = calls + 1
  /\ UNCHANGED <<conn, stream, acceptors, failing, packages, machine, channels, guest, history,
                 msgs, resets>>

(* The first message may be sent before the connection is accepted.  The   *)
(* history is that of the last message and its reply.                      *)
Send(code, segs, short) ==
  /\ msgs < MaxMsgs /\ msgs' = msgs + 1
  /\ code = "logon" <=> packages = <<>>
  /\ IF segs = 0 THEN code = "data" /\ short = SegWords ELSE TRUE
  /\ (conn = "open" /\ Answered) \/ (conn = "none" /\ knock /\ packages = <<>>)
  /\ packages' = Message(msgs, code, segs, short)
  /\ stream' = stream \o Stream(packages')
  /\ IF conn = "open" THEN got' = <<>> /\ down' = <<>> ELSE UNCHANGED <<got, down>>
  /\ UNCHANGED <<conn, knock, acceptors, failing, machine, channels, guest, garbled, current,
                 calls, resets>>

(* The station gives up its connection. *)
Disconnect ==
  /\ conn = "open" /\ conn' = "broken"
  /\ UNCHANGED <<knock, stream, acceptors, failing, packages, machine, channels, guest, history,
                 bounds>>

Next ==
  \/ AcceptHandler \/ AcceptFails \/ ReadHandler \/ ReadFails \/ FailedHandler \/ MasterClear
  \/ InputTick \/ ReadNext \/ AwaitLcp \/ OutputTick \/ Connect \/ Disconnect
  \/ \E code \in {"data", "start"}, segs \in 0 .. MaxSegs : WriteLcp(code, segs)
  \/ \E words \in 1 .. SegWords : WriteSegment(words)
  \/ \E code \in {"data", "logon"}, segs \in 0 .. MaxSegs, short \in 1 .. SegWords :
       Send(code, segs, short)

Spec == Init /\ [][Next]_vars

-----------------------------------------------------------------------------
(* A transfer of the IOP gets exactly one package, the packages come in    *)
(* order and none is left out, however the stream arrives in pieces: the   *)
(* transfer size ends one that would run into the next package and         *)
(* IsReceptionComplete ends a short one (iop_concentrator.cpp:296, :454).  *)
PduPerTransfer ==
  ~garbled /\ conn # "none" =>
    /\ Len(got) <= Len(packages)
    /\ \A p \in DOMAIN got : got[p] = packages[p]
    /\ current # <<>> =>
         /\ Len(got) < Len(packages)
         /\ IsStrictPrefix(current, packages[Len(got) + 1])

(* The station can follow the reply: every length it gets is that of the   *)
(* words that follow it, and an LCP is followed by as many segments as it  *)
(* announced (iop_concentrator.cpp:183-237).                               *)
DownlineFramed ==
  ~garbled /\ conn # "none" =>
    \A p \in DOMAIN down :
      /\ down[p].words <= down[p].n
      /\ p < Len(down) \/ xmt.state # "seg" => down[p].words = down[p].n
      /\ p = 1 => down[p].lcp
      /\ down[p].lcp =>
           \A q \in p + 1 .. Len(down) : q <= p + down[p].segs + 1 =>
             (down[q].lcp <=> q = p + down[p].segs + 1)
=============================================================================

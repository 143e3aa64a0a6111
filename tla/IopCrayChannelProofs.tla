------------------------ MODULE IopCrayChannelProofs ------------------------
(***************************************************************************)
(* Proofs about the channels between the mainframe and an I/O processor,   *)
(* for every number of channels, every size of the memories and every set  *)
(* of windows, addresses and counts the two drivers program.               *)
(***************************************************************************)
EXTENDS IopCrayChannel, TLAPS

-----------------------------------------------------------------------------
(* Type correctness *)

LoopRecord == [at : {"out", "test", "fetch", "store"}, ch : Int, word : Int]

(* A thread outside of DoTransfer has no channel; one inside has one.      *)
LoopOK ==
  /\ loop \in [Threads -> LoopRecord]
  /\ \A t \in Threads : loop[t].at = "out" <=> loop[t] = Idle
  /\ \A t \in Threads : loop[t].at # "out" => loop[t].ch \in Channels

(* An active channel has its address inside the window, and an output      *)
(* channel of the mainframe, which stops at the limit, below it.           *)
WindowOK ==
  \A ch \in Channels :
    active[ch] => /\ addr[ch] <= limit[ch]
                  /\ dir[ch] = "CtoI" => addr[ch] < limit[ch]

TypeInv == TypeOK /\ LoopOK /\ WindowOK

LEMMA WindowType ==
  ASSUME NEW ch \in Channels, NEW w \in Windows[ch]
  PROVE w[1] \in 0 .. MemSize /\ w[2] \in 0 .. MemSize /\ w[1] <= w[2]
BY ChannelAssumption

(* After a word the count is the one before, and 0 comes after IoSize.     *)
LEMMA CountDown ==
  ASSUME NEW n \in 0 .. IoSize - 1
  PROVE /\ (n - 1) % IoSize = Count(n) - 1
        /\ Count(n) \in 1 .. IoSize /\ (n - 1) % IoSize \in 0 .. IoSize - 1
<1>1. IoSize \in Nat \ {0}
  BY ChannelAssumption
<1>2. CASE n = 0
  <2>1. (0 - 1) % IoSize = IoSize - 1
    BY <1>1
  <2> QED
    BY <1>1, <1>2, <2>1 DEF Count
<1>3. CASE n # 0
  <2>1. ASSUME NEW x \in 0 .. IoSize - 1 PROVE x % IoSize = x
    BY <1>1
  <2>2. n - 1 \in 0 .. IoSize - 1
    BY <1>1, <1>3
  <2> QED
    BY <1>1, <1>3, <2>1, <2>2 DEF Count
<1> QED
  BY <1>2, <1>3

LEMMA TypeInit == Init => TypeInv
<1> SUFFICES ASSUME Init PROVE TypeInv
  OBVIOUS
<1>1. LoopOK
  BY DEF Init, LoopOK, LoopRecord, Idle
<1>2. TypeOK
  <2>1. 0 \in 0 .. MemSize /\ 0 \in 0 .. IoSize - 1
    BY ChannelAssumption
  <2> QED
    BY <2>1 DEF Init, TypeOK
<1>3. WindowOK
  BY DEF Init, WindowOK
<1> QED
  BY <1>1, <1>2, <1>3 DEF TypeInv

(* A thread's place in DoTransfer after it went somewhere else.            *)
LEMMA LoopUpdate ==
  ASSUME LoopOK, NEW t \in Threads, NEW r \in LoopRecord, r.at # "out" \/ r = Idle,
         r.at # "out" => r.ch \in Channels, loop' = [loop EXCEPT ![t] = r]
  PROVE LoopOK'
BY DEF LoopOK, LoopRecord, Idle

LEMMA EnterTransferType ==
  ASSUME LoopOK, NEW t \in Threads, NEW ch \in Channels, EnterTransfer(t, ch) PROVE LoopOK'
<1> DEFINE r == [at |-> "test", ch |-> ch, word |-> 0]
<1>1. r \in LoopRecord /\ r.at # "out" /\ r.ch \in Channels
  BY ChannelAssumption DEF LoopRecord
<1> QED
  BY <1>1, LoopUpdate DEF EnterTransfer

(* The channel of a thread that is inside DoTransfer.                      *)
Inside(t, ch) == loop[t].at # "out" /\ ch = loop[t].ch

LEMMA InsideChannel ==
  ASSUME LoopOK, NEW t \in Threads, DoTransfer(t)
  PROVE \E ch \in Channels : Inside(t, ch)
BY DEF DoTransfer, TestLoop, FetchCtoI, FetchItoC, StoreCtoI, StoreItoC, LoopOK, Inside

LEMMA LoopStep ==
  ASSUME TypeOK, LoopOK, [Next]_vars PROVE LoopOK'
<1>1. CASE UNCHANGED loop
  BY <1>1 DEF LoopOK
<1>2. ASSUME NEW ch \in Channels, NEW t \in Threads, EnterTransfer(t, ch) PROVE LoopOK'
  BY <1>2, EnterTransferType
<1>3. CASE OperatingSystem
  BY <1>1, <1>2, <1>3
  DEF OperatingSystem, TakeInterrupt, ClearInterrupt, EndService, MC, SetLimit, SetAddress,
      HandleActivation, Threads
<1>4. CASE Iop
  BY <1>1, <1>2, <1>4 DEF Iop, MasterClear, DoIo0, DoIo1, DoIo2, DoIo4CtoI, DoIo4ItoC, Threads
<1>5. ASSUME NEW t \in Threads, DoTransfer(t) PROVE LoopOK'
  <2>1. PICK ch \in Channels : Inside(t, ch)
    BY <1>5, InsideChannel
  <2>2. CASE Fail
    BY <2>2, <1>1 DEF Fail
  <2>3. CASE TestLoop(t) /\ ~Fail
    <3>1. \/ loop' = [loop EXCEPT ![t] = Idle]
          \/ loop' = [loop EXCEPT ![t] = [loop[t] EXCEPT !.at = "fetch"]]
      BY <2>3 DEF TestLoop
    <3>2. /\ Idle \in LoopRecord /\ Idle.at = "out"
          /\ [loop[t] EXCEPT !.at = "fetch"] \in LoopRecord
          /\ [loop[t] EXCEPT !.at = "fetch"].at = "fetch"
          /\ [loop[t] EXCEPT !.at = "fetch"].ch = ch
      BY <2>1 DEF LoopOK, LoopRecord, Idle, Inside
    <3> QED
      BY <3>1, <3>2, LoopUpdate
  <2>4. CASE (FetchCtoI(t) \/ FetchItoC(t)) /\ ~Fail
    <3>1. PICK w \in {addr[ch], ioAddr[ch]} :
            loop' = [loop EXCEPT ![t] = [[loop[t] EXCEPT !.at = "store"] EXCEPT !.word = w]]
      BY <2>1, <2>4 DEF FetchCtoI, FetchItoC, GetData, Inside
    <3>2. w \in Int
      BY ChannelAssumption DEF TypeOK
    <3> DEFINE r == [[loop[t] EXCEPT !.at = "store"] EXCEPT !.word = w]
    <3>3. r \in LoopRecord /\ r.at = "store" /\ r.ch = ch
      BY <2>1, <3>2 DEF LoopOK, LoopRecord, Inside
    <3> QED
      BY <3>1, <3>3, LoopUpdate
  <2>5. CASE (StoreCtoI(t) \/ StoreItoC(t)) /\ ~Fail
    <3>1. EnterTransfer(t, ch)
      BY <2>1, <2>5 DEF StoreCtoI, StoreItoC, Advance, EnterTransfer, Inside
    <3> QED
      BY <3>1, <1>2
  <2> QED
    BY <1>5, <2>2, <2>3, <2>4, <2>5 DEF DoTransfer
<1> QED
  BY <1>1, <1>3, <1>4, <1>5 DEF Next, vars

(* What the steps that move no word do to the registers. *)
LEMMA OperatingSystemType ==
  ASSUME TypeOK, WindowOK, OperatingSystem PROVE TypeOK' /\ WindowOK'
<1> USE DEF TypeOK, WindowOK, mfVars, iopVars, cpuVars
<1>1. CASE TakeInterrupt \/ ClearInterrupt \/ EndService
  BY <1>1 DEF TakeInterrupt, ClearInterrupt, EndService, PendingChannels
<1>2. ASSUME NEW ch \in Channels, MC(ch) PROVE TypeOK' /\ WindowOK'
  <2>1. 0 \in 0 .. MemSize
    BY ChannelAssumption
  <2>2. ioi' \in BOOLEAN
    BY <1>2 DEF MC
  <2> QED
    BY <1>2, <2>1, <2>2 DEF MC, MainframeSideMasterClear
<1>3. ASSUME NEW ch \in Channels, NEW w \in Windows[ch], SetLimit(ch, w[2])
      PROVE TypeOK' /\ WindowOK'
  <2>1. w[2] \in 0 .. MemSize
    BY WindowType
  <2> QED
    BY <1>3, <2>1 DEF SetLimit
<1>4. ASSUME NEW ch \in Channels, NEW w \in Windows[ch], SetAddress(ch, w[1])
      PROVE TypeOK' /\ WindowOK'
  <2> DEFINE a == w[1]
  <2>1. a \in 0 .. MemSize /\ <<a, limit[ch]>> \in Windows[ch]
    BY <1>4, WindowType DEF SetAddress
  <2>2. a <= limit[ch]
    BY <2>1, WindowType
  <2> HIDE DEF a
  <2>3. SetAddress(ch, a)
    BY <1>4 DEF a
  <2>4. /\ addr' = [addr EXCEPT ![ch] = a] /\ active' = [active EXCEPT ![ch] = a # limit[ch]]
        /\ UNCHANGED <<limit, pending, busy, done, hold, ioAddr, size, ioMc, cpuVars, asserted, dir>>
    BY <2>3 DEF SetAddress
  <2>5. ready' \in [Channels -> BOOLEAN]
    BY <2>3 DEF SetAddress
  <2>6. a # limit[ch] => a < limit[ch]
    BY <2>1, <2>2, ChannelAssumption
  <2>7. TypeOK'
    BY <2>1, <2>4, <2>5
  <2>8. WindowOK'
    <3> SUFFICES ASSUME NEW x \in Channels, active'[x]
                 PROVE addr'[x] <= limit'[x] /\ (dir'[x] = "CtoI" => addr'[x] < limit'[x])
      OBVIOUS
    <3>1. CASE x = ch
      BY <3>1, <2>4, <2>2, <2>6
    <3>2. CASE x # ch
      BY <3>2, <2>4
    <3> QED
      BY <3>1, <3>2
  <2> QED
    BY <2>7, <2>8
<1> QED
  BY <1>1, <1>2, <1>3, <1>4 DEF OperatingSystem

LEMMA IopType ==
  ASSUME TypeOK, WindowOK, Iop PROVE TypeOK' /\ WindowOK'
<1> USE DEF TypeOK, WindowOK, mfVars, iopVars, cpuVars
<1>1. ASSUME NEW ch \in Channels, DoIo0(ch) \/ DoIo4CtoI(ch) PROVE TypeOK' /\ WindowOK'
  BY <1>1 DEF DoIo0, DoIo4CtoI
<1>2. ASSUME NEW ch \in Channels, NEW a \in IoAddrs, DoIo1(ch, a) PROVE TypeOK' /\ WindowOK'
  <2>1. a \in 0 .. IoSize - 1
    BY ChannelAssumption
  <2> QED
    BY <1>2, <2>1 DEF DoIo1
<1>3. ASSUME NEW ch \in Channels, NEW n \in Sizes, DoIo2(ch, n) PROVE TypeOK' /\ WindowOK'
  <2>1. n \in 0 .. IoSize - 1
    BY ChannelAssumption
  <2> QED
    BY <1>3, <2>1 DEF DoIo2
<1>4. ASSUME NEW ch \in Channels, NEW d \in BOOLEAN, NEW h \in BOOLEAN, NEW mc \in BOOLEAN,
             DoIo4ItoC(ch, d, h, mc)
      PROVE TypeOK' /\ WindowOK'
  <2> DEFINE cleared == IF ioMc /\ ~mc THEN Channels ELSE {}
             raised == IF d THEN {ch} ELSE {}
  <2>1. /\ addr' = [x \in Channels |-> IF x \in cleared THEN 0 ELSE addr[x]]
        /\ limit' = [x \in Channels |-> IF x \in cleared THEN 0 ELSE limit[x]]
        /\ active' = [x \in Channels |-> active[x] /\ x \notin cleared \cup raised]
        /\ pending' = [x \in Channels |-> (pending[x] \/ x \in raised) /\ x \notin cleared]
        /\ ioi' = (ioi \/ \E x \in raised : ~pending[x])
    BY <1>4 DEF DoIo4ItoC
  <2> HIDE DEF cleared, raised
  <2>2. 0 \in 0 .. MemSize
    BY ChannelAssumption
  <2>3. /\ addr' \in [Channels -> 0 .. MemSize] /\ limit' \in [Channels -> 0 .. MemSize]
        /\ active' \in [Channels -> BOOLEAN] /\ pending' \in [Channels -> BOOLEAN]
        /\ ioi' \in BOOLEAN
    BY <2>1, <2>2
  <2>4. /\ hold' \in [Channels -> BOOLEAN] /\ ioMc' \in BOOLEAN
        /\ UNCHANGED <<busy, done, ready, ioAddr, size, serving, asserted, dir>>
    BY <1>4 DEF DoIo4ItoC
  <2>5. WindowOK'
    BY <2>1, <2>4
  <2> QED
    BY <2>3, <2>4, <2>5
<1>5. CASE MasterClear
  <2>1. 0 \in 0 .. IoSize - 1
    BY ChannelAssumption
  <2> QED
    BY <1>5, <2>1 DEF MasterClear
<1> QED
  BY <1>1, <1>2, <1>3, <1>4, <1>5 DEF Iop

LEMMA DoTransferType ==
  ASSUME TypeInv, NEW t \in Threads, DoTransfer(t) PROVE TypeOK' /\ WindowOK'
<1> USE DEF TypeInv, TypeOK, WindowOK, mfVars, iopVars, cpuVars
<1>1. PICK ch \in Channels : Inside(t, ch)
  BY InsideChannel
<1>2. CASE Fail
  BY <1>2 DEF Fail
<1>3. CASE (TestLoop(t) \/ FetchItoC(t)) /\ ~Fail
  BY <1>3 DEF TestLoop, FetchItoC
<1>4. CASE FetchCtoI(t) /\ ~Fail
  <2>1. GetData(t) /\ active[ch] /\ addr[ch] # limit[ch]
    BY <1>1, <1>4 DEF FetchCtoI, Inside
  <2>2. /\ addr' = [addr EXCEPT ![ch] = @ + 1]
        /\ \/ addr[ch] + 1 = limit[ch] /\ active' = [active EXCEPT ![ch] = FALSE]
           \/ addr[ch] + 1 # limit[ch] /\ active' = active
        /\ pending' \in [Channels -> BOOLEAN] /\ ioi' \in BOOLEAN
        /\ UNCHANGED <<limit, iopVars, ioMc, serving, asserted, dir>>
    BY <1>1, <2>1 DEF GetData, UsedUp, SetInterrupt, Inside
  <2>3. addr[ch] + 1 <= limit[ch] /\ addr[ch] + 1 \in 0 .. MemSize
    BY <2>1, ChannelAssumption
  <2>4. addr' \in [Channels -> 0 .. MemSize] /\ active' \in [Channels -> BOOLEAN]
    BY <2>2, <2>3
  <2>5. WindowOK'
    <3> SUFFICES ASSUME NEW x \in Channels, active'[x]
                 PROVE addr'[x] <= limit'[x] /\ (dir'[x] = "CtoI" => addr'[x] < limit'[x])
      OBVIOUS
    <3>1. CASE x = ch
      BY <3>1, <2>2, <2>3, ChannelAssumption
    <3>2. CASE x # ch
      BY <3>2, <2>2
    <3> QED
      BY <3>1, <3>2
  <2> QED
    BY <2>2, <2>4, <2>5
<1>5. CASE (StoreCtoI(t) \/ StoreItoC(t)) /\ ~Fail
  <2>1. /\ ioAddr' = [ioAddr EXCEPT ![ch] = NextIoAddr(@)]
        /\ size' = [size EXCEPT ![ch] = (size[ch] - 1) % IoSize]
        /\ busy' = [busy EXCEPT ![ch] = @ /\ (size[ch] - 1) % IoSize # 0]
        /\ done' = [done EXCEPT ![ch] = @ \/ (size[ch] - 1) % IoSize = 0]
        /\ UNCHANGED <<limit, ready, hold, ioMc, serving, asserted, dir>>
    BY <1>1, <1>5 DEF StoreCtoI, StoreItoC, Advance, Inside
  <2>2. NextIoAddr(ioAddr[ch]) \in 0 .. IoSize - 1
    BY ChannelAssumption DEF NextIoAddr
  <2>3. (size[ch] - 1) % IoSize \in 0 .. IoSize - 1
    BY CountDown
  <2>4. /\ ioAddr' \in [Channels -> 0 .. IoSize - 1] /\ size' \in [Channels -> 0 .. IoSize - 1]
        /\ busy' \in [Channels -> BOOLEAN] /\ done' \in [Channels -> BOOLEAN]
    BY <2>1, <2>2, <2>3
  <2>5. CASE StoreCtoI(t)
    BY <2>1, <2>4, <2>5 DEF StoreCtoI
  <2>6. CASE StoreItoC(t) /\ ~Fail
    <3>1. /\ dir[ch] = "ItoC" /\ active[ch] /\ addr[ch] # limit[ch]
          /\ addr' = [addr EXCEPT ![ch] = @ + 1]
          /\ \/ pending' = [pending EXCEPT ![ch] = TRUE] /\ ioi' = (ioi \/ ~pending[ch])
                /\ active' = [active EXCEPT ![ch] = FALSE]
             \/ UNCHANGED <<pending, ioi, active>>
      BY <1>1, <2>6 DEF StoreItoC, SetInterrupt, Inside
    <3>2. addr[ch] + 1 <= limit[ch] /\ addr[ch] + 1 \in 0 .. MemSize
      BY <3>1, ChannelAssumption
    <3>3. /\ addr' \in [Channels -> 0 .. MemSize] /\ active' \in [Channels -> BOOLEAN]
          /\ pending' \in [Channels -> BOOLEAN] /\ ioi' \in BOOLEAN
      BY <3>1, <3>2
    <3>4. WindowOK'
      <4> SUFFICES ASSUME NEW x \in Channels, active'[x]
                   PROVE addr'[x] <= limit'[x] /\ (dir'[x] = "CtoI" => addr'[x] < limit'[x])
        OBVIOUS
      <4>1. CASE x = ch
        BY <4>1, <2>1, <3>1, <3>2
      <4>2. CASE x # ch
        BY <4>2, <2>1, <3>1
      <4> QED
        BY <4>1, <4>2
    <3> QED
      BY <2>1, <2>4, <3>3, <3>4
  <2> QED
    BY <1>5, <2>5, <2>6
<1> QED
  BY <1>2, <1>3, <1>4, <1>5 DEF DoTransfer

LEMMA TypeStep == ASSUME TypeInv, [Next]_vars PROVE TypeInv'
<1>1. CASE UNCHANGED vars
  BY <1>1 DEF vars, mfVars, iopVars, cpuVars, history, TypeInv, TypeOK, LoopOK, WindowOK
<1> QED
  BY <1>1, LoopStep, OperatingSystemType, IopType, DoTransferType DEF Next, TypeInv

LEMMA TypeInvCorrect == Spec => []TypeInv
<1>1. TypeInv /\ [Next]_vars => TypeInv'
  BY TypeStep
<1> QED
  BY <1>1, TypeInit, PTL DEF Spec

(* The registers of both halves keep their ranges in every build, also     *)
(* when the two threads interleave inside DoTransfer: the address never    *)
(* leaves central memory, and the address and the count of the IOP wrap.   *)
THEOREM TypeCorrect == Spec => []TypeOK
<1>1. TypeInv => TypeOK
  BY DEF TypeInv
<1> QED
  BY <1>1, TypeInvCorrect, PTL

-----------------------------------------------------------------------------
(* No transfer stalls, in every build *)

(* A channel with both halves primed has a thread in DoTransfer.  The      *)
(* property is about the states in which no thread is; this one says why   *)
(* it holds: the last of SetActive and DoIo to come enters the loop, and   *)
(* a thread leaves it only when one of the halves is no longer primed.     *)
Served(ch) == \E t \in Threads : loop[t].at # "out" /\ loop[t].ch = ch
PrimedServed == \A ch \in Channels : active[ch] /\ busy[ch] => Served(ch)

(* A step that primes nothing and leaves the threads where they are. *)
LEMMA ServedAsBefore ==
  ASSUME PrimedServed, UNCHANGED loop,
         \A ch \in Channels : active'[ch] /\ busy'[ch] => active[ch] /\ busy[ch]
  PROVE PrimedServed'
BY DEF PrimedServed, Served

(* A thread, which was outside or on the same channel, enters DoTransfer. *)
LEMMA ServedByEntering ==
  ASSUME PrimedServed, LoopOK, NEW t \in Threads, NEW ch \in Channels, EnterTransfer(t, ch),
         loop[t] = Idle \/ loop[t].ch = ch,
         \A x \in Channels \ {ch} : active'[x] /\ busy'[x] => active[x] /\ busy[x]
  PROVE PrimedServed'
<1>1. ASSUME NEW u \in Threads \ {t} PROVE loop'[u] = loop[u]
  BY DEF EnterTransfer, LoopOK
<1>2. loop'[t].at = "test" /\ loop'[t].ch = ch
  BY DEF EnterTransfer, LoopOK
<1>3. ASSUME NEW x \in Channels, active'[x], busy'[x]
      PROVE \E u \in Threads : loop'[u].at # "out" /\ loop'[u].ch = x
  <2>1. CASE x = ch
    BY <2>1, <1>2
  <2>2. CASE x # ch
    <3>1. PICK u \in Threads : loop[u].at # "out" /\ loop[u].ch = x
      BY <2>2, <1>3 DEF PrimedServed, Served
    <3>2. u # t
      BY <3>1, <2>2 DEF Idle
    <3> QED
      BY <3>1, <3>2, <1>1
  <2> QED
    BY <2>1, <2>2
<1> QED
  BY <1>3 DEF PrimedServed, Served

(* One thread moves on inside DoTransfer, on its channel. *)
LEMMA ServedByMoving ==
  ASSUME PrimedServed, LoopOK, NEW t \in Threads, NEW r, loop' = [loop EXCEPT ![t] = r],
         r.at # "out", r.ch = loop[t].ch,
         \A ch \in Channels : active'[ch] /\ busy'[ch] => active[ch] /\ busy[ch]
  PROVE PrimedServed'
<1>1. loop'[t] = r /\ \A u \in Threads \ {t} : loop'[u] = loop[u]
  BY DEF LoopOK
<1>2. ASSUME NEW x \in Channels, active'[x], busy'[x]
      PROVE \E u \in Threads : loop'[u].at # "out" /\ loop'[u].ch = x
  <2>1. PICK u \in Threads : loop[u].at # "out" /\ loop[u].ch = x
    BY <1>2 DEF PrimedServed, Served
  <2> QED
    BY <1>1, <2>1
<1> QED
  BY <1>2 DEF PrimedServed, Served

LEMMA OperatingSystemServed ==
  ASSUME TypeInv, PrimedServed, OperatingSystem PROVE PrimedServed'
<1> USE DEF TypeInv, TypeOK, mfVars, iopVars, cpuVars
<1>1. CASE TakeInterrupt \/ ClearInterrupt \/ EndService
  BY <1>1, ServedAsBefore DEF TakeInterrupt, ClearInterrupt, EndService
<1>2. ASSUME NEW ch \in Channels, MC(ch) PROVE PrimedServed'
  BY <1>2, ServedAsBefore DEF MC, MainframeSideMasterClear
<1>3. ASSUME NEW ch \in Channels, NEW w \in Windows[ch], SetLimit(ch, w[2]) PROVE PrimedServed'
  BY <1>3, ServedAsBefore DEF SetLimit
<1>4. ASSUME NEW ch \in Channels, NEW w \in Windows[ch], SetAddress(ch, w[1]) PROVE PrimedServed'
  <2> DEFINE a == w[1]
  <2> HIDE DEF a
  <2>1. SetAddress(ch, a)
    BY <1>4 DEF a
  <2>2. active' = [active EXCEPT ![ch] = a # limit[ch]] /\ busy' = busy
        /\ loop["cpu"] = Idle
    BY <2>1 DEF SetAddress, Free
  <2>3. CASE a # limit[ch] /\ ~active[ch]
    <3>1. EnterTransfer("cpu", ch)
      BY <2>1, <2>3 DEF SetAddress, HandleActivation
    <3> QED
      BY <2>2, <3>1, ServedByEntering DEF Threads
  <2>4. CASE ~(a # limit[ch] /\ ~active[ch])
    <3>1. UNCHANGED loop
      BY <2>1, <2>4 DEF SetAddress, HandleActivation
    <3> QED
      BY <2>2, <2>4, <3>1, ServedAsBefore
  <2> QED
    BY <2>3, <2>4
<1> QED
  BY <1>1, <1>2, <1>3, <1>4 DEF OperatingSystem

LEMMA IopServed == ASSUME TypeInv, PrimedServed, Iop PROVE PrimedServed'
<1> USE DEF TypeInv, TypeOK, mfVars, iopVars, cpuVars
<1>1. ASSUME NEW ch \in Channels, DoIo0(ch) \/ DoIo4CtoI(ch) PROVE PrimedServed'
  BY <1>1, ServedAsBefore DEF DoIo0, DoIo4CtoI
<1>2. ASSUME NEW ch \in Channels, NEW a \in IoAddrs, DoIo1(ch, a) PROVE PrimedServed'
  BY <1>2, ServedByEntering DEF DoIo1, Free, Threads
<1>3. ASSUME NEW ch \in Channels, NEW n \in Sizes, DoIo2(ch, n) PROVE PrimedServed'
  BY <1>3, ServedAsBefore DEF DoIo2
<1>4. ASSUME NEW ch \in Channels, NEW d \in BOOLEAN, NEW h \in BOOLEAN, NEW mc \in BOOLEAN,
             DoIo4ItoC(ch, d, h, mc)
      PROVE PrimedServed'
  BY <1>4, ServedAsBefore DEF DoIo4ItoC
<1>5. CASE MasterClear
  BY <1>5, ServedAsBefore DEF MasterClear
<1> QED
  BY <1>1, <1>2, <1>3, <1>4, <1>5 DEF Iop

LEMMA WordRecord ==
  ASSUME NEW r \in LoopRecord, NEW w \in Int
  PROVE [[r EXCEPT !.at = "store"] EXCEPT !.word = w] = [at |-> "store", ch |-> r.ch, word |-> w]
<1> DEFINE q == [[r EXCEPT !.at = "store"] EXCEPT !.word = w]
<1>1. q \in LoopRecord /\ q.at = "store" /\ q.ch = r.ch /\ q.word = w
  BY DEF LoopRecord
<1> HIDE DEF q
<1>2. q = [at |-> "store", ch |-> r.ch, word |-> w]
  BY <1>1 DEF LoopRecord
<1> QED
  BY <1>2 DEF q

(* What the fetch of a word from central memory does. *)
LEMMA FetchEffect ==
  ASSUME TypeInv, NEW t \in Threads, NEW ch \in Channels, Inside(t, ch),
         FetchCtoI(t), ~Fail
  PROVE /\ dir[ch] = "CtoI" /\ active[ch] /\ addr[ch] # limit[ch] /\ loop[t].at = "fetch"
        /\ addr' = [addr EXCEPT ![ch] = @ + 1]
        /\ \/ /\ addr[ch] + 1 = limit[ch]
              /\ active' = [active EXCEPT ![ch] = FALSE]
              /\ pending' = [pending EXCEPT ![ch] = TRUE]
              /\ ioi' = (ioi \/ ~pending[ch])
           \/ addr[ch] + 1 # limit[ch] /\ UNCHANGED <<active, pending, ioi>>
        /\ loop' = [loop EXCEPT ![t] = [at |-> "store", ch |-> ch, word |-> addr[ch]]]
        /\ UNCHANGED <<limit, iopVars, ioMc, serving, history, asserted, dir>>
<1>1. GetData(t) /\ dir[ch] = "CtoI" /\ active[ch] /\ addr[ch] # limit[ch] /\ loop[t].at = "fetch"
  BY DEF FetchCtoI, Inside
<1>2. [[loop[t] EXCEPT !.at = "store"] EXCEPT !.word = addr[ch]]
        = [at |-> "store", ch |-> ch, word |-> addr[ch]]
  <2>1. loop[t] \in LoopRecord /\ loop[t].ch = ch /\ addr[ch] \in Int
    BY ChannelAssumption DEF TypeInv, TypeOK, LoopOK, Inside
  <2> QED
    BY <2>1, WordRecord
<1>3. loop' = [loop EXCEPT ![t] = [[loop[t] EXCEPT !.at = "store"] EXCEPT !.word = addr[ch]]]
  BY <1>1 DEF GetData, Inside, TypeInv, LoopOK
<1> QED
  BY <1>1, <1>2, <1>3 DEF GetData, UsedUp, SetInterrupt, Inside

(* What the store of a word does to the half of the IOP, ... *)
LEMMA StoreEffect ==
  ASSUME NEW t \in Threads, NEW ch \in Channels, Inside(t, ch),
         StoreCtoI(t) \/ StoreItoC(t), ~Fail
  PROVE /\ ioAddr' = [ioAddr EXCEPT ![ch] = NextIoAddr(@)]
        /\ size' = [size EXCEPT ![ch] = (size[ch] - 1) % IoSize]
        /\ busy' = [busy EXCEPT ![ch] = @ /\ (size[ch] - 1) % IoSize # 0]
        /\ done' = [done EXCEPT ![ch] = @ \/ (size[ch] - 1) % IoSize = 0]
        /\ EnterTransfer(t, ch)
        /\ loop[t].at = "store"
        /\ UNCHANGED <<limit, ready, hold, ioMc, serving, base, asserted, dir>>
BY DEF StoreCtoI, StoreItoC, Advance, Inside, EnterTransfer

(* ... and what it does to the half of the mainframe when it stores there. *)
LEMMA StoreItoCEffect ==
  ASSUME NEW t \in Threads, NEW ch \in Channels, Inside(t, ch), StoreItoC(t), ~Fail
  PROVE /\ dir[ch] = "ItoC" /\ active[ch] /\ addr[ch] # limit[ch]
        /\ addr' = [addr EXCEPT ![ch] = @ + 1]
        /\ moved' = [moved EXCEPT ![ch] = Append(@, [c |-> addr[ch], i |-> loop[t].word])]
        /\ \/ /\ pending' = [pending EXCEPT ![ch] = TRUE]
              /\ ioi' = (ioi \/ ~pending[ch])
              /\ active' = [active EXCEPT ![ch] = FALSE]
           \/ UNCHANGED <<pending, ioi, active>>
BY DEF StoreItoC, SetInterrupt, Inside

LEMMA DoTransferServed ==
  ASSUME TypeInv, PrimedServed, NEW t \in Threads, DoTransfer(t) PROVE PrimedServed'
<1> USE DEF TypeInv, TypeOK, mfVars, iopVars, cpuVars
<1>1. PICK ch \in Channels : Inside(t, ch)
  BY InsideChannel
<1>2. CASE Fail
  BY <1>2, ServedAsBefore DEF Fail
<1>3. CASE TestLoop(t) /\ ~Fail
  <2>1. UNCHANGED <<active, busy>>
    BY <1>3 DEF TestLoop
  <2>2. CASE ~(busy[ch] /\ active[ch])
    <3>1. loop' = [loop EXCEPT ![t] = Idle]
      BY <1>1, <1>3, <2>2 DEF TestLoop, Inside
    <3>2. \A u \in Threads \ {t} : loop'[u] = loop[u]
      BY <3>1 DEF LoopOK
    <3>3. ASSUME NEW x \in Channels, active'[x], busy'[x]
          PROVE \E u \in Threads : loop'[u].at # "out" /\ loop'[u].ch = x
      <4>1. PICK u \in Threads : loop[u].at # "out" /\ loop[u].ch = x
        BY <2>1, <3>3 DEF PrimedServed, Served
      <4>2. u # t
        BY <1>1, <2>1, <2>2, <3>3, <4>1 DEF Inside
      <4> QED
        BY <4>1, <4>2, <3>2
    <3> QED
      BY <3>3 DEF PrimedServed, Served
  <2>3. CASE busy[ch] /\ active[ch]
    <3>1. loop' = [loop EXCEPT ![t] = [loop[t] EXCEPT !.at = "fetch"]]
      BY <1>1, <1>3, <2>3 DEF TestLoop, Inside
    <3>2. [loop[t] EXCEPT !.at = "fetch"].at = "fetch"
          /\ [loop[t] EXCEPT !.at = "fetch"].ch = loop[t].ch
      BY DEF LoopOK, LoopRecord
    <3> QED
      BY <2>1, <3>1, <3>2, ServedByMoving
  <2> QED
    BY <2>2, <2>3
<1>4. CASE FetchCtoI(t) /\ ~Fail
  <2> DEFINE r == [at |-> "store", ch |-> ch, word |-> addr[ch]]
  <2>1. loop' = [loop EXCEPT ![t] = r] /\ r.at # "out" /\ r.ch = loop[t].ch
    BY <1>1, <1>4, FetchEffect DEF Inside
  <2>2. \A x \in Channels : active'[x] /\ busy'[x] => active[x] /\ busy[x]
    BY <1>1, <1>4, FetchEffect
  <2> QED
    BY <2>1, <2>2, ServedByMoving
<1>5. CASE FetchItoC(t) /\ ~Fail
  <2> DEFINE r == [[loop[t] EXCEPT !.at = "store"] EXCEPT !.word = ioAddr[ch]]
  <2>1. loop' = [loop EXCEPT ![t] = r] /\ UNCHANGED <<active, busy>>
    BY <1>1, <1>5 DEF FetchItoC, Inside, LoopOK
  <2>2. r.at # "out" /\ r.ch = loop[t].ch
    BY DEF LoopOK, LoopRecord
  <2> QED
    BY <2>1, <2>2, ServedByMoving
<1>6. CASE (StoreCtoI(t) \/ StoreItoC(t)) /\ ~Fail
  <2>1. EnterTransfer(t, ch) /\ loop[t].ch = ch
        /\ busy' = [busy EXCEPT ![ch] = @ /\ (size[ch] - 1) % IoSize # 0]
    BY <1>1, <1>6, StoreEffect DEF Inside
  <2>2. \A x \in Channels : active'[x] => active[x]
    BY <1>1, <1>6, StoreItoCEffect DEF StoreCtoI
  <2> QED
    BY <2>1, <2>2, ServedByEntering
<1> QED
  BY <1>2, <1>3, <1>4, <1>5, <1>6 DEF DoTransfer

LEMMA ServedInit == Init => PrimedServed
BY DEF Init, PrimedServed

LEMMA ServedStep == ASSUME TypeInv, PrimedServed, [Next]_vars PROVE PrimedServed'
<1>1. CASE UNCHANGED vars
  BY <1>1, ServedAsBefore DEF vars, mfVars, iopVars
<1> QED
  BY <1>1, OperatingSystemServed, IopServed, DoTransferServed DEF Next

(* No channel stalls with both halves primed, neither in a single-threaded *)
(* build nor when the two threads race, whatever the drivers program.      *)
THEOREM NothingStalls == Spec => []NoStalledTransfer
<1>1. TypeInv /\ PrimedServed => NoStalledTransfer
  <2>1. Idle.at = "out"
    BY DEF Idle
  <2> QED
    BY <2>1 DEF PrimedServed, Served, NoStalledTransfer
<1>2. TypeInv /\ PrimedServed /\ [Next]_vars => PrimedServed'
  BY ServedStep
<1> QED
  BY <1>1, <1>2, ServedInit, TypeInvCorrect, PTL DEF Spec

-----------------------------------------------------------------------------
(* No channel interrupt is stuck *)

LEMMA InterruptStep ==
  ASSUME ~McAnywhere, TypeInv, InterruptNotStuck, [Next]_vars PROVE InterruptNotStuck'
<1> USE DEF TypeInv, TypeOK, InterruptNotStuck, mfVars, iopVars, cpuVars
<1>1. CASE UNCHANGED <<pending, ioi, serving>>
  BY <1>1
<1>2. CASE OperatingSystem
  BY <1>1, <1>2
  DEF OperatingSystem, TakeInterrupt, ClearInterrupt, EndService, PendingChannels, MC,
      MainframeSideMasterClear, SetLimit, SetAddress
<1>3. CASE Iop
  <2>1. ASSUME NEW ch \in Channels, NEW d \in BOOLEAN, NEW h \in BOOLEAN, NEW mc \in BOOLEAN,
               DoIo4ItoC(ch, d, h, mc)
        PROVE InterruptNotStuck'
    BY <2>1 DEF DoIo4ItoC
  <2> QED
    BY <1>1, <1>3, <2>1 DEF Iop, MasterClear, DoIo0, DoIo1, DoIo2, DoIo4CtoI
<1>4. ASSUME NEW t \in Threads, DoTransfer(t) PROVE InterruptNotStuck'
  <2>1. PICK ch \in Channels : Inside(t, ch)
    BY <1>4, InsideChannel
  <2>2. CASE Fail \/ TestLoop(t) \/ FetchItoC(t) \/ StoreCtoI(t)
    BY <2>2, <1>1 DEF Fail, TestLoop, FetchItoC, StoreCtoI, Advance
  <2>3. CASE FetchCtoI(t) /\ ~Fail
    BY <2>1, <2>3, FetchEffect
  <2>4. CASE StoreItoC(t) /\ ~Fail
    <3>1. UNCHANGED serving
      BY <2>1, <2>4, StoreEffect
    <3>2. \/ pending' = [pending EXCEPT ![ch] = TRUE] /\ ioi' = (ioi \/ ~pending[ch])
          \/ UNCHANGED <<pending, ioi>>
      BY <2>1, <2>4, StoreItoCEffect
    <3> QED
      BY <3>1, <3>2
  <2> QED
    BY <1>4, <2>2, <2>3, <2>4 DEF DoTransfer
<1> QED
  BY <1>1, <1>2, <1>3, <1>4 DEF Next, vars

(* While the operating system issues MC only in its interrupt service, no  *)
(* channel interrupt is stuck, whichever channels complete or disconnect   *)
(* together and however the threads interleave.                            *)
THEOREM InterruptsGetThrough ==
  ASSUME ~McAnywhere PROVE Spec => []InterruptNotStuck
<1>1. Init => InterruptNotStuck
  BY DEF Init, InterruptNotStuck
<1>2. TypeInv /\ InterruptNotStuck /\ [Next]_vars => InterruptNotStuck'
  BY InterruptStep
<1> QED
  BY <1>1, <1>2, TypeInvCorrect, PTL DEF Spec

-----------------------------------------------------------------------------
(* The single-threaded build: no assertion fails *)

(* Only one thread is in DoTransfer, ... *)
OneThread ==
  \A t, u \in Threads : loop[t].at # "out" /\ loop[u].at # "out" => t = u

(* ... the half of the IOP is not both primed and done, and an output      *)
(* channel has room for the rest of its count, ...                         *)
HalvesOK ==
  \A ch \in Channels : busy[ch] =>
    /\ ~done[ch]
    /\ active[ch] => Room(ch, size[ch], addr[ch], limit[ch])

(* ... and from the test of the loop to the end of the word both halves    *)
(* stay primed; the fetch of the last word of a window takes the           *)
(* mainframe's half away.                                                  *)
WordOK ==
  \A t \in Threads : \A ch \in Channels :
    /\ loop[t].at = "fetch" /\ ch = loop[t].ch => busy[ch] /\ active[ch]
    /\ loop[t].at = "store" /\ ch = loop[t].ch => busy[ch] /\ (dir[ch] = "ItoC" => active[ch])

SingleInv == TypeInv /\ OneThread /\ HalvesOK /\ WordOK /\ ~asserted

(* A handler starts while no thread is in DoTransfer, and none is beyond   *)
(* the loop condition after it.                                            *)
LEMMA HandlersOutside ==
  ASSUME ~MultiThreaded, TypeInv, OperatingSystem \/ Iop
  PROVE /\ \A t \in Threads : loop[t] = Idle /\ loop'[t].at \notin {"fetch", "store"}
        /\ \/ UNCHANGED loop
           \/ \E t \in Threads : \E ch \in Channels : EnterTransfer(t, ch)
<1>1. \A t \in Threads : loop[t] = Idle
  BY DEF OperatingSystem, Iop, TakeInterrupt, ClearInterrupt, EndService, MC, SetLimit, SetAddress,
         MasterClear, DoIo0, DoIo1, DoIo2, DoIo4CtoI, DoIo4ItoC, Free
<1>2. \/ UNCHANGED loop
      \/ \E t \in Threads : \E ch \in Channels : EnterTransfer(t, ch)
  BY DEF OperatingSystem, Iop, TakeInterrupt, ClearInterrupt, EndService, MC, SetLimit, SetAddress,
         HandleActivation, MasterClear, DoIo0, DoIo1, DoIo2, DoIo4CtoI, DoIo4ItoC, Threads
<1>3. Idle.at = "out"
  BY DEF Idle
<1> QED
  BY <1>1, <1>2, <1>3 DEF EnterTransfer, TypeInv, LoopOK

(* Inside DoTransfer only the record of its own thread changes. *)
LEMMA OwnRecord ==
  ASSUME TypeInv, NEW t \in Threads, DoTransfer(t)
  PROVE /\ loop[t].at # "out"
        /\ \A u \in Threads \ {t} : loop'[u] = loop[u]
<1>1. loop[t].at # "out"
  BY DEF DoTransfer, TestLoop, FetchCtoI, FetchItoC, StoreCtoI, StoreItoC
<1>2. PICK ch \in Channels : Inside(t, ch)
  BY InsideChannel DEF TypeInv
<1>3. UNCHANGED loop \/ \E r \in LoopRecord \cup {[loop[t] EXCEPT !.at = "fetch"],
         [[loop[t] EXCEPT !.at = "store"] EXCEPT !.word = ioAddr[ch]]} : loop' = [loop EXCEPT ![t] = r]
  <2>1. CASE Fail
    BY <2>1 DEF Fail
  <2>2. CASE TestLoop(t) /\ ~Fail
    <3>1. Idle \in LoopRecord
      BY DEF Idle, LoopRecord
    <3> QED
      BY <2>2, <3>1 DEF TestLoop
  <2>3. CASE FetchCtoI(t) /\ ~Fail
    <3>1. [at |-> "store", ch |-> ch, word |-> addr[ch]] \in LoopRecord
      BY ChannelAssumption DEF LoopRecord, TypeInv, TypeOK
    <3> QED
      BY <1>2, <2>3, <3>1, FetchEffect
  <2>4. CASE FetchItoC(t)
    <3>1. loop' = [loop EXCEPT ![t] = [[loop[t] EXCEPT !.at = "store"] EXCEPT !.word = ioAddr[ch]]]
      BY <1>2, <2>4 DEF FetchItoC, Inside, TypeInv, LoopOK
    <3> QED
      BY <3>1
  <2>5. CASE (StoreCtoI(t) \/ StoreItoC(t)) /\ ~Fail
    <3>1. [at |-> "test", ch |-> ch, word |-> 0] \in LoopRecord
      BY ChannelAssumption DEF LoopRecord
    <3> QED
      BY <1>2, <2>5, <3>1, StoreEffect DEF EnterTransfer
  <2> QED
    BY <2>1, <2>2, <2>3, <2>4, <2>5 DEF DoTransfer
<1> QED
  BY <1>1, <1>3 DEF TypeInv, LoopOK

LEMMA OneThreadStep ==
  ASSUME ~MultiThreaded, TypeInv, OneThread, [Next]_vars PROVE OneThread'
<1>1. CASE UNCHANGED loop
  BY <1>1 DEF OneThread
<1>2. CASE OperatingSystem \/ Iop
  <2>1. ASSUME NEW t \in Threads, NEW ch \in Channels, EnterTransfer(t, ch) PROVE OneThread'
    <3>1. \A u \in Threads \ {t} : loop'[u].at = "out"
      <4>1. Idle.at = "out"
        BY DEF Idle
      <4> QED
        BY <4>1, <1>2, <2>1, HandlersOutside DEF EnterTransfer, TypeInv, LoopOK
    <3> QED
      BY <3>1 DEF OneThread
  <2> QED
    BY <1>1, <1>2, <2>1, HandlersOutside
<1>3. ASSUME NEW t \in Threads, DoTransfer(t) PROVE OneThread'
  <2>1. \A u \in Threads \ {t} : loop'[u] = loop[u] /\ loop[u].at = "out"
    BY <1>3, OwnRecord DEF OneThread
  <2> QED
    BY <2>1 DEF OneThread
<1> QED
  BY <1>1, <1>2, <1>3 DEF Next, vars

LEMMA OperatingSystemHalves ==
  ASSUME ~MultiThreaded, SingleInv, OperatingSystem PROVE HalvesOK' /\ WordOK' /\ ~asserted'
<1> USE DEF SingleInv, TypeInv, TypeOK, HalvesOK, Room, mfVars, iopVars, cpuVars
<1>1. WordOK'
  BY HandlersOutside DEF WordOK
<1>2. ~asserted'
  BY DEF OperatingSystem, TakeInterrupt, ClearInterrupt, EndService, MC, SetLimit, SetAddress
<1>3. CASE TakeInterrupt \/ ClearInterrupt \/ EndService
  BY <1>1, <1>2, <1>3 DEF TakeInterrupt, ClearInterrupt, EndService
<1>4. ASSUME NEW ch \in Channels, MC(ch) PROVE HalvesOK'
  BY <1>4 DEF MC, MainframeSideMasterClear
<1>5. ASSUME NEW ch \in Channels, NEW w \in Windows[ch], SetLimit(ch, w[2]) PROVE HalvesOK'
  <2> DEFINE l == w[2]
  <2> HIDE DEF l
  <2>1. SetLimit(ch, l)
    BY <1>5 DEF l
  <2>2. /\ limit' = [limit EXCEPT ![ch] = l]
        /\ UNCHANGED <<addr, active, busy, done, size, dir>>
        /\ active[ch] /\ busy[ch] /\ dir[ch] = "ItoC" => Count(size[ch]) <= l - addr[ch]
    BY <2>1 DEF SetLimit
  <2>3. ASSUME NEW x \in Channels, busy'[x]
        PROVE ~done'[x] /\ (active'[x] /\ dir'[x] = "ItoC" => Count(size'[x]) <= limit'[x] - addr'[x])
    <3>1. CASE x = ch
      BY <2>2, <2>3, <3>1
    <3>2. CASE x # ch
      BY <2>2, <2>3, <3>2
    <3> QED
      BY <3>1, <3>2
  <2> QED
    BY <2>3 DEF Count
<1>6. ASSUME NEW ch \in Channels, NEW w \in Windows[ch], SetAddress(ch, w[1]) PROVE HalvesOK'
  <2> DEFINE a == w[1]
  <2> HIDE DEF a
  <2>1. SetAddress(ch, a)
    BY <1>6 DEF a
  <2>2. /\ addr' = [addr EXCEPT ![ch] = a] /\ active' = [active EXCEPT ![ch] = a # limit[ch]]
        /\ UNCHANGED <<limit, busy, done, size, dir>>
        /\ busy[ch] => a = limit[ch] \/ (dir[ch] = "ItoC" => Count(size[ch]) <= limit[ch] - a)
    BY <2>1 DEF SetAddress
  <2>3. ASSUME NEW x \in Channels, busy'[x]
        PROVE ~done'[x] /\ (active'[x] /\ dir'[x] = "ItoC" => Count(size'[x]) <= limit'[x] - addr'[x])
    <3>1. CASE x = ch
      BY <2>2, <2>3, <3>1
    <3>2. CASE x # ch
      BY <2>2, <2>3, <3>2
    <3> QED
      BY <3>1, <3>2
  <2> QED
    BY <2>3 DEF Count
<1> QED
  BY <1>1, <1>2, <1>3, <1>4, <1>5, <1>6 DEF OperatingSystem

LEMMA IopHalves ==
  ASSUME ~MultiThreaded, SingleInv, Iop PROVE HalvesOK' /\ WordOK' /\ ~asserted'
<1> USE DEF SingleInv, TypeInv, TypeOK, HalvesOK, Room, mfVars, iopVars, cpuVars
<1>1. WordOK'
  BY HandlersOutside DEF WordOK
<1>2. ~asserted'
  BY DEF Iop, MasterClear, DoIo0, DoIo1, DoIo2, DoIo4CtoI, DoIo4ItoC
<1>3. ASSUME NEW ch \in Channels, DoIo0(ch) \/ DoIo4CtoI(ch) PROVE HalvesOK'
  BY <1>3 DEF DoIo0, DoIo4CtoI
<1>4. ASSUME NEW ch \in Channels, NEW a \in IoAddrs, DoIo1(ch, a) PROVE HalvesOK'
  BY <1>4 DEF DoIo1
<1>5. ASSUME NEW ch \in Channels, NEW n \in Sizes, DoIo2(ch, n) PROVE HalvesOK'
  BY <1>5 DEF DoIo2
<1>6. ASSUME NEW ch \in Channels, NEW d \in BOOLEAN, NEW h \in BOOLEAN, NEW mc \in BOOLEAN,
             DoIo4ItoC(ch, d, h, mc)
      PROVE HalvesOK'
  BY <1>6 DEF DoIo4ItoC
<1>7. CASE MasterClear
  BY <1>1, <1>2, <1>7 DEF MasterClear
<1> QED
  BY <1>1, <1>2, <1>3, <1>4, <1>5, <1>6, <1>7 DEF Iop

(* In a single-threaded build no assertion of DoTransfer can fail. *)
LEMMA NoFail ==
  ASSUME SingleInv, NEW t \in Threads, DoTransfer(t) PROVE ~Fail /\ ~asserted'
<1> SUFFICES ~asserted'
  BY DEF Fail
<1>1. PICK ch \in Channels : Inside(t, ch)
  BY InsideChannel DEF SingleInv, TypeInv
<1>2. dir \in [Channels -> {"CtoI", "ItoC"}]
  BY ChannelAssumption DEF SingleInv, TypeInv, TypeOK
<1>3. CASE TestLoop(t)
  BY <1>1, <1>3 DEF TestLoop, Inside, SingleInv, HalvesOK
<1>4. CASE FetchCtoI(t)
  BY <1>1, <1>4, ChannelAssumption
  DEF FetchCtoI, GetData, Inside, SingleInv, TypeInv, TypeOK, WindowOK, WordOK
<1>5. CASE FetchItoC(t)
  BY <1>5 DEF FetchItoC, SingleInv
<1>6. CASE StoreCtoI(t)
  BY <1>6 DEF StoreCtoI, Advance, SingleInv
<1>7. CASE StoreItoC(t)
  <2>1. dir[ch] = "ItoC" /\ busy[ch] /\ active[ch]
    BY <1>1, <1>7 DEF StoreItoC, Inside, SingleInv, WordOK
  <2>2. Count(size[ch]) <= limit[ch] - addr[ch]
    BY <2>1 DEF SingleInv, HalvesOK, Room
  <2>3. size[ch] \in 0 .. IoSize - 1 /\ addr[ch] \in Int /\ limit[ch] \in Int
    BY ChannelAssumption DEF SingleInv, TypeInv, TypeOK
  <2>4. Count(size[ch]) \in 1 .. IoSize
    BY <2>3, CountDown
  <2>5. addr[ch] # limit[ch]
    BY <2>2, <2>3, <2>4, ChannelAssumption
  <2> QED
    BY <1>1, <1>7, <2>1, <2>5 DEF StoreItoC, Advance, Inside, SingleInv
<1> QED
  BY <1>3, <1>4, <1>5, <1>6, <1>7 DEF DoTransfer

LEMMA DoTransferHalves ==
  ASSUME SingleInv, NEW t \in Threads, DoTransfer(t) PROVE HalvesOK' /\ WordOK'
<1> USE DEF SingleInv, TypeInv, TypeOK, mfVars, iopVars, cpuVars
<1>1. PICK ch \in Channels : Inside(t, ch)
  BY InsideChannel
<1>2. ~Fail
  BY NoFail
<1>3. \A u \in Threads \ {t} : loop'[u] = loop[u] /\ loop[u].at = "out"
  BY OwnRecord DEF OneThread
<1>4. CASE TestLoop(t)
  <2>1. HalvesOK'
    BY <1>2, <1>4 DEF TestLoop, HalvesOK, Room
  <2>2. CASE ~(busy[ch] /\ active[ch])
    <3>1. loop'[t].at = "out"
      BY <1>1, <1>4, <2>2 DEF TestLoop, Inside, Idle, LoopOK
    <3> QED
      BY <1>3, <2>1, <3>1 DEF WordOK
  <2>3. CASE busy[ch] /\ active[ch]
    <3>1. UNCHANGED <<busy, active>> /\ loop'[t].at = "fetch" /\ loop'[t].ch = ch
      BY <1>1, <1>2, <1>4, <2>3 DEF TestLoop, Inside, LoopOK, LoopRecord
    <3> QED
      BY <1>3, <2>1, <2>3, <3>1 DEF WordOK
  <2> QED
    BY <2>2, <2>3
<1>5. CASE FetchCtoI(t)
  <2>1. /\ dir[ch] = "CtoI" /\ addr' = [addr EXCEPT ![ch] = @ + 1] /\ loop[t].at = "fetch"
        /\ loop' = [loop EXCEPT ![t] = [at |-> "store", ch |-> ch, word |-> addr[ch]]]
        /\ UNCHANGED <<limit, busy, done, size, dir>>
    BY <1>1, <1>2, <1>5, FetchEffect
  <2>2. \A x \in Channels \ {ch} : active'[x] = active[x]
    BY <1>1, <1>2, <1>5, FetchEffect
  <2>3. HalvesOK'
    BY <2>1, <2>2 DEF HalvesOK, Room
  <2>4. loop'[t].at = "store" /\ loop'[t].ch = ch /\ busy[ch]
    BY <1>1, <2>1 DEF LoopOK, WordOK, Inside
  <2> QED
    BY <1>3, <2>1, <2>3, <2>4 DEF WordOK
<1>6. CASE FetchItoC(t)
  <2>1. HalvesOK'
    BY <1>6 DEF FetchItoC, HalvesOK, Room
  <2>2. /\ UNCHANGED <<busy, active, dir>> /\ loop'[t].at = "store" /\ loop'[t].ch = ch
        /\ loop[t].at = "fetch"
    BY <1>1, <1>6 DEF FetchItoC, Inside, LoopOK, LoopRecord
  <2> QED
    BY <1>1, <1>3, <2>1, <2>2 DEF WordOK, Inside
<1>7. CASE StoreCtoI(t) \/ StoreItoC(t)
  <2>1. /\ size' = [size EXCEPT ![ch] = (size[ch] - 1) % IoSize]
        /\ busy' = [busy EXCEPT ![ch] = @ /\ (size[ch] - 1) % IoSize # 0]
        /\ done' = [done EXCEPT ![ch] = @ \/ (size[ch] - 1) % IoSize = 0]
        /\ EnterTransfer(t, ch) /\ UNCHANGED <<limit, dir>>
    BY <1>1, <1>2, <1>7, StoreEffect
  <2>2. WordOK'
    BY <1>3, <2>1 DEF WordOK, EnterTransfer, LoopOK
  <2>3. \/ /\ dir[ch] = "ItoC" /\ active[ch] /\ addr' = [addr EXCEPT ![ch] = @ + 1]
           /\ \A x \in Channels \ {ch} : active'[x] = active[x]
        \/ dir[ch] = "CtoI" /\ UNCHANGED <<addr, active>>
    <3>1. CASE StoreCtoI(t)
      BY <1>1, <3>1 DEF StoreCtoI, Inside
    <3>2. CASE StoreItoC(t)
      <4>1. dir[ch] = "ItoC" /\ active[ch] /\ addr' = [addr EXCEPT ![ch] = @ + 1]
        BY <1>1, <1>2, <3>2, StoreItoCEffect
      <4>2. active' = [active EXCEPT ![ch] = FALSE] \/ active' = active
        BY <1>1, <1>2, <3>2, StoreItoCEffect
      <4> QED
        BY <4>1, <4>2
    <3> QED
      BY <1>7, <3>1, <3>2
  <2>4. size[ch] \in 0 .. IoSize - 1 /\ (size[ch] - 1) % IoSize = Count(size[ch]) - 1
    BY CountDown
  <2>5. ASSUME NEW x \in Channels, busy'[x]
        PROVE ~done'[x] /\ (active'[x] /\ dir'[x] = "ItoC" => Count(size'[x]) <= limit'[x] - addr'[x])
    <3>1. CASE x = ch
      <4>1. busy[ch] /\ ~done'[ch] /\ Count(size'[ch]) = Count(size[ch]) - 1
        BY <2>1, <2>4, <2>5, <3>1 DEF HalvesOK, Count
      <4>2. CASE dir[ch] = "ItoC"
        <5>1. active[ch] /\ addr'[ch] = addr[ch] + 1 /\ limit'[ch] = limit[ch]
          BY <2>1, <2>3, <4>2
        <5>2. Count(size[ch]) <= limit[ch] - addr[ch]
          BY <4>1, <4>2, <5>1 DEF HalvesOK, Room
        <5>3. addr[ch] \in Int /\ limit[ch] \in Int /\ Count(size[ch]) \in Int
          BY ChannelAssumption, CountDown
        <5> QED
          BY <3>1, <4>1, <5>1, <5>2, <5>3
      <4> QED
        BY <2>1, <3>1, <4>1, <4>2
    <3>2. CASE x # ch
      <4>1. /\ size'[x] = size[x] /\ busy'[x] = busy[x] /\ done'[x] = done[x] /\ dir'[x] = dir[x]
            /\ limit'[x] = limit[x] /\ addr'[x] = addr[x] /\ active'[x] = active[x]
        BY <2>1, <2>3, <3>2
      <4> QED
        BY <2>5, <4>1 DEF HalvesOK, Room, Count
    <3> QED
      BY <3>1, <3>2
  <2>6. HalvesOK'
    BY <2>5 DEF HalvesOK, Room, Count
  <2> QED
    BY <2>2, <2>6
<1> QED
  BY <1>4, <1>5, <1>6, <1>7 DEF DoTransfer

LEMMA SingleInit == Init => SingleInv
<1>1. Init => OneThread /\ HalvesOK /\ WordOK /\ ~asserted
  BY DEF Init, OneThread, HalvesOK, WordOK, Idle
<1> QED
  BY <1>1, TypeInit DEF SingleInv

LEMMA SingleStep == ASSUME ~MultiThreaded, SingleInv, [Next]_vars PROVE SingleInv'
<1>1. TypeInv' /\ OneThread'
  BY TypeStep, OneThreadStep DEF SingleInv
<1>2. CASE UNCHANGED vars
  BY <1>1, <1>2 DEF SingleInv, HalvesOK, WordOK, Room, vars, mfVars, iopVars
<1> QED
  BY <1>1, <1>2, OperatingSystemHalves, IopHalves, NoFail, DoTransferHalves DEF Next, SingleInv

LEMMA SingleInvCorrect == ASSUME ~MultiThreaded PROVE Spec => []SingleInv
<1>1. SingleInv /\ [Next]_vars => SingleInv'
  BY SingleStep
<1> QED
  BY <1>1, SingleInit, PTL DEF Spec

(* In a single-threaded build no assertion of GetData, SetData and         *)
(* DoTransfer fails, for every window, address and count: with two threads *)
(* one can fail (run channel_threads).                                     *)
THEOREM AssertionsHold == ASSUME ~MultiThreaded PROVE Spec => []NoAssertionFails
<1>1. SingleInv => NoAssertionFails
  BY DEF SingleInv, NoAssertionFails
<1> QED
  BY <1>1, SingleInvCorrect, PTL

-----------------------------------------------------------------------------
(* The single-threaded build: a transfer moves exactly what was programmed *)

MovedWord == [c : Int, i : Int]

HistoryType ==
  /\ moved \in [Channels -> Seq(MovedWord)]
  /\ base \in [Channels -> (0 .. IoSize - 1) \X (0 .. IoSize - 1)]

(* The words moved so far went to or came from consecutive addresses; *)
EntriesExact(ch) ==
  \A j \in 1 .. Len(moved[ch]) :
    /\ moved[ch][j].i = (base[ch][1] + j - 1) % IoSize
    /\ j > 1 => \/ moved[ch][j].c = moved[ch][j - 1].c + 1
                \/ \E w \in Windows[ch] : w[1] = moved[ch][j].c

(* the address register of the IOP is next, and its count is what is left; *)
CountExact(ch) ==
  /\ ioAddr[ch] = (base[ch][1] + Len(moved[ch])) % IoSize
  /\ Len(moved[ch]) = Count(base[ch][2]) - Count(size[ch])

(* and central address a comes after the last word, or opens a window.     *)
Follows(ch, a) ==
  moved[ch] # <<>> => \/ a = moved[ch][Len(moved[ch])].c + 1
                      \/ \E w \in Windows[ch] : w[1] = a

(* Thread t took its word from central memory and has yet to store it.     *)
Carries(t, ch) == loop[t].at = "store" /\ loop[t].ch = ch /\ dir[ch] = "CtoI"

SoFarExact == \A ch \in Channels : busy[ch] => EntriesExact(ch) /\ CountExact(ch)

(* The address register of an active channel is next, unless a thread      *)
(* carries the word before it.                                             *)
AddressExact ==
  \A ch \in Channels :
    busy[ch] /\ active[ch] /\ (\A t \in Threads : ~Carries(t, ch)) => Follows(ch, addr[ch])

CarriedExact ==
  \A t \in Threads : \A ch \in Channels :
    /\ Carries(t, ch) => Follows(ch, loop[t].word) /\ addr[ch] = loop[t].word + 1
    /\ loop[t].at = "store" /\ loop[t].ch = ch /\ dir[ch] = "ItoC" => loop[t].word = ioAddr[ch]

HistoryInv == HistoryType /\ SoFarExact /\ AddressExact /\ CarriedExact

LEMMA SmallMod == ASSUME NEW y \in 0 .. IoSize - 1 PROVE y % IoSize = y
<1>1. IoSize \in Nat \ {0}
  BY ChannelAssumption
<1> QED
  BY <1>1

(* Stepping the address of the IOP counts modulo the size of its memory.   *)
LEMMA NextIoAddrWraps ==
  ASSUME NEW n \in Nat PROVE NextIoAddr(n % IoSize) = (n + 1) % IoSize
<1>1. IoSize \in Nat \ {0}
  BY ChannelAssumption
<1> DEFINE q == n \div IoSize
           r == n % IoSize
<1>2. q \in Int /\ r \in 0 .. IoSize - 1 /\ n = q * IoSize + r
  BY <1>1
<1>3. ASSUME NEW x \in Int, NEW p \in Int, NEW y \in 0 .. IoSize - 1, x = p * IoSize + y
      PROVE x % IoSize = y
  BY <1>1, <1>3
<1> HIDE DEF q, r
<1>4. CASE r # IoSize - 1
  <2>1. n + 1 = q * IoSize + (r + 1) /\ r + 1 \in 0 .. IoSize - 1
    BY <1>1, <1>2, <1>4
  <2>2. (n + 1) % IoSize = r + 1
    BY <1>2, <1>3, <2>1
  <2> QED
    BY <1>4, <2>2 DEF NextIoAddr, r
<1>5. CASE r = IoSize - 1
  <2>1. n + 1 = (q + 1) * IoSize + 0
    BY <1>1, <1>2, <1>5
  <2>2. (n + 1) % IoSize = 0
    BY <1>1, <1>2, <1>3, <2>1
  <2> QED
    BY <1>5, <2>2 DEF NextIoAddr, r
<1> QED
  BY <1>4, <1>5

LEMMA HistoryInit == Init => HistoryInv
<1> SUFFICES ASSUME Init PROVE HistoryInv
  OBVIOUS
<1>1. IoSize \in Nat \ {0} /\ 0 \in 0 .. IoSize - 1
  BY ChannelAssumption
<1>2. HistoryType
  <2>1. <<>> \in Seq(MovedWord)
    OBVIOUS
  <2> QED
    BY <1>1, <2>1 DEF Init, HistoryType, NoBase
<1>3. SoFarExact /\ AddressExact
  BY DEF Init, SoFarExact, AddressExact
<1>4. CarriedExact
  BY DEF Init, CarriedExact, Carries, Idle
<1> QED
  BY <1>2, <1>3, <1>4 DEF HistoryInv

(* A handler is not inside DoTransfer, so nothing is carried. *)
LEMMA NothingCarried ==
  ASSUME ~MultiThreaded, TypeInv, OperatingSystem \/ Iop
  PROVE /\ \A t \in Threads : \A ch \in Channels : ~Carries(t, ch) /\ ~Carries(t, ch)'
        /\ CarriedExact'
<1>1. \A t \in Threads : loop[t].at # "store" /\ loop'[t].at # "store"
  BY HandlersOutside DEF Idle
<1> QED
  BY <1>1 DEF Carries, CarriedExact

LEMMA OperatingSystemHistory ==
  ASSUME ~MultiThreaded, SingleInv, HistoryInv, OperatingSystem PROVE HistoryInv'
<1> USE DEF mfVars, iopVars, cpuVars, history
<1>1. /\ UNCHANGED <<busy, size, ioAddr, moved, base>>
      /\ \A ch \in Channels :
           active'[ch] => \/ active[ch] /\ addr'[ch] = addr[ch]
                          \/ \E w \in Windows[ch] : w[1] = addr'[ch]
  <2> USE DEF SingleInv, TypeInv, TypeOK
  <2>1. CASE TakeInterrupt \/ ClearInterrupt \/ EndService
    BY <2>1 DEF TakeInterrupt, ClearInterrupt, EndService
  <2>2. ASSUME NEW ch \in Channels, MC(ch) PROVE <1>1!:
    BY <2>2 DEF MC, MainframeSideMasterClear
  <2>3. ASSUME NEW ch \in Channels, NEW w \in Windows[ch], SetLimit(ch, w[2]) PROVE <1>1!:
    BY <2>3 DEF SetLimit
  <2>4. ASSUME NEW ch \in Channels, NEW w \in Windows[ch], SetAddress(ch, w[1]) PROVE <1>1!:
    <3> DEFINE a == w[1]
    <3>1. \E v \in Windows[ch] : v[1] = a
      OBVIOUS
    <3> HIDE DEF a
    <3>2. SetAddress(ch, a)
      BY <2>4 DEF a
    <3> QED
      BY <3>1, <3>2 DEF SetAddress
  <2> QED
    BY <2>1, <2>2, <2>3, <2>4 DEF OperatingSystem
<1>2. HistoryType' /\ SoFarExact'
  BY <1>1 DEF HistoryInv, HistoryType, SoFarExact, EntriesExact, CountExact, Count
<1>3. AddressExact'
  BY <1>1, NothingCarried DEF HistoryInv, AddressExact, Follows, SingleInv
<1> QED
  BY <1>2, <1>3, NothingCarried DEF HistoryInv, SingleInv

LEMMA IopHistory ==
  ASSUME ~MultiThreaded, SingleInv, HistoryInv, Iop PROVE HistoryInv'
<1> USE DEF mfVars, iopVars, cpuVars, history, HistoryInv, HistoryType
<1>1. CarriedExact' /\ \A t \in Threads : \A ch \in Channels : ~Carries(t, ch) /\ ~Carries(t, ch)'
  BY NothingCarried DEF SingleInv
(* Every channel keeps its history, or starts a new one. *)
<1>2. ASSUME NEW ch \in Channels, NEW z \in {<<>>}, NEW b \in (0 .. IoSize - 1) \X (0 .. IoSize - 1),
             moved' = [moved EXCEPT ![ch] = z], base' = [base EXCEPT ![ch] = b],
             busy'[ch] => ioAddr'[ch] = b[1] /\ size'[ch] = b[2],
             \A x \in Channels \ {ch} :
               busy'[x] = busy[x] /\ size'[x] = size[x] /\ ioAddr'[x] = ioAddr[x],
             \A x \in Channels : active'[x] => active[x] /\ addr'[x] = addr[x]
      PROVE HistoryInv'
  <2>1. HistoryType'
    <3>1. <<>> \in Seq(MovedWord)
      OBVIOUS
    <3> QED
      BY <1>2, <3>1
  <2>2. ASSUME NEW x \in Channels, busy'[x] PROVE (EntriesExact(x) /\ CountExact(x))'
    <3>1. CASE x = ch
      <4>1. moved'[x] = <<>> /\ Len(moved'[x]) = 0 /\ base'[x] = b
        BY <1>2, <3>1
      <4>2. b[1] % IoSize = b[1] /\ b[1] + 0 = b[1]
        <5> HIDE DEF HistoryInv, HistoryType, history, mfVars, iopVars, cpuVars
        <5>1. b[1] \in 0 .. IoSize - 1 /\ b[1] + 0 = b[1]
          BY ChannelAssumption
        <5> QED
          BY <5>1, SmallMod
      <4>3. Count(b[2]) - Count(size'[x]) = 0
        BY <1>2, <2>2, <3>1, ChannelAssumption DEF Count
      <4>4. ioAddr'[x] = b[1]
        BY <1>2, <2>2, <3>1
      <4> HIDE DEF HistoryInv, HistoryType
      <4>5. EntriesExact(x)'
        BY <4>1 DEF EntriesExact
      <4>6. CountExact(x)'
        BY <4>1, <4>2, <4>3, <4>4 DEF CountExact, Count
      <4> QED
        BY <4>5, <4>6
    <3>2. CASE x # ch
      <4>1. /\ moved'[x] = moved[x] /\ base'[x] = base[x] /\ busy[x]
            /\ size'[x] = size[x] /\ ioAddr'[x] = ioAddr[x]
        BY <1>2, <2>2, <3>2
      <4> HIDE DEF HistoryType
      <4> QED
        BY <4>1 DEF SoFarExact, EntriesExact, CountExact, Count
    <3> QED
      BY <3>1, <3>2
  <2>3. ASSUME NEW x \in Channels, busy'[x], active'[x] PROVE Follows(x, addr[x])'
    <3>1. CASE x = ch
      BY <1>2, <3>1 DEF Follows
    <3>2. CASE x # ch
      <4>1. moved'[x] = moved[x] /\ busy[x] /\ active[x] /\ addr'[x] = addr[x]
        BY <1>2, <2>3, <3>2
      <4> HIDE DEF HistoryType
      <4> QED
        BY <1>1, <4>1 DEF AddressExact, Follows
    <3> QED
      BY <3>1, <3>2
  <2> QED
    BY <1>1, <2>1, <2>2, <2>3 DEF SoFarExact, AddressExact
<1>3. ASSUME UNCHANGED <<moved, base>>,
             \A x \in Channels : busy'[x] => busy[x] /\ size'[x] = size[x] /\ ioAddr'[x] = ioAddr[x],
             \A x \in Channels : active'[x] => active[x] /\ addr'[x] = addr[x]
      PROVE HistoryInv'
  <2>1. HistoryType'
    BY <1>3
  <2> HIDE DEF HistoryType
  <2>2. SoFarExact'
    BY <1>3 DEF SoFarExact, EntriesExact, CountExact, Count
  <2>3. AddressExact'
    BY <1>1, <1>3 DEF AddressExact, Follows
  <2> QED
    BY <1>1, <2>1, <2>2, <2>3
<1> USE DEF SingleInv, TypeInv, TypeOK
<1>4. ASSUME NEW ch \in Channels, DoIo0(ch) PROVE HistoryInv'
  <2>1. NoBase \in (0 .. IoSize - 1) \X (0 .. IoSize - 1)
    BY ChannelAssumption DEF NoBase
  <2> HIDE DEF HistoryInv, HistoryType
  <2>2. /\ moved' = [moved EXCEPT ![ch] = <<>>] /\ base' = [base EXCEPT ![ch] = NoBase]
        /\ busy' = [busy EXCEPT ![ch] = FALSE] /\ UNCHANGED <<active, addr, size, ioAddr>>
    BY <1>4 DEF DoIo0, Forget
  <2> QED
    BY <1>2, <2>1, <2>2
<1>5. ASSUME NEW ch \in Channels, NEW a \in IoAddrs, DoIo1(ch, a) PROVE HistoryInv'
  <2>1. <<a, size[ch]>> \in (0 .. IoSize - 1) \X (0 .. IoSize - 1)
    BY ChannelAssumption
  <2> HIDE DEF HistoryInv, HistoryType
  <2>2. /\ moved' = [moved EXCEPT ![ch] = <<>>] /\ base' = [base EXCEPT ![ch] = <<a, size[ch]>>]
        /\ busy' = [busy EXCEPT ![ch] = TRUE] /\ ioAddr' = [ioAddr EXCEPT ![ch] = a]
        /\ UNCHANGED <<active, addr, size>>
    BY <1>5 DEF DoIo1
  <2> QED
    BY <1>2, <2>1, <2>2
<1> HIDE DEF HistoryInv, HistoryType
<1>6. ASSUME NEW ch \in Channels, NEW n \in Sizes, DoIo2(ch, n) PROVE HistoryInv'
  BY <1>3, <1>6 DEF DoIo2
<1>7. ASSUME NEW ch \in Channels, DoIo4CtoI(ch) PROVE HistoryInv'
  BY <1>3, <1>7 DEF DoIo4CtoI
<1>8. ASSUME NEW ch \in Channels, NEW d \in BOOLEAN, NEW h \in BOOLEAN, NEW mc \in BOOLEAN,
             DoIo4ItoC(ch, d, h, mc)
      PROVE HistoryInv'
  BY <1>3, <1>8 DEF DoIo4ItoC
(* Nothing is left to be exact about. *)
<1>9. CASE MasterClear
  <2>1. /\ \A x \in Channels : ~busy'[x]
        /\ moved' = [x \in Channels |-> <<>>] /\ base' = [x \in Channels |-> NoBase]
    BY <1>9 DEF MasterClear
  <2>2. <<>> \in Seq(MovedWord) /\ NoBase \in (0 .. IoSize - 1) \X (0 .. IoSize - 1)
    BY ChannelAssumption DEF NoBase
  <2>3. HistoryType'
    BY <2>1, <2>2 DEF HistoryType
  <2> QED
    BY <1>1, <2>1, <2>3 DEF HistoryInv, SoFarExact, AddressExact
<1> QED
  BY <1>4, <1>5, <1>6, <1>7, <1>8, <1>9 DEF Iop

(* Storing one more word on channel ch that follows those before it. *)
LEMMA AppendExact ==
  ASSUME SingleInv, HistoryInv, NEW ch \in Channels, busy[ch], NEW w \in Int, Follows(ch, w),
         moved' = [moved EXCEPT ![ch] = Append(@, [c |-> w, i |-> ioAddr[ch]])],
         ioAddr' = [ioAddr EXCEPT ![ch] = NextIoAddr(@)],
         size' = [size EXCEPT ![ch] = (size[ch] - 1) % IoSize],
         UNCHANGED base
  PROVE /\ HistoryType'
        /\ \A x \in Channels \ {ch} : moved'[x] = moved[x]
        /\ EntriesExact(ch)'
        /\ ioAddr'[ch] = (base[ch][1] + Len(moved'[ch])) % IoSize
        /\ Len(moved'[ch]) = Count(base[ch][2]) - (Count(size[ch]) - 1)
        /\ moved'[ch] # <<>> /\ moved'[ch][Len(moved'[ch])].c = w
<1> DEFINE e == [c |-> w, i |-> ioAddr[ch]]
           s == moved[ch]
           b == base[ch][1]
<1>1. /\ s \in Seq(MovedWord) /\ e \in MovedWord /\ b \in Nat
      /\ ioAddr[ch] \in 0 .. IoSize - 1 /\ IoSize \in Nat \ {0}
  BY ChannelAssumption DEF SingleInv, TypeInv, TypeOK, HistoryInv, HistoryType, MovedWord
<1>2. moved'[ch] = Append(s, e) /\ \A x \in Channels \ {ch} : moved'[x] = moved[x]
  BY DEF HistoryInv, HistoryType
<1>3. HistoryType'
  BY <1>1 DEF HistoryInv, HistoryType
<1>4. /\ ioAddr[ch] = (b + Len(s)) % IoSize
      /\ Len(s) = Count(base[ch][2]) - Count(size[ch])
  BY DEF HistoryInv, SoFarExact, CountExact
<1>5. \A j \in 1 .. Len(s) :
        /\ s[j].i = (b + j - 1) % IoSize
        /\ j > 1 => s[j].c = s[j - 1].c + 1 \/ \E v \in Windows[ch] : v[1] = s[j].c
  BY DEF HistoryInv, SoFarExact, EntriesExact
<1>6. s # <<>> => w = s[Len(s)].c + 1 \/ \E v \in Windows[ch] : v[1] = w
  BY DEF Follows
<1>7. ioAddr'[ch] = NextIoAddr(ioAddr[ch]) /\ base'[ch] = base[ch] /\ e.c = w /\ e.i = ioAddr[ch]
  BY DEF SingleInv, TypeInv, TypeOK
<1>8. Count(base[ch][2]) \in Int /\ Count(size[ch]) \in Int
  BY ChannelAssumption DEF Count, SingleInv, TypeInv, TypeOK, HistoryInv, HistoryType
<1> HIDE DEF e, s, b
<1>9. /\ Len(Append(s, e)) = Len(s) + 1 /\ Len(s) \in Nat
      /\ Append(s, e)[Len(s) + 1] = e
      /\ \A j \in 1 .. Len(s) : Append(s, e)[j] = s[j]
  BY <1>1
<1>10. ASSUME NEW j \in 1 .. Len(s) + 1
       PROVE /\ Append(s, e)[j].i = (b + j - 1) % IoSize
             /\ j > 1 => \/ Append(s, e)[j].c = Append(s, e)[j - 1].c + 1
                         \/ \E v \in Windows[ch] : v[1] = Append(s, e)[j].c
  <2>1. CASE j \in 1 .. Len(s)
    <3>1. j > 1 => j - 1 \in 1 .. Len(s)
      BY <1>9, <2>1
    <3> QED
      BY <1>5, <1>9, <2>1, <3>1
  <2>2. CASE j = Len(s) + 1
    <3>1. b + j - 1 = b + Len(s)
      BY <1>1, <1>9, <2>2
    <3>2. j > 1 => s # <<>> /\ Append(s, e)[j - 1] = s[Len(s)]
      BY <1>1, <1>9, <2>2
    <3> QED
      BY <1>4, <1>6, <1>7, <1>9, <2>2, <3>1, <3>2
  <2> QED
    BY <1>9, <2>1, <2>2
<1>11. EntriesExact(ch)'
  <2>1. 1 .. Len(moved'[ch]) = 1 .. Len(s) + 1 /\ base'[ch][1] = b
    BY <1>2, <1>7, <1>9 DEF b
  <2>2. \A j \in 1 .. Len(s) + 1 :
          /\ moved'[ch][j].i = (b + j - 1) % IoSize
          /\ j > 1 => \/ moved'[ch][j].c = moved'[ch][j - 1].c + 1
                      \/ \E v \in Windows[ch] : v[1] = moved'[ch][j].c
    BY <1>2, <1>10
  <2> QED
    BY <2>1, <2>2 DEF EntriesExact
<1>12. NextIoAddr(ioAddr[ch]) = (b + (Len(s) + 1)) % IoSize
  <2>1. b + Len(s) \in Nat /\ (b + Len(s)) + 1 = b + (Len(s) + 1)
    BY <1>1, <1>9
  <2> QED
    BY <1>4, <2>1, NextIoAddrWraps
<1>13. Len(s) + 1 = Count(base[ch][2]) - (Count(size[ch]) - 1)
  BY <1>4, <1>8, <1>9
<1>14. Append(s, e) # <<>>
  <2>1. Len(Append(s, e)) # 0 /\ Len(<<>>) = 0
    BY <1>9
  <2> QED
    BY <2>1
<1> QED
  BY <1>2, <1>3, <1>7, <1>9, <1>11, <1>12, <1>13, <1>14 DEF b

(* Inside DoTransfer only channel ch of the thread changes.  Its history   *)
(* is given for the new state; that of the others follows.                 *)
LEMMA OtherChannels ==
  ASSUME SingleInv, HistoryInv, NEW t \in Threads, NEW ch \in Channels, Inside(t, ch),
         DoTransfer(t), loop'[t].at # "out" => loop'[t].ch = ch, UNCHANGED dir, HistoryType',
         \A x \in Channels \ {ch} :
           /\ busy'[x] = busy[x] /\ active'[x] = active[x] /\ addr'[x] = addr[x]
           /\ size'[x] = size[x] /\ ioAddr'[x] = ioAddr[x]
           /\ moved'[x] = moved[x] /\ base'[x] = base[x],
         busy'[ch] => EntriesExact(ch)' /\ CountExact(ch)',
         busy'[ch] /\ active'[ch] /\ ~Carries(t, ch)' => Follows(ch, addr[ch])',
         Carries(t, ch)' => Follows(ch, loop[t].word)' /\ addr'[ch] = loop'[t].word + 1,
         loop'[t].at = "store" /\ dir[ch] = "ItoC" => loop'[t].word = ioAddr'[ch]
  PROVE HistoryInv'
<1>1. \A u \in Threads \ {t} : loop'[u] = loop[u] /\ loop[u].at = "out"
  BY OwnRecord DEF SingleInv, OneThread
<1>2. ASSUME NEW x \in Channels \ {ch}
      PROVE \A u \in Threads : ~Carries(u, x) /\ ~Carries(u, x)'
  BY <1>1 DEF Carries, Inside
<1>3. SoFarExact'
  <2>1. ASSUME NEW x \in Channels, busy'[x] PROVE (EntriesExact(x) /\ CountExact(x))'
    <3>1. CASE x = ch
      BY <2>1, <3>1
    <3>2. CASE x # ch
      <4>1. /\ moved'[x] = moved[x] /\ base'[x] = base[x] /\ busy[x]
            /\ size'[x] = size[x] /\ ioAddr'[x] = ioAddr[x]
        BY <2>1, <3>2
      <4>2. EntriesExact(x) /\ CountExact(x)
        BY <4>1 DEF HistoryInv, SoFarExact
      <4>3. EntriesExact(x)'
        BY <4>1, <4>2 DEF EntriesExact
      <4>4. CountExact(x)'
        BY <4>1, <4>2 DEF CountExact, Count
      <4> QED
        BY <4>3, <4>4
    <3> QED
      BY <3>1, <3>2
  <2> QED
    BY <2>1 DEF SoFarExact
<1>4. AddressExact'
  <2>1. ASSUME NEW x \in Channels, busy'[x], active'[x], \A u \in Threads : ~Carries(u, x)'
        PROVE Follows(x, addr[x])'
    <3>1. CASE x = ch
      BY <2>1, <3>1
    <3>2. CASE x # ch
      <4>1. x \in Channels \ {ch} /\ busy[x] /\ active[x]
        BY <2>1, <3>2
      <4>2. Follows(x, addr[x])
        BY <1>2, <4>1 DEF HistoryInv, AddressExact
      <4> QED
        BY <4>1, <4>2 DEF Follows
    <3> QED
      BY <3>1, <3>2
  <2> QED
    BY <2>1 DEF AddressExact
<1>5. CarriedExact'
  <2>1. ASSUME NEW u \in Threads, NEW x \in Channels, loop'[u].at = "store", loop'[u].ch = x
        PROVE u = t /\ x = ch
    BY <1>1, <2>1
  <2> QED
    BY <2>1 DEF CarriedExact, Carries
<1> QED
  BY <1>3, <1>4, <1>5 DEF HistoryInv

LEMMA DoTransferHistory ==
  ASSUME SingleInv, HistoryInv, NEW t \in Threads, DoTransfer(t)
  PROVE /\ HistoryInv'
        /\ \A ch \in Channels : ~done[ch] /\ done'[ch] => MovedExactly(ch)'
<1>1. PICK ch \in Channels : Inside(t, ch)
  BY InsideChannel DEF SingleInv, TypeInv
<1>2. ~Fail
  BY NoFail
<1>3. dir \in [Channels -> {"CtoI", "ItoC"}] /\ loop[t] \in LoopRecord /\ loop[t].ch = ch
  BY <1>1, ChannelAssumption DEF SingleInv, TypeInv, TypeOK, LoopOK, Inside
<1>4. \A u \in Threads \ {t} : loop[u].at = "out"
  BY <1>1 DEF SingleInv, OneThread, Inside
<1> USE DEF mfVars, iopVars, cpuVars, history
<1>5. CASE TestLoop(t)
  <2>1. /\ UNCHANGED <<addr, limit, active, busy, done, ioAddr, size, dir>>
        /\ UNCHANGED history \/ (~busy[ch] /\ Forget(ch))
        /\ loop' = [loop EXCEPT ![t] = Idle] \/ loop' = [loop EXCEPT ![t] = [loop[t] EXCEPT !.at = "fetch"]]
        /\ loop[t].at = "test"
    <3>1. CASE ~(busy[ch] /\ active[ch])
      BY <1>3, <1>5, <3>1 DEF TestLoop
    <3>2. CASE busy[ch] /\ active[ch]
      BY <1>2, <1>3, <1>5, <3>2 DEF TestLoop
    <3> QED
      BY <3>1, <3>2
  <2>2. loop'[t].at \in {"out", "fetch"} /\ (loop'[t].at # "out" => loop'[t].ch = ch)
    BY <1>3, <2>1 DEF SingleInv, TypeInv, LoopOK, LoopRecord, Idle
  <2>3. HistoryType' /\ \A x \in Channels \ {ch} : moved'[x] = moved[x] /\ base'[x] = base[x]
    <3>1. CASE UNCHANGED history
      BY <3>1 DEF HistoryInv, HistoryType
    <3>2. CASE Forget(ch)
      <4>1. <<>> \in Seq(MovedWord) /\ NoBase \in (0 .. IoSize - 1) \X (0 .. IoSize - 1)
        BY ChannelAssumption DEF NoBase
      <4> QED
        BY <3>2, <4>1 DEF Forget, HistoryInv, HistoryType
    <3> QED
      BY <2>1, <3>1, <3>2
  <2>4. ASSUME busy'[ch] PROVE UNCHANGED history
    BY <2>1, <2>4
  <2>5. busy'[ch] => EntriesExact(ch)' /\ CountExact(ch)'
    BY <2>1, <2>4 DEF HistoryInv, SoFarExact, EntriesExact, CountExact, Count
  <2>6. busy'[ch] /\ active'[ch] => Follows(ch, addr[ch])'
    <3>1. \A u \in Threads : ~Carries(u, ch)
      BY <1>4, <2>1 DEF Carries
    <3> QED
      BY <2>1, <2>4, <3>1 DEF HistoryInv, AddressExact, Follows
  <2>7. ~Carries(t, ch)'
    BY <2>2 DEF Carries
  <2>8. HistoryInv'
    BY <1>1, <2>1, <2>2, <2>3, <2>5, <2>6, <2>7, OtherChannels
  <2> QED
    BY <2>1, <2>8
<1>6. CASE FetchCtoI(t)
  <2>1. /\ dir[ch] = "CtoI" /\ addr' = [addr EXCEPT ![ch] = @ + 1] /\ loop[t].at = "fetch"
        /\ loop' = [loop EXCEPT ![t] = [at |-> "store", ch |-> ch, word |-> addr[ch]]]
        /\ UNCHANGED <<limit, busy, done, ioAddr, size, history, dir>>
    BY <1>1, <1>2, <1>6, FetchEffect DEF SingleInv
  <2>2. \A x \in Channels \ {ch} : active'[x] = active[x]
    BY <1>1, <1>2, <1>6, FetchEffect DEF SingleInv, TypeInv, TypeOK
  <2>3. /\ loop'[t].at = "store" /\ loop'[t].ch = ch /\ loop'[t].word = addr[ch]
        /\ addr'[ch] = addr[ch] + 1 /\ \A x \in Channels \ {ch} : addr'[x] = addr[x]
    BY <2>1 DEF SingleInv, TypeInv, TypeOK, LoopOK
  <2>4. Follows(ch, addr[ch])
    <3>1. busy[ch] /\ active[ch]
      BY <1>1, <2>1 DEF SingleInv, WordOK, Inside
    <3>2. \A u \in Threads : ~Carries(u, ch)
      BY <1>4, <2>1 DEF Carries
    <3> QED
      BY <3>1, <3>2 DEF HistoryInv, AddressExact
  <2>5. Follows(ch, loop[t].word)'
    BY <2>1, <2>3, <2>4 DEF Follows
  <2>6. HistoryType' /\ (busy'[ch] => EntriesExact(ch)' /\ CountExact(ch)')
    BY <2>1 DEF HistoryInv, HistoryType, SoFarExact, EntriesExact, CountExact, Count
  <2>7. Carries(t, ch)'
    BY <2>1, <2>3 DEF Carries
  <2>8. HistoryInv'
    BY <1>1, <2>1, <2>2, <2>3, <2>5, <2>6, <2>7, OtherChannels
  <2> QED
    BY <2>1, <2>8
<1>7. CASE FetchItoC(t)
  <2>1. /\ dir[ch] = "ItoC" /\ loop[t].at = "fetch"
        /\ UNCHANGED <<addr, active, limit, busy, done, ioAddr, size, history, dir>>
        /\ loop' = [loop EXCEPT ![t] = [[@ EXCEPT !.at = "store"] EXCEPT !.word = ioAddr[ch]]]
    BY <1>3, <1>7 DEF FetchItoC, SingleInv, TypeInv, LoopOK
  <2>2. loop'[t].at = "store" /\ loop'[t].ch = ch /\ loop'[t].word = ioAddr[ch]
    BY <1>3, <2>1 DEF LoopRecord, SingleInv, TypeInv, LoopOK
  <2>3. \A u \in Threads : ~Carries(u, ch)
    BY <2>1 DEF Carries
  <2>4. busy'[ch] /\ active'[ch] => Follows(ch, addr[ch])'
    BY <2>1, <2>3 DEF HistoryInv, AddressExact, Follows
  <2>5. HistoryType' /\ (busy'[ch] => EntriesExact(ch)' /\ CountExact(ch)')
    BY <2>1 DEF HistoryInv, HistoryType, SoFarExact, EntriesExact, CountExact, Count
  <2>6. ~Carries(t, ch)'
    BY <2>1 DEF Carries
  <2>7. HistoryInv'
    BY <1>1, <2>1, <2>2, <2>4, <2>5, <2>6, OtherChannels
  <2> QED
    BY <2>1, <2>7
<1>8. CASE StoreCtoI(t) \/ StoreItoC(t)
  <2>1. /\ ioAddr' = [ioAddr EXCEPT ![ch] = NextIoAddr(@)]
        /\ size' = [size EXCEPT ![ch] = (size[ch] - 1) % IoSize]
        /\ busy' = [busy EXCEPT ![ch] = @ /\ (size[ch] - 1) % IoSize # 0]
        /\ done' = [done EXCEPT ![ch] = @ \/ (size[ch] - 1) % IoSize = 0]
        /\ EnterTransfer(t, ch) /\ UNCHANGED <<limit, base, dir>> /\ loop[t].at = "store"
    BY <1>1, <1>2, <1>8, StoreEffect
  <2>2. busy[ch]
    BY <1>1, <2>1 DEF SingleInv, WordOK, Inside
  (* The central address of the word, and what is next after it. *)
  <2>3. \E w \in Int :
          /\ Follows(ch, w)
          /\ moved' = [moved EXCEPT ![ch] = Append(@, [c |-> w, i |-> ioAddr[ch]])]
          /\ active'[ch] => addr'[ch] = w + 1
    <3>1. CASE StoreCtoI(t)
      <4>1. /\ dir[ch] = "CtoI" /\ UNCHANGED addr
            /\ moved' = [moved EXCEPT ![ch] = Append(@, [c |-> loop[t].word, i |-> ioAddr[ch]])]
        BY <1>3, <3>1 DEF StoreCtoI
      <4>2. Follows(ch, loop[t].word) /\ addr[ch] = loop[t].word + 1
        BY <1>3, <2>1, <4>1 DEF HistoryInv, CarriedExact, Carries
      <4>3. loop[t].word \in Int
        BY <1>3 DEF LoopRecord
      <4> QED
        BY <4>1, <4>2, <4>3
    <3>2. CASE StoreItoC(t)
      <4>1. /\ dir[ch] = "ItoC" /\ active[ch] /\ addr' = [addr EXCEPT ![ch] = @ + 1]
            /\ moved' = [moved EXCEPT ![ch] = Append(@, [c |-> addr[ch], i |-> loop[t].word])]
        BY <1>1, <1>2, <3>2, StoreItoCEffect
      <4>2. loop[t].word = ioAddr[ch]
        BY <1>3, <2>1, <4>1 DEF HistoryInv, CarriedExact
      <4>3. \A u \in Threads : ~Carries(u, ch)
        BY <4>1 DEF Carries
      <4>4. Follows(ch, addr[ch])
        BY <2>2, <4>1, <4>3 DEF HistoryInv, AddressExact
      <4>5. addr[ch] \in Int /\ addr'[ch] = addr[ch] + 1
        BY <4>1, ChannelAssumption DEF SingleInv, TypeInv, TypeOK
      <4> QED
        BY <4>1, <4>2, <4>4, <4>5
    <3> QED
      BY <1>8, <3>1, <3>2
  <2>4. PICK w \in Int :
          /\ Follows(ch, w)
          /\ moved' = [moved EXCEPT ![ch] = Append(@, [c |-> w, i |-> ioAddr[ch]])]
          /\ active'[ch] => addr'[ch] = w + 1
    BY <2>3
  <2>5. /\ HistoryType'
        /\ \A x \in Channels \ {ch} : moved'[x] = moved[x]
        /\ EntriesExact(ch)'
        /\ ioAddr'[ch] = (base[ch][1] + Len(moved'[ch])) % IoSize
        /\ Len(moved'[ch]) = Count(base[ch][2]) - (Count(size[ch]) - 1)
        /\ moved'[ch] # <<>> /\ moved'[ch][Len(moved'[ch])].c = w
    BY <2>1, <2>2, <2>4, AppendExact
  <2>6. (size[ch] - 1) % IoSize = Count(size[ch]) - 1 /\ Count(size[ch]) \in 1 .. IoSize
    BY CountDown DEF SingleInv, TypeInv, TypeOK
  <2>7. /\ size'[ch] = Count(size[ch]) - 1
        /\ busy'[ch] => size'[ch] # 0
        /\ done'[ch] => done[ch] \/ size'[ch] = 0
    BY <2>1, <2>6 DEF SingleInv, TypeInv, TypeOK
  <2>8. busy'[ch] => EntriesExact(ch)' /\ CountExact(ch)'
    <3>1. ASSUME size'[ch] # 0 PROVE Count(size'[ch]) = Count(size[ch]) - 1
      BY <2>7, <3>1 DEF Count
    <3> QED
      BY <2>1, <2>5, <2>7, <3>1 DEF CountExact, Count
  <2>9. active'[ch] => Follows(ch, addr[ch])'
    BY <2>4, <2>5 DEF Follows
  <2>10. loop'[t].at = "test" /\ loop'[t].ch = ch
    BY <2>1 DEF EnterTransfer, SingleInv, TypeInv, LoopOK
  <2>11. ASSUME NEW x \in Channels \ {ch}
         PROVE /\ busy'[x] = busy[x] /\ active'[x] = active[x] /\ addr'[x] = addr[x]
               /\ size'[x] = size[x] /\ ioAddr'[x] = ioAddr[x] /\ done'[x] = done[x]
               /\ moved'[x] = moved[x] /\ base'[x] = base[x]
    <3>1. active'[x] = active[x] /\ addr'[x] = addr[x]
      <4>1. CASE StoreCtoI(t)
        BY <4>1 DEF StoreCtoI
      <4>2. CASE StoreItoC(t)
        <5>1. addr' = [addr EXCEPT ![ch] = @ + 1]
          BY <1>1, <1>2, <4>2, StoreItoCEffect
        <5>2. active' = [active EXCEPT ![ch] = FALSE] \/ active' = active
          BY <1>1, <1>2, <4>2, StoreItoCEffect
        <5> QED
          BY <5>1, <5>2 DEF SingleInv, TypeInv, TypeOK
      <4> QED
        BY <1>8, <4>1, <4>2
    <3> QED
      BY <2>1, <2>5, <3>1 DEF SingleInv, TypeInv, TypeOK
  <2>12. HistoryInv'
    BY <1>1, <2>1, <2>5, <2>8, <2>9, <2>10, <2>11, OtherChannels DEF Carries
  <2>13. ASSUME NEW x \in Channels, ~done[x], done'[x] PROVE MovedExactly(x)'
    <3>1. x = ch
      BY <2>11, <2>13
    <3>2. size'[ch] = 0
      BY <2>7, <2>13, <3>1
    <3>3. Len(moved'[ch]) = Count(base'[ch][2])
      <4>1. Count(base[ch][2]) \in Int
        BY ChannelAssumption DEF Count, HistoryInv, HistoryType
      <4>2. Count(base'[ch][2]) = Count(base[ch][2])
        BY <2>1
      <4> QED
        BY <2>5, <2>7, <3>2, <4>1, <4>2
    <3> QED
      BY <2>5, <3>1, <3>3 DEF MovedExactly, EntriesExact, Count
  <2> QED
    BY <2>12, <2>13
<1> QED
  BY <1>5, <1>6, <1>7, <1>8 DEF DoTransfer

LEMMA HistoryStep ==
  ASSUME ~MultiThreaded, SingleInv, HistoryInv, [Next]_vars
  PROVE HistoryInv' /\ \A ch \in Channels : ~done[ch] /\ done'[ch] => MovedExactly(ch)'
<1>1. CASE UNCHANGED vars
  BY <1>1
  DEF HistoryInv, HistoryType, SoFarExact, EntriesExact, CountExact, Count, AddressExact, Carries,
      CarriedExact, Follows, vars, mfVars, iopVars, history
<1>2. CASE OperatingSystem \/ Iop
  <2>1. \A ch \in Channels : done'[ch] => done[ch]
    BY <1>2
    DEF OperatingSystem, TakeInterrupt, ClearInterrupt, EndService, MC, SetLimit, SetAddress,
        Iop, MasterClear, DoIo0, DoIo1, DoIo2, DoIo4CtoI, DoIo4ItoC, iopVars,
        SingleInv, TypeInv, TypeOK
  <2> QED
    BY <1>2, <2>1, OperatingSystemHistory, IopHistory
<1> QED
  BY <1>1, <1>2, DoTransferHistory DEF Next

(* In a single-threaded build a transfer that becomes done has moved       *)
(* exactly the programmed number of words, 16384 for a count of 0, through *)
(* consecutive addresses of IOP memory with wrap-around and of central     *)
(* memory between the windows, whatever interrupted it in between: a       *)
(* window used up, a master clear, a disconnect, another window.           *)
THEOREM TransfersExact == ASSUME ~MultiThreaded PROVE Spec => TransferExact
<1>1. SingleInv /\ HistoryInv /\ [Next]_vars => HistoryInv'
  BY HistoryStep
<1>2. SingleInv /\ HistoryInv /\ [Next]_vars
        => [\A ch \in Channels : ~done[ch] /\ done'[ch] => MovedExactly(ch)']_vars
  BY HistoryStep
<1> QED
  BY <1>1, <1>2, HistoryInit, SingleInvCorrect, PTL DEF Spec, TransferExact
=============================================================================

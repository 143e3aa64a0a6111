---------------------------- MODULE EthernetProofs ----------------------------
(***************************************************************************)
(* Proofs about an Ethernet interface of a simulated I/O subsystem, for    *)
(* all ring sizes and every number of frames, packets, sessions and kicks. *)
(* First lemmas about the rings, then one part for each conjunct of the    *)
(* inductive invariant EthInv.                                             *)
(***************************************************************************)
EXTENDS Ethernet, SequenceTheorems, TLAPS

(* What the capture thread hands over: its number and whether it fits an   *)
(* entry.                                                                  *)
Frame == [id : Nat, fits : BOOLEAN]

(* A ring of n entries in the memory of the mainframe; the length of its   *)
(* entries is left to the module Ethernet.                                 *)
RingOf(n) == [rd : 0 .. n - 1, wr : 0 .. n - 1, size : {n}, slots : [0 .. n - 1 -> Nat]]

(* How far index i is ahead of the read index; Used(r) entries wait, and   *)
(* the i-th of them is in slot At(r, i).                                   *)
Ahead(r, i) == (i - r.rd) % r.size
Used(r) == Ahead(r, r.wr)
At(r, i) == (r.rd + i - 1) % r.size

-----------------------------------------------------------------------------
(* Where the main thread is, what the driver asks for, what it believes.   *)
Places == {"idle", "rxIndex", "rxWake", "tx", "kick", "txSleep"}
Requests == {"open", "close", "wakeOutput"}
States == {"closed", "opening", "open", "closing"}

FramesType ==
  /\ present \in BOOLEAN /\ started \in BOOLEAN /\ paused \in BOOLEAN
  /\ held \in Seq(Frame) /\ hostQueue \in Seq(Frame) /\ accepted \in Seq(Frame)
  /\ pc \in Places /\ frame \in Frame

RingsType ==
  /\ in \in RingOf(InSize) /\ out \in RingOf(OutSize)
  /\ tx \in [rd : 0 .. OutSize - 1, idx : 0 .. OutSize - 1, wr : 0 .. OutSize - 1]
  /\ consumed \in Seq(Nat) /\ wire \in Seq(Nat)
  /\ resent \in SUBSET Nat /\ lostIn \in SUBSET Nat /\ lostOut \in SUBSET Nat

DriverType ==
  /\ toCray \in [AnswerKinds -> Nat] /\ fromCray \in Seq(Requests)
  /\ driver \in States /\ inAwake \in BOOLEAN /\ outAsleep \in BOOLEAN
  /\ arrived \in Nat /\ puts \in Nat /\ opens \in Nat /\ kicks \in Nat

TypeOK == FramesType /\ RingsType /\ DriverType

-----------------------------------------------------------------------------
(* The remainder operator around the end of a ring: what the indices of    *)
(* HandleRxPacket and HandleTxPackets wrap with.                           *)
LEMMA Remainders ==
  ASSUME NEW n \in Nat \ {0}
  PROVE /\ \A a \in 0 .. n - 1 : a % n = a
        /\ \A a \in n .. 2 * n - 1 : a % n = a - n
        /\ \A a \in 1 - n .. -1 : a % n = a + n
<1>1. \A a \in 0 .. n - 1 : a % n = a
  OBVIOUS
<1>2. \A a \in n .. 2 * n - 1 : a % n = a - n
  OBVIOUS
<1>3. \A a \in 1 - n .. -1 : a % n = a + n
  OBVIOUS
<1> QED
  BY <1>1, <1>2, <1>3

(* The three index computations of a ring, without remainders: one step    *)
(* on, the distance from the read index, the place of an entry.            *)
LEMMA RingIndices ==
  ASSUME NEW n \in Nat \ {0}, NEW r \in RingOf(n)
  PROVE /\ \A i \in 0 .. n - 1 : NextIdx(i, r) = (IF i = n - 1 THEN 0 ELSE i + 1)
        /\ \A i \in 0 .. n - 1 : Ahead(r, i) = (IF i >= r.rd THEN i - r.rd ELSE i - r.rd + n)
        /\ \A i \in 1 .. n : At(r, i) = (IF r.rd + i - 1 < n THEN r.rd + i - 1 ELSE r.rd + i - 1 - n)
<1> r.rd \in 0 .. n - 1 /\ r.wr \in 0 .. n - 1 /\ r.size = n /\ n \in Nat /\ n > 0
  BY DEF RingOf
<1>1. ASSUME NEW i \in 0 .. n - 1 PROVE NextIdx(i, r) = (IF i = n - 1 THEN 0 ELSE i + 1)
  <2>1. CASE i = n - 1
    <3>1. i + 1 \in n .. 2 * n - 1 /\ i + 1 - n = 0
      BY <2>1
    <3> QED
      BY <3>1, <2>1, Remainders DEF NextIdx
  <2>2. CASE i # n - 1
    <3>1. i + 1 \in 0 .. n - 1
      BY <2>2
    <3> QED
      BY <3>1, <2>2, Remainders DEF NextIdx
  <2> QED
    BY <2>1, <2>2
<1>2. ASSUME NEW i \in 0 .. n - 1
      PROVE Ahead(r, i) = (IF i >= r.rd THEN i - r.rd ELSE i - r.rd + n)
  <2> DEFINE a == i - r.rd
  <2>1. CASE i >= r.rd
    <3>1. a \in 0 .. n - 1
      BY <2>1
    <3> QED
      BY <3>1, <2>1, Remainders DEF Ahead
  <2>2. CASE ~(i >= r.rd)
    <3>1. a \in 1 - n .. -1
      BY <2>2
    <3> QED
      BY <3>1, <2>2, Remainders DEF Ahead
  <2> QED
    BY <2>1, <2>2
<1>3. ASSUME NEW i \in 1 .. n
      PROVE At(r, i) = (IF r.rd + i - 1 < n THEN r.rd + i - 1 ELSE r.rd + i - 1 - n)
  <2> DEFINE a == r.rd + i - 1
  <2>1. CASE a < n
    <3>1. a \in 0 .. n - 1
      BY <2>1
    <3> QED
      BY <3>1, <2>1, Remainders DEF At
  <2>2. CASE ~(a < n)
    <3>1. a \in n .. 2 * n - 1
      BY <2>2
    <3> QED
      BY <3>1, <2>2, Remainders DEF At
  <2> QED
    BY <2>1, <2>2
<1> QED
  BY <1>1, <1>2, <1>3

(* An index of a ring and its distance from the read index: a step on adds *)
(* one unless it meets the read index, and then the ring is full.          *)
LEMMA RingIndex ==
  ASSUME NEW n \in Nat \ {0}, NEW r \in RingOf(n), NEW i \in 0 .. n - 1
  PROVE /\ NextIdx(i, r) \in 0 .. n - 1
        /\ Ahead(r, i) \in 0 .. n - 1
        /\ At(r, Ahead(r, i) + 1) = i
        /\ NextIdx(i, r) # r.rd => Ahead(r, NextIdx(i, r)) = Ahead(r, i) + 1
        /\ NextIdx(i, r) = r.rd => Ahead(r, i) = n - 1
        /\ i = r.rd => Ahead(r, i) = 0
<1>0. r.rd \in 0 .. n - 1 /\ n \in Nat /\ n > 0
  BY DEF RingOf
<1>1. NextIdx(i, r) = (IF i = n - 1 THEN 0 ELSE i + 1)
  BY RingIndices
<1>2. NextIdx(i, r) \in 0 .. n - 1
  BY <1>0, <1>1
<1>3. Ahead(r, i) = (IF i >= r.rd THEN i - r.rd ELSE i - r.rd + n)
  BY RingIndices
<1>4. Ahead(r, i) \in 0 .. n - 1 /\ Ahead(r, i) + 1 \in 1 .. n
  BY <1>0, <1>3
<1> DEFINE k == Ahead(r, i)
<1>5. At(r, k + 1) = (IF r.rd + (k + 1) - 1 < n THEN r.rd + (k + 1) - 1 ELSE r.rd + (k + 1) - 1 - n)
  BY <1>4, RingIndices
<1>6. Ahead(r, NextIdx(i, r)) = (IF NextIdx(i, r) >= r.rd THEN NextIdx(i, r) - r.rd
                                 ELSE NextIdx(i, r) - r.rd + n)
  BY <1>2, RingIndices
<1>7. At(r, k + 1) = i
  BY <1>0, <1>3, <1>4, <1>5
<1>8. NextIdx(i, r) # r.rd => Ahead(r, NextIdx(i, r)) = Ahead(r, i) + 1
  BY <1>0, <1>1, <1>2, <1>3, <1>6
<1>9. NextIdx(i, r) = r.rd => Ahead(r, i) = n - 1
  BY <1>0, <1>1, <1>3
<1>10. i = r.rd => Ahead(r, i) = 0
  BY <1>0, <1>3
<1> QED
  BY <1>2, <1>4, <1>7, <1>8, <1>9, <1>10

(* The slot of the i-th entry of a ring is i - 1 steps ahead of the read   *)
(* index.                                                                  *)
LEMMA RingPlace ==
  ASSUME NEW n \in Nat \ {0}, NEW r \in RingOf(n), NEW i \in 1 .. n
  PROVE At(r, i) \in 0 .. n - 1 /\ Ahead(r, At(r, i)) = i - 1
<1>0. r.rd \in 0 .. n - 1 /\ n \in Nat /\ n > 0
  BY DEF RingOf
<1>1. At(r, i) = (IF r.rd + i - 1 < n THEN r.rd + i - 1 ELSE r.rd + i - 1 - n)
  BY RingIndices
<1>2. At(r, i) \in 0 .. n - 1
  BY <1>0, <1>1
<1>3. Ahead(r, At(r, i)) = (IF At(r, i) >= r.rd THEN At(r, i) - r.rd ELSE At(r, i) - r.rd + n)
  BY <1>2, RingIndices
<1> QED
  BY <1>0, <1>1, <1>2, <1>3

(* A ring holds the entries from its read to its write index, and is empty *)
(* when the two are equal.                                                 *)
LEMMA RingEntries ==
  ASSUME NEW n \in Nat \ {0}, NEW r \in RingOf(n)
  PROVE /\ Used(r) \in 0 .. n - 1
        /\ Entries(r) \in Seq(Nat) /\ Len(Entries(r)) = Used(r)
        /\ \A i \in 1 .. Used(r) : Entries(r)[i] = r.slots[At(r, i)]
        /\ r.rd = r.wr <=> Used(r) = 0
<1>0. /\ r.rd \in 0 .. n - 1 /\ r.wr \in 0 .. n - 1 /\ r.size = n /\ n \in Nat /\ n > 0
      /\ r.slots \in [0 .. n - 1 -> Nat]
  BY DEF RingOf
<1>1. Used(r) \in 0 .. n - 1
  BY <1>0, RingIndex DEF Used
<1>2. \A i \in 1 .. Used(r) : At(r, i) \in 0 .. n - 1
  <2> SUFFICES ASSUME NEW i \in 1 .. Used(r) PROVE At(r, i) \in 0 .. n - 1
    OBVIOUS
  <2>1. i \in 1 .. n
    BY <1>0, <1>1
  <2> QED
    BY <2>1, RingPlace
<1>3. Entries(r) = [i \in 1 .. Used(r) |-> r.slots[At(r, i)]]
  BY DEF Entries, Used, Ahead, At
<1>4. r.rd = r.wr <=> Used(r) = 0
  <2>1. Used(r) = (IF r.wr >= r.rd THEN r.wr - r.rd ELSE r.wr - r.rd + n)
    BY <1>0, RingIndices DEF Used
  <2> QED
    BY <2>1, <1>0
<1> DEFINE u == Used(r)
<1>5. \A i \in 1 .. u : r.slots[At(r, i)] \in Nat
  BY <1>0, <1>2
<1>6. [i \in 1 .. u |-> r.slots[At(r, i)]] \in Seq(Nat) /\ Len([i \in 1 .. u |-> r.slots[At(r, i)]]) = u
  <2> HIDE DEF u
  <2>1. u \in Nat
    BY <1>1 DEF u
  <2> QED
    BY <1>5, <2>1
<1> QED
  BY <1>1, <1>3, <1>4, <1>6

(* The driver opens the interface with empty rings.                        *)
LEMMA NewRings ==
  ASSUME NEW n \in Nat \ {0}
  PROVE NewRing(n) \in RingOf(n) /\ Entries(NewRing(n)) = <<>>
<1>1. NewRing(n) \in RingOf(n)
  BY DEF NewRing, RingOf
<1>2. Used(NewRing(n)) = 0
  BY <1>1, RingEntries DEF NewRing
<1>3. Entries(NewRing(n)) \in Seq(Nat) /\ Len(Entries(NewRing(n))) = 0
  BY <1>1, <1>2, RingEntries
<1> QED
  BY <1>1, <1>3

(* Moving one index of a ring (HandleRxPacket its write index,             *)
(* HandleTxPackets its read index) leaves the rest.                        *)
LEMMA RingFields ==
  ASSUME NEW n \in Nat \ {0}, NEW r \in RingOf(n), NEW i \in 0 .. n - 1
  PROVE /\ [r EXCEPT !.rd = i] \in RingOf(n)
        /\ [r EXCEPT !.rd = i].rd = i /\ [r EXCEPT !.rd = i].wr = r.wr
        /\ [r EXCEPT !.rd = i].slots = r.slots
        /\ [r EXCEPT !.wr = i] \in RingOf(n)
        /\ [r EXCEPT !.wr = i].rd = r.rd /\ [r EXCEPT !.wr = i].wr = i
        /\ [r EXCEPT !.wr = i].slots = r.slots
<1> USE DEF RingOf
<1>1. [r EXCEPT !.rd = i] \in RingOf(n)
  OBVIOUS
<1>2. [r EXCEPT !.wr = i] \in RingOf(n)
  OBVIOUS
<1> QED
  BY <1>1, <1>2

(* Writing the slot at the write index, as HandleRxPacket does before it   *)
(* moves the index, changes no other slot.                                 *)
LEMMA RingSlots ==
  ASSUME NEW n \in Nat \ {0}, NEW r \in RingOf(n), NEW v \in Nat,
         NEW r2, r2 = [r EXCEPT !.slots[r.wr] = v]
  PROVE /\ r2 \in RingOf(n) /\ r2.rd = r.rd /\ r2.wr = r.wr /\ r2.slots[r.wr] = v
        /\ \A j \in 0 .. n - 1 : j # r.wr => r2.slots[j] = r.slots[j]
<1> DEFINE s == [r.slots EXCEPT ![r.wr] = v]
<1>0. r.rd \in 0 .. n - 1 /\ r.wr \in 0 .. n - 1 /\ r.slots \in [0 .. n - 1 -> Nat] /\ r.size = n
  BY DEF RingOf
<1>1. s \in [0 .. n - 1 -> Nat] /\ s[r.wr] = v /\ \A j \in 0 .. n - 1 : j # r.wr => s[j] = r.slots[j]
  BY <1>0
<1> DEFINE q == [rd |-> r.rd, wr |-> r.wr, size |-> n, slots |-> s]
<1>2. r2 = q
  BY <1>0 DEF RingOf
<1> HIDE DEF s
<1>3. q \in RingOf(n) /\ q.rd = r.rd /\ q.wr = r.wr /\ q.slots = s
  BY <1>0, <1>1 DEF RingOf
<1> HIDE DEF q
<1> QED
  BY <1>1, <1>2, <1>3

(* The slot at the write index is none of the entries: HandleRxPacket may  *)
(* write it while the driver reads the ring.                               *)
LEMMA RingWrite ==
  ASSUME NEW n \in Nat \ {0}, NEW r \in RingOf(n), NEW r2 \in RingOf(n),
         r2.rd = r.rd, r2.wr = r.wr,
         \A i \in 0 .. n - 1 : i # r.wr => r2.slots[i] = r.slots[i]
  PROVE Entries(r2) = Entries(r)
<1>0. /\ r.rd \in 0 .. n - 1 /\ r.wr \in 0 .. n - 1 /\ r.size = n /\ r2.size = n /\ n \in Nat /\ n > 0
  BY DEF RingOf
<1>1. Used(r2) = Used(r) /\ \A i \in 1 .. n : At(r2, i) = At(r, i)
  BY <1>0 DEF Used, Ahead, At
<1>2. Used(r) \in 0 .. n - 1
  BY RingEntries
<1>3. ASSUME NEW i \in 1 .. Used(r) PROVE Entries(r2)[i] = Entries(r)[i]
  <2>1. i \in 1 .. n /\ i - 1 # Used(r)
    BY <1>0, <1>2
  <2>2. At(r, i) \in 0 .. n - 1 /\ Ahead(r, At(r, i)) = i - 1
    BY <2>1, RingPlace
  <2>3. At(r, i) # r.wr
    BY <2>1, <2>2 DEF Used
  <2>4. Entries(r)[i] = r.slots[At(r, i)] /\ Entries(r2)[i] = r2.slots[At(r2, i)]
    BY <1>1, RingEntries
  <2> QED
    BY <2>1, <2>2, <2>3, <2>4, <1>1
<1>4. /\ Entries(r2) \in Seq(Nat) /\ Entries(r) \in Seq(Nat)
      /\ Len(Entries(r2)) = Len(Entries(r)) /\ Len(Entries(r)) = Used(r)
  BY <1>1, RingEntries
<1> QED
  BY <1>3, <1>4, SeqEqual

(* A step of the write index of a ring that is not full makes the slot     *)
(* there the last entry (HandleRxPacket, and the driver's output).         *)
LEMMA RingAppend ==
  ASSUME NEW n \in Nat \ {0}, NEW r \in RingOf(n), NEW r2 \in RingOf(n), NEW v \in Nat,
         r2.rd = r.rd, r2.wr = NextIdx(r.wr, r), NextIdx(r.wr, r) # r.rd,
         \A i \in 0 .. n - 1 : i # r.wr => r2.slots[i] = r.slots[i],
         r2.slots[r.wr] = v
  PROVE Entries(r2) = Append(Entries(r), v) /\ Used(r2) = Used(r) + 1
<1>0. /\ r.rd \in 0 .. n - 1 /\ r.wr \in 0 .. n - 1 /\ r.size = n /\ r2.size = n /\ n \in Nat /\ n > 0
  BY DEF RingOf
<1>1. /\ Used(r2) = Used(r) + 1 /\ \A i \in 1 .. n : At(r2, i) = At(r, i)
  <2>1. Used(r2) = Ahead(r, r2.wr)
    BY <1>0 DEF Used, Ahead
  <2>2. Ahead(r, NextIdx(r.wr, r)) = Ahead(r, r.wr) + 1
    BY <1>0, RingIndex
  <2>3. \A i \in 1 .. n : At(r2, i) = At(r, i)
    BY <1>0 DEF At
  <2> QED
    BY <2>1, <2>2, <2>3 DEF Used
<1>2. Used(r) \in 0 .. n - 1 /\ Used(r2) \in 0 .. n - 1
  BY RingEntries
<1>3. /\ Entries(r2) \in Seq(Nat) /\ Entries(r) \in Seq(Nat)
      /\ Len(Entries(r2)) = Used(r) + 1 /\ Len(Entries(r)) = Used(r)
  BY <1>1, RingEntries
<1>4. ASSUME NEW i \in 1 .. Used(r) PROVE Entries(r2)[i] = Entries(r)[i]
  <2>1. i \in 1 .. n /\ i - 1 # Used(r) /\ i \in 1 .. Used(r2)
    BY <1>0, <1>1, <1>2
  <2>2. At(r, i) \in 0 .. n - 1 /\ Ahead(r, At(r, i)) = i - 1
    BY <2>1, RingPlace
  <2>3. At(r, i) # r.wr
    BY <2>1, <2>2 DEF Used
  <2>4. Entries(r)[i] = r.slots[At(r, i)] /\ Entries(r2)[i] = r2.slots[At(r2, i)]
    BY <2>1, RingEntries
  <2> QED
    BY <2>1, <2>2, <2>3, <2>4, <1>1
<1>5. Entries(r2)[Used(r) + 1] = v
  <2>1. Used(r) + 1 \in 1 .. n /\ Used(r) + 1 \in 1 .. Used(r2)
    BY <1>0, <1>1, <1>2
  <2>2. At(r, Used(r) + 1) = r.wr
    BY <1>0, RingIndex DEF Used
  <2>3. Entries(r2)[Used(r) + 1] = r2.slots[At(r2, Used(r) + 1)]
    BY <2>1, RingEntries
  <2> QED
    BY <2>1, <2>2, <2>3, <1>1
<1> DEFINE s == Entries(r)  t == Entries(r2)
<1>6. /\ Append(s, v) \in Seq(Nat) /\ Len(Append(s, v)) = Len(s) + 1
      /\ \A i \in 1 .. Len(s) : Append(s, v)[i] = s[i]
      /\ Append(s, v)[Len(s) + 1] = v
  BY <1>3
<1>7. ASSUME NEW i \in 1 .. Len(t) PROVE t[i] = Append(s, v)[i]
  <2>1. CASE i \in 1 .. Len(s)
    BY <2>1, <1>3, <1>4, <1>6
  <2>2. CASE i = Len(s) + 1
    BY <2>2, <1>3, <1>5, <1>6
  <2> QED
    BY <2>1, <2>2, <1>2, <1>3
<1>8. t \in Seq(Nat) /\ Len(t) = Len(Append(s, v))
  BY <1>3, <1>6
<1> HIDE DEF s, t
<1>9. t = Append(s, v)
  BY <1>6, <1>7, <1>8, SeqEqual
<1> QED
  BY <1>1, <1>9 DEF s, t

(* A read index moved over entries that wait leaves those behind them, as  *)
(* HandleTxPackets does once it has sent them.                             *)
LEMMA RingSkip ==
  ASSUME NEW n \in Nat \ {0}, NEW r \in RingOf(n), NEW r2 \in RingOf(n), NEW i \in 0 .. n - 1,
         r2.rd = i, r2.wr = r.wr, r2.slots = r.slots, Ahead(r, i) <= Used(r)
  PROVE /\ Len(Entries(r2)) = Used(r) - Ahead(r, i)
        /\ \A j \in 1 .. Used(r) - Ahead(r, i) : Entries(r2)[j] = Entries(r)[Ahead(r, i) + j]
<1>0. /\ r.rd \in 0 .. n - 1 /\ r.wr \in 0 .. n - 1 /\ r2.wr \in 0 .. n - 1 /\ n \in Nat /\ n > 0
  BY DEF RingOf
<1> DEFINE k == Ahead(r, i)
<1>1. k = (IF i >= r.rd THEN i - r.rd ELSE i - r.rd + n) /\ k \in 0 .. n - 1
  BY <1>0, RingIndices, RingIndex
<1>2. Used(r) = (IF r.wr >= r.rd THEN r.wr - r.rd ELSE r.wr - r.rd + n) /\ Used(r) \in 0 .. n - 1
  BY <1>0, RingIndices, RingEntries DEF Used
<1>3. Used(r2) = (IF r.wr >= i THEN r.wr - i ELSE r.wr - i + n)
  BY <1>0, RingIndices DEF Used
<1>4. Used(r2) = Used(r) - k
  BY <1>0, <1>1, <1>2, <1>3
<1>5. ASSUME NEW j \in 1 .. Used(r) - k PROVE Entries(r2)[j] = Entries(r)[k + j]
  <2>1. j \in 1 .. n /\ k + j \in 1 .. n /\ k + j \in 1 .. Used(r) /\ j \in 1 .. Used(r2)
    BY <1>0, <1>1, <1>2, <1>4
  <2>2. At(r2, j) = (IF i + j - 1 < n THEN i + j - 1 ELSE i + j - 1 - n)
    BY <2>1, RingIndices
  <2>3. At(r, k + j) = (IF r.rd + (k + j) - 1 < n THEN r.rd + (k + j) - 1 ELSE r.rd + (k + j) - 1 - n)
    BY <2>1, RingIndices
  <2>4. At(r2, j) = At(r, k + j)
    BY <2>1, <2>2, <2>3, <1>0, <1>1
  <2>5. Entries(r)[k + j] = r.slots[At(r, k + j)] /\ Entries(r2)[j] = r2.slots[At(r2, j)]
    BY <2>1, RingEntries
  <2> QED
    BY <2>4, <2>5
<1>6. Len(Entries(r2)) = Used(r2)
  BY RingEntries
<1> QED
  BY <1>4, <1>5, <1>6

(* A step of the read index takes the oldest entry (the driver's input).   *)
LEMMA RingTake ==
  ASSUME NEW n \in Nat \ {0}, NEW r \in RingOf(n), NEW r2 \in RingOf(n), r.rd # r.wr,
         r2.rd = NextIdx(r.rd, r), r2.wr = r.wr, r2.slots = r.slots
  PROVE /\ Entries(r) # <<>> /\ Head(Entries(r)) = r.slots[r.rd]
        /\ Entries(r2) = Tail(Entries(r)) /\ Used(r2) = Used(r) - 1
<1>0. /\ r.rd \in 0 .. n - 1 /\ r.wr \in 0 .. n - 1 /\ n \in Nat /\ n > 0
  BY DEF RingOf
<1>1. Used(r) \in 1 .. n - 1 /\ Entries(r) \in Seq(Nat) /\ Len(Entries(r)) = Used(r)
  BY RingEntries
<1>2. NextIdx(r.rd, r) # r.rd /\ NextIdx(r.rd, r) \in 0 .. n - 1
  <2>1. NextIdx(r.rd, r) = (IF r.rd = n - 1 THEN 0 ELSE r.rd + 1)
    BY <1>0, RingIndices
  <2> QED
    BY <2>1, <1>0, <1>1
<1>3. Ahead(r, NextIdx(r.rd, r)) = 1
  BY <1>0, <1>2, RingIndex
<1>4. /\ Len(Entries(r2)) = Used(r) - 1
      /\ \A j \in 1 .. Used(r) - 1 : Entries(r2)[j] = Entries(r)[1 + j]
  BY <1>1, <1>2, <1>3, RingSkip
<1>5. At(r, 1) = r.rd
  BY <1>0, RingIndex
<1>6. Head(Entries(r)) = r.slots[r.rd]
  <2>1. Entries(r)[1] = r.slots[At(r, 1)]
    BY <1>1, RingEntries
  <2> QED
    BY <1>1, <1>5, <2>1
<1>7. Entries(r2) \in Seq(Nat) /\ Used(r2) = Len(Entries(r2))
  BY RingEntries
<1> DEFINE s == Entries(r)  t == Entries(r2)
<1>8. Tail(s) \in Seq(Nat) /\ Len(Tail(s)) = Len(s) - 1 /\ \A j \in 1 .. Len(s) - 1 : Tail(s)[j] = s[1 + j]
  BY <1>1
<1>9. t \in Seq(Nat) /\ Len(t) = Len(Tail(s)) /\ \A j \in 1 .. Len(t) : t[j] = Tail(s)[j]
  BY <1>1, <1>4, <1>7, <1>8
<1> HIDE DEF s, t
<1>10. t = Tail(s)
  BY <1>8, <1>9, SeqEqual
<1> QED
  BY <1>1, <1>4, <1>6, <1>7, <1>10 DEF s, t

-----------------------------------------------------------------------------
(* Every step of the capture thread, the main thread and the driver keeps  *)
(* the types of what passes between the first two.                         *)
LEMMA FramesTyped == TypeOK /\ [EthNext]_ethVars => FramesType'
<1> SUFFICES ASSUME TypeOK, [EthNext]_ethVars PROVE FramesType'
  OBVIOUS
<1> USE DEF FramesType, Places
<1>a. FramesType /\ arrived \in Nat
  BY DEF TypeOK, DriverType
<1>1. CASE Receive
  <2>1. PICK passes, fits \in BOOLEAN :
          held' = IF passes /\ ~paused THEN <<[id |-> arrived + 1, fits |-> fits]>> ELSE <<>>
    BY <1>1 DEF Receive
  <2>2. [id |-> arrived + 1, fits |-> fits] \in Frame
    BY <1>a DEF Frame
  <2>3. held' \in Seq(Frame)
    BY <2>1, <2>2
  <2> QED
    BY <1>1, <1>a, <2>3 DEF Receive, mainVars, history
<1>2. CASE Push
  BY <1>2, <1>a DEF Push, mainVars
<1>3. CASE RxFill
  <2>1. hostQueue # <<>> /\ hostQueue' = Tail(hostQueue)
    BY <1>3 DEF RxFill
  <2>2. Head(hostQueue) \in Frame /\ Tail(hostQueue) \in Seq(Frame)
    BY <1>a, <2>1
  <2>3. pc' \in Places /\ frame' \in Frame
    BY <1>3, <1>a, <2>2 DEF RxFill
  <2> QED
    BY <1>3, <1>a, <2>1, <2>2, <2>3 DEF RxFill, history
<1>4. CASE RxIndex
  BY <1>4, <1>a DEF RxIndex, Rx, history, Nothing, Frame
<1>5. CASE RxWake
  BY <1>5, <1>a DEF RxWake, Rx, history
<1>6. CASE TxSend \/ TxIndex \/ TxSleep \/ Kick \/ KickFails
  BY <1>6, <1>a DEF TxSend, TxIndex, TxSleep, Kick, KickFails, Tx, threads
<1>7. CASE HandleOpen \/ HandleClose \/ HandleWakeOutput
  BY <1>7, <1>a DEF HandleOpen, HandleClose, HandleWakeOutput, HandleRequest, history
<1>8. CASE Open \/ Close \/ Put \/ Consume
  BY <1>8, <1>a DEF Open, Close, Put, Consume, Driver, threads, mainVars
<1>9. CASE Answers
  BY <1>9, <1>a DEF Answers, TakeOpened, TakeClosed, TakeWakeInput, TakeSleepOutput, Take, Driver,
     threads, mainVars
<1>10. CASE UNCHANGED ethVars
  BY <1>10, <1>a DEF ethVars, threads, mainVars, history
<1> QED
  BY <1>1, <1>2, <1>3, <1>4, <1>5, <1>6, <1>7, <1>8, <1>9, <1>10 DEF EthNext, MainThread

(* Every step keeps the types of the packets under way and of what the     *)
(* driver believes.                                                        *)
LEMMA DriverTyped == TypeOK /\ [EthNext]_ethVars => DriverType'
<1> SUFFICES ASSUME TypeOK, [EthNext]_ethVars PROVE DriverType'
  OBVIOUS
<1> USE DEF DriverType, Requests, States, AnswerKinds
<1>a. DriverType
  BY DEF TypeOK
<1>1. CASE Receive \/ Push
  <2>1. UNCHANGED <<toCray, fromCray, driver, inAwake, outAsleep, puts, opens, kicks>> /\ arrived' \in Nat
    BY <1>1, <1>a DEF Receive, Push, driverVars, counters
  <2> QED
    BY <2>1, <1>a
<1>2. CASE RxFill \/ RxIndex \/ RxWake
  BY <1>2, <1>a DEF RxFill, RxIndex, RxWake, Rx, SendResponse, driverVars, counters
<1>3. CASE TxSend \/ TxIndex \/ TxSleep \/ Kick \/ KickFails
  BY <1>3, <1>a DEF TxSend, TxIndex, TxSleep, Kick, KickFails, Tx, SendResponse, driverVars
<1>4. CASE HandleOpen \/ HandleClose \/ HandleWakeOutput
  <2>1. fromCray # <<>> /\ fromCray' = Tail(fromCray)
    BY <1>4 DEF HandleOpen, HandleClose, HandleWakeOutput, HandleRequest
  <2>2. fromCray' \in Seq(Requests)
    BY <1>a, <2>1
  <2>3. toCray' \in [AnswerKinds -> Nat]
    BY <1>4, <1>a DEF HandleOpen, HandleClose, HandleWakeOutput, SendResponse
  <2> QED
    BY <1>4, <1>a, <2>2, <2>3 DEF HandleOpen, HandleClose, HandleWakeOutput, HandleRequest,
       driverVars, counters
<1>5. CASE Open \/ Close \/ Put \/ Consume
  <2>1. fromCray' \in Seq(Requests)
    <3>1. \A q \in Requests : Append(fromCray, q) \in Seq(Requests)
      BY <1>a
    <3>2. Append(fromCray, "open") \in Seq(Requests) /\ Append(fromCray, "close") \in Seq(Requests)
          /\ Append(fromCray, "wakeOutput") \in Seq(Requests)
      BY <3>1
    <3>3. fromCray' \in {fromCray, Append(fromCray, "open"), Append(fromCray, "close"),
                         Append(fromCray, "wakeOutput")}
      BY <1>5 DEF Open, Close, Put, Consume, Request
    <3> QED
      BY <1>a, <3>2, <3>3
  <2>2. toCray' = toCray /\ driver' \in States /\ inAwake' \in BOOLEAN /\ outAsleep' \in BOOLEAN
    BY <1>5, <1>a DEF Open, Close, Put, Consume
  <2>3. opens' \in Nat /\ puts' \in Nat /\ arrived' = arrived /\ kicks' = kicks
    BY <1>5, <1>a DEF Open, Close, Put, Consume, Driver
  <2> QED
    BY <1>a, <2>1, <2>2, <2>3
<1>6. ASSUME NEW kind \in AnswerKinds, Take(kind)
      PROVE /\ toCray' \in [AnswerKinds -> Nat]
            /\ arrived' \in Nat /\ puts' \in Nat /\ opens' \in Nat /\ kicks' \in Nat
  BY <1>6, <1>a DEF Take, Driver
<1>7. CASE TakeOpened \/ TakeClosed \/ TakeWakeInput
  <2>1. PICK kind \in AnswerKinds : Take(kind)
    BY <1>7 DEF TakeOpened, TakeClosed, TakeWakeInput
  <2>2. fromCray' = fromCray /\ driver' \in States /\ inAwake' \in BOOLEAN /\ outAsleep' \in BOOLEAN
    BY <1>7, <1>a DEF TakeOpened, TakeClosed, TakeWakeInput
  <2> QED
    BY <2>1, <2>2, <1>6, <1>a
<1>8. CASE TakeSleepOutput
  <2>1. fromCray' \in {fromCray, Append(fromCray, "wakeOutput")} /\ Take("sleepOutput")
        /\ driver' = driver /\ inAwake' = inAwake /\ outAsleep' \in BOOLEAN
    BY <1>8, <1>a DEF TakeSleepOutput, Request
  <2>2. Append(fromCray, "wakeOutput") \in Seq(Requests)
    BY <1>a
  <2> QED
    BY <2>1, <2>2, <1>6, <1>a
<1>9. CASE UNCHANGED ethVars
  BY <1>9, <1>a DEF ethVars, driverVars, counters
<1> QED
  BY <1>1, <1>2, <1>3, <1>4, <1>5, <1>7, <1>8, <1>9 DEF EthNext, MainThread, Answers

(* Every step keeps the rings well formed: HandleRxPacket, HandleTxPackets *)
(* and the driver write an index only modulo its size.                     *)
LEMMA RingsTyped == TypeOK /\ [EthNext]_ethVars => RingsType'
<1> SUFFICES ASSUME TypeOK, [EthNext]_ethVars PROVE RingsType'
  OBVIOUS
<1>a. /\ in \in RingOf(InSize) /\ out \in RingOf(OutSize) /\ puts \in Nat /\ frame \in Frame
      /\ tx \in [rd : 0 .. OutSize - 1, idx : 0 .. OutSize - 1, wr : 0 .. OutSize - 1]
      /\ consumed \in Seq(Nat) /\ wire \in Seq(Nat) /\ hostQueue \in Seq(Frame)
      /\ resent \in SUBSET Nat /\ lostIn \in SUBSET Nat /\ lostOut \in SUBSET Nat
  BY DEF TypeOK, RingsType, DriverType, FramesType
<1>b. InSize \in Nat \ {0} /\ OutSize \in Nat \ {0}
  BY EthernetAssumption
<1>c. /\ in.rd \in 0 .. InSize - 1 /\ in.wr \in 0 .. InSize - 1 /\ in.slots \in [0 .. InSize - 1 -> Nat]
      /\ out.rd \in 0 .. OutSize - 1 /\ out.wr \in 0 .. OutSize - 1
      /\ out.slots \in [0 .. OutSize - 1 -> Nat]
  BY <1>a DEF RingOf
<1>d. /\ NextIdx(in.rd, in) \in 0 .. InSize - 1 /\ NextIdx(in.wr, in) \in 0 .. InSize - 1
      /\ NextIdx(out.wr, out) \in 0 .. OutSize - 1 /\ NextIdx(tx.idx, out) \in 0 .. OutSize - 1
  <2>1. tx.idx \in 0 .. OutSize - 1
    BY <1>a
  <2> QED
    BY <2>1, <1>a, <1>b, <1>c, RingIndex
<1>e. NewRing(InSize) \in RingOf(InSize) /\ NewRing(OutSize) \in RingOf(OutSize)
  BY <1>b, NewRings
<1>f. Range(Entries(in)) \in SUBSET Nat /\ Range(Entries(out)) \in SUBSET Nat
  BY <1>a, <1>b, RingEntries, RangeOfSeq
<1>1. CASE Receive \/ Push
  BY <1>1, <1>a DEF Receive, Push, mainVars, history, RingsType
<1>2. CASE RxFill
  <2>1. hostQueue # <<>> => Head(hostQueue) \in Frame
    BY <1>a
  <2>2. in' \in RingOf(InSize)
    <3>1. hostQueue # <<>> /\ (in' = in \/ in' = [in EXCEPT !.slots[in.wr] = Head(hostQueue).id])
      BY <1>2 DEF RxFill
    <3>2. Head(hostQueue).id \in Nat
      BY <2>1, <3>1 DEF Frame
    <3>3. [in EXCEPT !.slots[in.wr] = Head(hostQueue).id] \in RingOf(InSize)
      BY <1>a, <1>b, <3>2, RingSlots
    <3> QED
      BY <1>a, <3>1, <3>3
  <2> QED
    BY <1>2, <1>a, <2>2 DEF RxFill, history, RingsType
<1>3. CASE RxIndex \/ RxWake
  <2>1. in' \in RingOf(InSize)
    BY <1>3, <1>a, <1>d DEF RxIndex, RxWake, RingOf
  <2> QED
    BY <1>3, <1>a, <2>1 DEF RxIndex, RxWake, Rx, history, RingsType
<1>4. CASE TxSend
  <2>1. out.slots[tx.idx] \in Nat
    BY <1>a, <1>c
  <2>2. wire' \in Seq(Nat) /\ lostOut' \in SUBSET Nat
    BY <1>4, <1>a, <2>1 DEF TxSend
  <2>3. tx' \in [rd : 0 .. OutSize - 1, idx : 0 .. OutSize - 1, wr : 0 .. OutSize - 1]
    BY <1>4, <1>a, <1>d DEF TxSend
  <2> QED
    BY <1>4, <1>a, <2>2, <2>3 DEF TxSend, Tx, RingsType
<1>5. CASE TxIndex
  <2>1. out' \in RingOf(OutSize)
    BY <1>5, <1>a DEF TxIndex, RingOf
  <2> QED
    BY <1>5, <1>a, <2>1 DEF TxIndex, Tx, RingsType
<1>6. CASE TxSleep
  BY <1>6, <1>a DEF TxSleep, Tx, RingsType
<1>7. CASE Kick
  BY <1>7, <1>a, <1>c DEF Kick, TxBegin, Tx, RingsType
<1>8. CASE KickFails
  <2>1. resent' \in SUBSET Nat
    BY <1>8, <1>a, <1>c DEF KickFails
  <2> QED
    BY <1>8, <1>a, <2>1 DEF KickFails, Tx, RingsType
<1>9. CASE HandleOpen \/ HandleClose \/ HandleWakeOutput
  <2>1. tx' \in [rd : 0 .. OutSize - 1, idx : 0 .. OutSize - 1, wr : 0 .. OutSize - 1]
    <3>1. tx' = tx \/ tx' = [rd |-> out.rd, idx |-> out.rd, wr |-> out.wr]
      BY <1>9 DEF HandleOpen, HandleClose, HandleWakeOutput, TxBegin
    <3>2. [rd |-> out.rd, idx |-> out.rd, wr |-> out.wr]
            \in [rd : 0 .. OutSize - 1, idx : 0 .. OutSize - 1, wr : 0 .. OutSize - 1]
      BY <1>c
    <3> QED
      BY <3>1, <3>2, <1>a, Zenon
  <2> QED
    BY <1>9, <1>a, <2>1 DEF HandleOpen, HandleClose, HandleWakeOutput, HandleRequest, history,
           RingsType
<1>10. CASE Open \/ Close
  BY <1>10, <1>a, <1>e DEF Open, Close, Driver, mainVars, RingsType
<1>11. CASE Put
  <2>1. out' \in RingOf(OutSize)
    <3>1. out' = [out EXCEPT !.slots[out.wr] = puts + 1, !.wr = NextIdx(out.wr, out)]
      BY <1>11 DEF Put
    <3>2. puts + 1 \in Nat
      BY <1>a
    <3> QED
      BY <1>a, <1>c, <1>d, <3>1, <3>2 DEF RingOf
  <2> QED
    BY <1>11, <1>a, <2>1 DEF Put, Driver, mainVars, RingsType
<1>12. CASE Consume
  <2>1. in' = in \/ in' = [in EXCEPT !.rd = NextIdx(in.rd, in)]
    BY <1>12 DEF Consume
  <2>2. in' \in RingOf(InSize)
    <3>1. [in EXCEPT !.rd = NextIdx(in.rd, in)] \in RingOf(InSize)
      BY <1>a, <1>b, <1>d, RingFields
    <3> QED
      BY <1>a, <2>1, <3>1
  <2>3. in.slots[in.rd] \in Nat
    BY <1>c
  <2>4. consumed' \in Seq(Nat)
    <3>1. Append(consumed, in.slots[in.rd]) \in Seq(Nat)
      BY <1>a, <2>3
    <3> QED
      BY <1>12, <1>a, <3>1 DEF Consume
  <2> QED
    BY <1>12, <1>a, <2>2, <2>4 DEF Consume, Driver, mainVars, RingsType
<1>13. CASE TakeClosed
  BY <1>13, <1>a, <1>e, <1>f DEF TakeClosed, Take, Driver, mainVars, RingsType
<1>14. CASE TakeOpened \/ TakeWakeInput \/ TakeSleepOutput
  BY <1>14, <1>a DEF TakeOpened, TakeWakeInput, TakeSleepOutput, Take, Driver, mainVars, RingsType
<1>15. CASE UNCHANGED ethVars
  BY <1>15, <1>a DEF ethVars, mainVars, history, RingsType
<1> QED
  BY <1>1, <1>2, <1>3, <1>4, <1>5, <1>6, <1>7, <1>8, <1>9, <1>10, <1>11, <1>12, <1>13, <1>14, <1>15
     DEF EthNext, MainThread, Answers

(* A new interface (the constructor of SimIopEth_c) is well formed.        *)
LEMMA InitTyped == EthInit => TypeOK
<1> SUFFICES ASSUME EthInit PROVE TypeOK
  OBVIOUS
<1>1. FramesType
  <2>1. Nothing \in Frame
    BY DEF Nothing, Frame
  <2>2. held \in Seq(Frame) /\ hostQueue \in Seq(Frame) /\ accepted \in Seq(Frame)
    BY EmptySeq DEF EthInit
  <2>3. pc \in Places /\ frame \in Frame
    BY <2>1 DEF EthInit, Places
  <2> QED
    BY <2>2, <2>3 DEF EthInit, FramesType
<1>2. DriverType
  <2>1. toCray \in [AnswerKinds -> Nat]
    BY DEF EthInit
  <2>2. fromCray \in Seq(Requests)
    BY EmptySeq DEF EthInit
  <2>3. arrived \in Nat /\ puts \in Nat /\ opens \in Nat /\ kicks \in Nat
    BY DEF EthInit
  <2> QED
    BY <2>1, <2>2, <2>3 DEF EthInit, DriverType, States
<1>3. RingsType
  <2>1. in \in RingOf(InSize) /\ out \in RingOf(OutSize)
    BY EthernetAssumption, NewRings DEF EthInit
  <2> QED
    BY <2>1, EthernetAssumption DEF EthInit, RingsType
<1> QED
  BY <1>1, <1>2, <1>3 DEF TypeOK

-----------------------------------------------------------------------------
(* No answer to an open or a close is on its way; the interface does       *)
(* nothing by itself and was asked for nothing.                            *)
NoAnswer == toCray["opened"] = 0 /\ toCray["closed"] = 0
Quiet == fromCray = <<>> /\ paused /\ pc = "idle"

(* Driver and interface agree on the session.  Before the interface        *)
(* handled the open, and after it handled the close, the capture thread is *)
(* paused and the main thread has left the rings; an answer is on its way  *)
(* exactly when the driver waits for one that was sent; a close is the     *)
(* last request.                                                           *)
Session ==
  /\ driver = "closed" => Quiet /\ NoAnswer
  /\ driver = "opening" =>
       \/ fromCray = <<"open">> /\ paused /\ pc = "idle" /\ NoAnswer
       \/ Quiet /\ NoAnswer
       \/ fromCray = <<>> /\ ~paused /\ present /\ toCray["opened"] = 1 /\ toCray["closed"] = 0
  /\ driver = "open" =>
       ~paused /\ present /\ NoAnswer /\ \A i \in 1 .. Len(fromCray) : fromCray[i] = "wakeOutput"
  /\ driver = "closing" =>
       \/ /\ ~paused /\ present /\ NoAnswer /\ fromCray # <<>>
          /\ \A i \in 1 .. Len(fromCray) : fromCray[i] = (IF i = Len(fromCray) THEN "close" ELSE "wakeOutput")
       \/ Quiet /\ toCray["opened"] = 0 /\ toCray["closed"] = 1

(* A step that changes neither requests, answers, nor the pause keeps the  *)
(* session, if a paused interface stays where it is.                       *)
LEMMA SessionKept ==
  TypeOK /\ Session /\ UNCHANGED <<driver, fromCray, paused, present>>
    /\ toCray'["opened"] = toCray["opened"] /\ toCray'["closed"] = toCray["closed"]
    /\ (paused => pc' = pc) => Session'
BY DEF Session, NoAnswer, Quiet

(* SendResponse adds one packet of its kind and none of another.           *)
LEMMA Answering ==
  ASSUME NEW kind \in AnswerKinds, TypeOK, SendResponse(kind)
  PROVE /\ toCray'[kind] = toCray[kind] + 1
        /\ \A k \in AnswerKinds \ {kind} : toCray'[k] = toCray[k]
BY DEF SendResponse, TypeOK, DriverType

(* The driver takes one packet of one kind.                                *)
LEMMA Answered ==
  ASSUME NEW kind \in AnswerKinds, TypeOK, Take(kind)
  PROVE /\ toCray[kind] > 0 /\ toCray'[kind] = toCray[kind] - 1
        /\ \A k \in AnswerKinds \ {kind} : toCray'[k] = toCray[k]
BY DEF Take, TypeOK, DriverType

(* HandleRxPacket and HandleTxPackets work only in an open session and     *)
(* answer no open or close.                                                *)
LEMMA MainSession ==
  TypeOK /\ Session /\ (RxFill \/ RxIndex \/ RxWake \/ TxSend \/ TxIndex \/ TxSleep \/ KickFails \/ Kick)
    => Session'
<1> SUFFICES ASSUME TypeOK, Session,
                    RxFill \/ RxIndex \/ RxWake \/ TxSend \/ TxIndex \/ TxSleep \/ KickFails \/ Kick
             PROVE Session'
  OBVIOUS
<1>1. UNCHANGED <<driver, fromCray, paused, present>>
  BY DEF RxFill, RxIndex, RxWake, Rx, TxSend, TxIndex, TxSleep, KickFails, Kick, Tx, threads,
         driverVars
<1>2. toCray'["opened"] = toCray["opened"] /\ toCray'["closed"] = toCray["closed"]
  <2>1. UNCHANGED toCray \/ SendResponse("wakeInput") \/ SendResponse("sleepOutput")
    BY DEF RxFill, RxIndex, RxWake, TxSend, TxIndex, TxSleep, KickFails, Kick
  <2>2. {"wakeInput", "sleepOutput"} \subseteq AnswerKinds /\ "opened" \in AnswerKinds \ {"wakeInput", "sleepOutput"}
        /\ "closed" \in AnswerKinds \ {"wakeInput", "sleepOutput"}
    BY DEF AnswerKinds
  <2>3. CASE SendResponse("wakeInput")
    BY <2>2, <2>3, Answering
  <2>4. CASE SendResponse("sleepOutput")
    BY <2>2, <2>4, Answering
  <2> QED
    BY <2>1, <2>3, <2>4
<1>3. paused => FALSE
  <2>1. paused => pc = "idle" /\ driver # "open"
    BY DEF Session, Quiet, TypeOK, DriverType, States
  <2> QED
    BY <2>1 DEF RxFill, RxIndex, RxWake, TxSend, TxIndex, TxSleep, KickFails, Kick
<1> QED
  BY <1>1, <1>2, <1>3, SessionKept

(* HandleIosEPacket: an open ends the pause and is answered if there is a  *)
(* device, a close pauses the capture thread before it is answered.        *)
LEMMA HandlerSession ==
  TypeOK /\ Session /\ (HandleOpen \/ HandleClose \/ HandleWakeOutput) => Session'
<1> SUFFICES ASSUME TypeOK, Session, HandleOpen \/ HandleClose \/ HandleWakeOutput PROVE Session'
  OBVIOUS
<1>a. /\ fromCray \in Seq(Requests) /\ driver \in States /\ driver' = driver /\ present' = present /\ pc = "idle"
      /\ fromCray # <<>> /\ fromCray' = Tail(fromCray)
  BY DEF TypeOK, DriverType, HandleOpen, HandleClose, HandleWakeOutput, HandleRequest, driverVars
<1>b. /\ Len(fromCray) \in Nat \ {0} /\ Head(fromCray) = fromCray[1] /\ Len(fromCray') = Len(fromCray) - 1
      /\ \A i \in 1 .. Len(fromCray) - 1 : fromCray'[i] = fromCray[i + 1]
      /\ (Len(fromCray) = 1 => fromCray' = <<>>) /\ (Len(fromCray) # 1 => fromCray' # <<>>)
  <2>1. Len(fromCray) \in Nat \ {0} /\ Head(fromCray) = fromCray[1]
    BY <1>a
  <2>2. /\ fromCray' \in Seq(Requests) /\ Len(fromCray') = Len(fromCray) - 1
        /\ \A i \in 1 .. Len(fromCray) - 1 : fromCray'[i] = fromCray[i + 1]
    BY <1>a
  <2>3. Len(fromCray') = 0 <=> fromCray' = <<>>
    BY <2>2
  <2> QED
    BY <2>1, <2>2, <2>3
<1>c. driver # "closed"
  BY <1>a DEF Session, Quiet
<1>d. {"opened", "closed"} \subseteq AnswerKinds
  BY DEF AnswerKinds
<1>1. CASE driver = "opening"
  <2>1. fromCray = <<"open">> /\ paused /\ NoAnswer
    BY <1>1, <1>a DEF Session, Quiet
  <2>2. HandleOpen /\ fromCray' = <<>>
    <3>1. Head(fromCray) = "open" /\ Tail(fromCray) = <<>>
      BY <2>1
    <3> QED
      BY <1>a, <3>1 DEF HandleOpen, HandleClose, HandleWakeOutput, HandleRequest
  <2>3. pc' = "idle"
    BY <1>a, <2>2 DEF HandleOpen
  <2>4. CASE present
    <3>1. SendResponse("opened") /\ paused' = FALSE
      BY <2>2, <2>4 DEF HandleOpen
    <3>2. toCray'["opened"] = 1 /\ toCray'["closed"] = 0
      BY <2>1, <3>1, <1>d, Answering DEF NoAnswer
    <3> QED
      BY <1>1, <1>a, <2>2, <2>4, <3>1, <3>2 DEF Session
  <2>5. CASE ~present
    <3>1. UNCHANGED <<toCray, paused>>
      BY <2>2, <2>5 DEF HandleOpen
    <3> QED
      BY <1>1, <1>a, <2>1, <2>2, <2>3, <3>1 DEF Session, Quiet, NoAnswer
  <2> QED
    BY <2>4, <2>5
<1>2. CASE driver = "open"
  <2>1. Head(fromCray) = "wakeOutput" /\ ~paused /\ present /\ NoAnswer
        /\ \A i \in 1 .. Len(fromCray) : fromCray[i] = "wakeOutput"
    BY <1>2, <1>b DEF Session
  <2>2. HandleWakeOutput
    BY <2>1 DEF HandleOpen, HandleClose, HandleRequest
  <2>3. ~paused' /\ NoAnswer'
    BY <2>1, <2>2 DEF HandleWakeOutput, NoAnswer
  <2>4. \A i \in 1 .. Len(fromCray') : fromCray'[i] = "wakeOutput"
    BY <1>b, <2>1
  <2> QED
    BY <1>2, <1>a, <2>1, <2>3, <2>4 DEF Session
<1>3. CASE driver = "closing"
  <2>1. /\ ~paused /\ present /\ NoAnswer
        /\ \A i \in 1 .. Len(fromCray) : fromCray[i] = (IF i = Len(fromCray) THEN "close" ELSE "wakeOutput")
    BY <1>3, <1>a DEF Session, Quiet
  <2>2. CASE Len(fromCray) = 1
    <3>1. Head(fromCray) = "close" /\ fromCray' = <<>>
      BY <1>b, <2>1, <2>2
    <3>2. HandleClose
      BY <3>1 DEF HandleOpen, HandleWakeOutput, HandleRequest
    <3>3. SendResponse("closed") /\ paused' /\ pc' = "idle"
      BY <1>a, <2>1, <3>2 DEF HandleClose
    <3>4. toCray'["opened"] = 0 /\ toCray'["closed"] = 1
      BY <2>1, <3>3, <1>d, Answering DEF NoAnswer
    <3> QED
      BY <1>3, <1>a, <3>1, <3>3, <3>4 DEF Session, Quiet
  <2>3. CASE Len(fromCray) # 1
    <3>1. Head(fromCray) = "wakeOutput" /\ fromCray' # <<>>
      BY <1>b, <2>1, <2>3
    <3>2. HandleWakeOutput
      BY <3>1 DEF HandleOpen, HandleClose, HandleRequest
    <3>3. ~paused' /\ NoAnswer'
      BY <2>1, <3>2 DEF HandleWakeOutput, NoAnswer
    <3>4. \A i \in 1 .. Len(fromCray') :
            fromCray'[i] = (IF i = Len(fromCray') THEN "close" ELSE "wakeOutput")
      BY <1>b, <2>1, <2>3
    <3> QED
      BY <1>3, <1>a, <2>1, <3>1, <3>3, <3>4 DEF Session
  <2> QED
    BY <2>2, <2>3
<1> QED
  BY <1>1, <1>2, <1>3, <1>a, <1>c DEF States

(* The steps of the driver keep the session: it asks for an output wakeup  *)
(* only before its close, and opens again only after the answer to the     *)
(* close.                                                                  *)
LEMMA DriverSession ==
  TypeOK /\ Session /\ (Open \/ Close \/ Put \/ Consume \/ Answers) => Session'
<1> SUFFICES ASSUME TypeOK, Session, Open \/ Close \/ Put \/ Consume \/ Answers PROVE Session'
  OBVIOUS
<1>a. fromCray \in Seq(Requests) /\ driver \in States /\ UNCHANGED <<present, paused, pc>>
  BY DEF TypeOK, DriverType, Open, Close, Put, Consume, Answers, TakeOpened, TakeClosed,
         TakeWakeInput,
     TakeSleepOutput, Take, Driver, threads, mainVars
<1>b. /\ Len(fromCray) \in Nat
      /\ \A q \in Requests : /\ Len(Append(fromCray, q)) = Len(fromCray) + 1 /\ Append(fromCray, q) # <<>>
                             /\ Append(fromCray, q)[Len(fromCray) + 1] = q
                             /\ \A i \in 1 .. Len(fromCray) : Append(fromCray, q)[i] = fromCray[i]
  BY <1>a
<1>c. "open" \in Requests /\ "close" \in Requests /\ "wakeOutput" \in Requests
  BY DEF Requests
<1>d. /\ "opened" \in AnswerKinds /\ "closed" \in AnswerKinds /\ "wakeInput" \in AnswerKinds
      /\ "sleepOutput" \in AnswerKinds /\ toCray["opened"] \in Nat /\ toCray["closed"] \in Nat
  BY DEF AnswerKinds, TypeOK, DriverType
<1>1. CASE Open
  <2>1. /\ driver = "closed" /\ driver' = "opening" /\ fromCray' = Append(fromCray, "open")
        /\ toCray' = toCray
    BY <1>1 DEF Open, Request
  <2>2. Quiet /\ NoAnswer
    BY <2>1 DEF Session
  <2>3. fromCray' = <<"open">>
    BY <2>1, <2>2 DEF Quiet
  <2> QED
    BY <1>a, <2>1, <2>2, <2>3 DEF Session, Quiet, NoAnswer
<1>2. CASE Close
  <2>1. /\ driver = "open" /\ driver' = "closing" /\ fromCray' = Append(fromCray, "close")
        /\ toCray' = toCray
    BY <1>2 DEF Close, Request
  <2>2. /\ ~paused /\ present /\ NoAnswer
        /\ \A i \in 1 .. Len(fromCray) : fromCray[i] = "wakeOutput"
    BY <2>1 DEF Session
  <2>3. /\ fromCray' # <<>>
        /\ \A i \in 1 .. Len(fromCray') :
             fromCray'[i] = (IF i = Len(fromCray') THEN "close" ELSE "wakeOutput")
    BY <1>b, <1>c, <2>1, <2>2
  <2> QED
    BY <1>a, <2>1, <2>2, <2>3 DEF Session, NoAnswer
<1>3. ASSUME driver = "open", driver' = driver, toCray'["opened"] = toCray["opened"],
             toCray'["closed"] = toCray["closed"],
             fromCray' = fromCray \/ fromCray' = Append(fromCray, "wakeOutput")
      PROVE Session'
  <2>1. /\ ~paused /\ present /\ NoAnswer
        /\ \A i \in 1 .. Len(fromCray) : fromCray[i] = "wakeOutput"
    BY <1>3 DEF Session
  <2>2. \A i \in 1 .. Len(fromCray') : fromCray'[i] = "wakeOutput"
    BY <1>3, <1>b, <1>c, <2>1
  <2> QED
    BY <1>a, <1>3, <2>1, <2>2 DEF Session, NoAnswer
<1>4. CASE Put \/ Consume
  BY <1>3, <1>4 DEF Put, Consume, Request
<1>5. CASE TakeOpened
  <2>1. /\ toCray["opened"] > 0 /\ toCray'["opened"] = toCray["opened"] - 1
        /\ toCray'["closed"] = toCray["closed"] /\ driver' = "open" /\ fromCray' = fromCray
    BY <1>5, <1>d, Answered DEF TakeOpened
  <2>2. driver = "opening" /\ fromCray = <<>> /\ ~paused /\ present /\ toCray["opened"] = 1 /\ toCray["closed"] = 0
    BY <1>a, <1>d, <2>1 DEF Session, NoAnswer, States
  <2>3. \A i \in 1 .. Len(fromCray') : fromCray'[i] = "wakeOutput"
    BY <2>1, <2>2
  <2>4. NoAnswer'
    BY <2>1, <2>2 DEF NoAnswer
  <2> QED
    BY <1>a, <2>1, <2>2, <2>3, <2>4 DEF Session
<1>6. CASE TakeClosed
  <2>1. /\ toCray["closed"] > 0 /\ toCray'["closed"] = toCray["closed"] - 1
        /\ toCray'["opened"] = toCray["opened"] /\ driver' = "closed" /\ fromCray' = fromCray
    BY <1>6, <1>d, Answered DEF TakeClosed
  <2>2. Quiet /\ toCray["opened"] = 0 /\ toCray["closed"] = 1
    BY <1>a, <1>d, <2>1 DEF Session, NoAnswer, States
  <2> QED
    BY <1>a, <2>1, <2>2 DEF Session, Quiet, NoAnswer
<1>7. CASE TakeWakeInput
  <2>1. /\ toCray'["opened"] = toCray["opened"] /\ toCray'["closed"] = toCray["closed"]
        /\ driver' = driver /\ fromCray' = fromCray
    BY <1>7, <1>d, Answered DEF TakeWakeInput
  <2> QED
    BY <1>a, <2>1, SessionKept
<1>8. CASE TakeSleepOutput
  <2>1. /\ toCray'["opened"] = toCray["opened"] /\ toCray'["closed"] = toCray["closed"] /\ driver' = driver
    BY <1>8, <1>d, Answered DEF TakeSleepOutput
  <2>2. CASE driver = "open"
    BY <1>3, <1>8, <2>1, <2>2 DEF TakeSleepOutput, Request
  <2>3. CASE driver # "open"
    <3>1. fromCray' = fromCray
      BY <1>8, <2>3 DEF TakeSleepOutput
    <3> QED
      BY <1>a, <2>1, <3>1, SessionKept
  <2> QED
    BY <2>2, <2>3
<1> QED
  BY <1>1, <1>2, <1>4, <1>5, <1>6, <1>7, <1>8 DEF Answers

(* Every step of an interface and its driver keeps the session.            *)
LEMMA SessionStep == TypeOK /\ Session /\ [EthNext]_ethVars => Session'
<1> SUFFICES ASSUME TypeOK, Session, [EthNext]_ethVars PROVE Session'
  OBVIOUS
<1>1. CASE Receive \/ Push \/ UNCHANGED ethVars
  <2>1. UNCHANGED <<driver, fromCray, paused, present, toCray, pc>>
    BY <1>1 DEF Receive, Push, ethVars, threads, mainVars, driverVars
  <2> QED
    BY <2>1, SessionKept
<1> QED
  BY <1>1, MainSession, HandlerSession, DriverSession DEF EthNext, MainThread

(* Every step keeps the rings of a closed interface empty: whatever        *)
(* HandleRxPacket or HandleTxPackets does happens in a session.            *)
LEMMA QuietStep == TypeOK /\ Session /\ ClosedIsQuiet /\ [EthNext]_ethVars => ClosedIsQuiet'
<1> SUFFICES ASSUME TypeOK, Session, ClosedIsQuiet, [EthNext]_ethVars,
                    driver' = "closed" \/ (driver' = "opening" /\ paused')
             PROVE in' = NewRing(InSize) /\ out' = NewRing(OutSize)
  BY DEF ClosedIsQuiet
<1>1. CASE Open \/ TakeClosed
  BY <1>1 DEF Open, TakeClosed
<1>2. CASE ~(Open \/ TakeClosed)
  <2>1. driver' = driver /\ (paused' => paused \/ driver = "closing")
    <3>1. CASE Receive \/ Push \/ UNCHANGED ethVars
      BY <3>1 DEF Receive, Push, ethVars, threads, driverVars
    <3>2. CASE RxFill \/ RxIndex \/ RxWake \/ TxSend \/ TxIndex \/ TxSleep \/ KickFails \/ Kick
      BY <3>2 DEF RxFill, RxIndex, RxWake, Rx, TxSend, TxIndex, TxSleep, KickFails, Kick, Tx,
             threads, driverVars
    <3>3. CASE HandleOpen \/ HandleClose \/ HandleWakeOutput
      <4>1. driver' = driver
        BY <3>3 DEF HandleOpen, HandleClose, HandleWakeOutput, HandleRequest, driverVars
      <4>2. CASE HandleOpen \/ HandleWakeOutput
        BY <4>1, <4>2 DEF HandleOpen, HandleWakeOutput
      <4>3. CASE HandleClose
        <5>1. fromCray # <<>> /\ fromCray[1] = "close" /\ Len(fromCray) \in Nat \ {0}
          BY <4>3 DEF HandleClose, HandleRequest, TypeOK, DriverType
        <5>2. driver = "closing"
          BY <5>1 DEF TypeOK, DriverType, States, Session, Quiet
        <5> QED
          BY <4>1, <5>2
      <4> QED
        BY <3>3, <4>2, <4>3
    <3>4. CASE Close \/ TakeOpened
      BY <3>4 DEF Close, TakeOpened
    <3>5. CASE Put \/ Consume \/ TakeWakeInput \/ TakeSleepOutput
      BY <3>5 DEF Put, Consume, TakeWakeInput, TakeSleepOutput, Take, Driver, threads
    <3> QED
      BY <1>2, <3>1, <3>2, <3>3, <3>4, <3>5 DEF EthNext, MainThread, Answers
  <2>2. /\ driver = "closed" \/ (driver = "opening" /\ paused)
        /\ in = NewRing(InSize) /\ out = NewRing(OutSize)
    BY <2>1 DEF ClosedIsQuiet
  <2>3. paused /\ pc = "idle"
    BY <2>2 DEF Session, Quiet
  <2>4. CASE UNCHANGED ethVars
    BY <2>2, <2>4 DEF ethVars
  <2>5. CASE EthNext
    BY <1>2, <2>2, <2>3, <2>5
       DEF EthNext, MainThread, Answers, Receive, Push, RxFill, RxIndex, RxWake, Rx, TxSend, TxIndex, TxSleep,
           KickFails, Kick, HandleOpen, HandleClose, HandleWakeOutput, HandleRequest, Close, Put, Consume,
           TakeOpened, TakeWakeInput, TakeSleepOutput
  <2> QED
    BY <2>4, <2>5
<1> QED
  BY <1>1, <1>2

-----------------------------------------------------------------------------
(* HandleTxPackets is at work, and Done entries of the output ring are     *)
(* behind it.                                                              *)
Sending == pc \in {"tx", "kick"}
Done == IF Sending THEN Ahead(out, tx.idx) ELSE 0

OutQueue == Entries(out)

(* While HandleTxPackets works nobody moves the read index, and what it    *)
(* set out to send is still in the ring.                                   *)
Working ==
  Sending => /\ tx.rd = out.rd
             /\ Ahead(out, tx.idx) <= Ahead(out, tx.wr) /\ Ahead(out, tx.wr) <= Used(out)

(* The parts of the invariant: no packet is nowhere; packets are sent in   *)
(* order but for those of a kick that failed; the entries behind the index *)
(* of HandleTxPackets were sent; those before it are newer than all that   *)
(* was sent, unless a kick that failed had sent them.                      *)
SentOrQueued == 1 .. puts = Range(wire) \cup Range(OutQueue) \cup lostOut
SentInOrder == \A i, j \in 1 .. Len(wire) : i < j /\ wire[i] >= wire[j] => wire[j] \in resent
DoneIsSent == \A j \in 1 .. Len(OutQueue) : j <= Done => OutQueue[j] \in Range(wire) \cup lostOut

RestIsNew ==
  \A j \in 1 .. Len(OutQueue) : j > Done =>
    \A w \in Range(wire) : w < OutQueue[j] \/ OutQueue[j] \in resent

SentInv == Working /\ Increasing(OutQueue) /\ SentOrQueued /\ SentInOrder /\ DoneIsSent /\ RestIsNew

(* What is in a sequence after an Append: packets on the wire, frames the  *)
(* driver took.                                                            *)
LEMMA RangeAppend ==
  ASSUME NEW S, NEW s \in Seq(S), NEW x \in S
  PROVE Range(Append(s, x)) = Range(s) \cup {x}
<1>1. <<x>> \in Seq(S) /\ Range(<<x>>) = {x}
  BY DEF Range
<1>2. Append(s, x) = s \o <<x>>
  BY AppendIsConcat
<1>3. Range(s \o <<x>>) = Range(s) \cup Range(<<x>>)
  BY <1>1, RangeConcatenation, ZenonT(40)
<1> QED
  BY <1>1, <1>2, <1>3

(* The elements of a sequence are what stands at its positions.            *)
LEMMA InRange ==
  ASSUME NEW S, NEW s \in Seq(S)
  PROVE /\ DOMAIN s = 1 .. Len(s) /\ Len(s) \in Nat
        /\ \A i \in 1 .. Len(s) : s[i] \in Range(s)
        /\ \A x \in Range(s) : \E i \in 1 .. Len(s) : s[i] = x
BY RangeEquality, LenProperties

(* What the output side of a well-formed interface looks like, in the      *)
(* terms of the ring lemmas.                                               *)
LEMMA SentType ==
  ASSUME TypeOK
  PROVE /\ OutSize \in Nat \ {0} /\ out \in RingOf(OutSize) /\ puts \in Nat
        /\ tx.rd \in 0 .. OutSize - 1 /\ tx.idx \in 0 .. OutSize - 1 /\ tx.wr \in 0 .. OutSize - 1
        /\ out.rd \in 0 .. OutSize - 1 /\ out.wr \in 0 .. OutSize - 1 /\ out.slots \in [0 .. OutSize - 1 -> Nat]
        /\ OutQueue \in Seq(Nat) /\ Len(OutQueue) = Used(out) /\ Used(out) \in 0 .. OutSize - 1
        /\ wire \in Seq(Nat)
        /\ Ahead(out, tx.idx) \in 0 .. OutSize - 1 /\ Ahead(out, tx.wr) \in 0 .. OutSize - 1
        /\ Done \in Nat
<1>1. /\ OutSize \in Nat \ {0} /\ out \in RingOf(OutSize) /\ puts \in Nat /\ wire \in Seq(Nat)
      /\ tx \in [rd : 0 .. OutSize - 1, idx : 0 .. OutSize - 1, wr : 0 .. OutSize - 1]
  BY EthernetAssumption DEF TypeOK, RingsType, DriverType
<1>2. tx.rd \in 0 .. OutSize - 1 /\ tx.idx \in 0 .. OutSize - 1 /\ tx.wr \in 0 .. OutSize - 1
  BY <1>1
<1>3. out.rd \in 0 .. OutSize - 1 /\ out.wr \in 0 .. OutSize - 1 /\ out.slots \in [0 .. OutSize - 1 -> Nat]
  BY <1>1 DEF RingOf
<1>4. Ahead(out, tx.idx) \in 0 .. OutSize - 1 /\ Ahead(out, tx.wr) \in 0 .. OutSize - 1
  BY <1>1, <1>2, RingIndex
<1>5. OutQueue \in Seq(Nat) /\ Len(OutQueue) = Used(out) /\ Used(out) \in 0 .. OutSize - 1
  BY <1>1, RingEntries DEF OutQueue
<1>6. Done \in Nat
  <2>1. Ahead(out, tx.idx) \in Nat
    BY <1>1, <1>4
  <2> QED
    BY <2>1 DEF Done
<1> QED
  BY <1>1, <1>2, <1>3, <1>4, <1>5, <1>6

(* A step that leaves packets and wire alone keeps SentInv if it keeps the *)
(* work of HandleTxPackets.                                                *)
LEMMA SentSame ==
  SentInv /\ UNCHANGED <<out, wire, lostOut, puts, resent>> /\ Working' /\ Done' = Done => SentInv'
<1> SUFFICES ASSUME SentInv, UNCHANGED <<out, wire, lostOut, puts, resent>>, Working', Done' = Done
             PROVE SentInv'
  OBVIOUS
<1>1. OutQueue' = OutQueue
  BY DEF OutQueue
<1>2. Increasing(OutQueue)' /\ SentOrQueued' /\ SentInOrder'
  BY <1>1 DEF SentInv, SentOrQueued, SentInOrder
<1>3. DoneIsSent' /\ RestIsNew'
  BY <1>1 DEF SentInv, DoneIsSent, RestIsNew
<1> QED
  BY <1>2, <1>3 DEF SentInv

(* HandleTxPackets begins with the indices of the ring as they are, and    *)
(* with nothing done.                                                      *)
LEMMA SentBegins ==
  TypeOK /\ SentInv /\ pc = "idle" /\ TxBegin /\ UNCHANGED <<out, wire, lostOut, puts, resent>> => SentInv'
<1> SUFFICES ASSUME TypeOK, SentInv, pc = "idle", TxBegin, UNCHANGED <<out, wire, lostOut, puts, resent>>
             PROVE SentInv'
  OBVIOUS
<1>1. tx'.rd = out.rd /\ tx'.idx = out.rd /\ tx'.wr = out.wr /\ out' = out
  BY DEF TxBegin
<1>2. Ahead(out, out.rd) = 0 /\ Used(out) \in Nat
  <2>1. OutSize \in Nat \ {0} /\ out \in RingOf(OutSize) /\ out.rd \in 0 .. OutSize - 1 /\ Used(out) \in Nat
    BY SentType
  <2> QED
    BY <2>1, RingIndex
<1>3. Done = 0 /\ Done' = 0
  BY <1>1, <1>2 DEF Done, Sending
<1>4. Working'
  BY <1>1, <1>2 DEF Working, Used
<1> QED
  BY <1>3, <1>4, SentSame

(* HandleTxPacket sends the next entry: it is newer than what was sent, or *)
(* a kick that failed had sent it.                                         *)
LEMMA SentSend == TypeOK /\ SentInv /\ TxSend => SentInv'
<1> SUFFICES ASSUME TypeOK, SentInv, TxSend PROVE SentInv'
  OBVIOUS
<1> DEFINE x == out.slots[tx.idx]  q == OutQueue
<1>a. /\ Sending /\ tx.idx # tx.wr /\ tx' = [tx EXCEPT !.idx = NextIdx(tx.idx, out)]
      /\ UNCHANGED <<pc, out, resent, puts>>
      /\ (present => wire' = Append(wire, x) /\ lostOut' = lostOut)
      /\ (~present => wire' = wire /\ lostOut' = lostOut \cup {x})
  BY DEF TxSend, Tx, Sending
<1>b. /\ tx.rd = out.rd /\ Ahead(out, tx.idx) <= Ahead(out, tx.wr) /\ Ahead(out, tx.wr) <= Used(out)
      /\ Done = Ahead(out, tx.idx)
  BY <1>a DEF SentInv, Working, Done
<1>c. Ahead(out, tx.idx) # Ahead(out, tx.wr)
  <2>0. /\ OutSize \in Nat \ {0} /\ out \in RingOf(OutSize)
        /\ tx.idx \in 0 .. OutSize - 1 /\ tx.wr \in 0 .. OutSize - 1
    BY SentType
  <2>1. At(out, Ahead(out, tx.idx) + 1) = tx.idx /\ At(out, Ahead(out, tx.wr) + 1) = tx.wr
    BY <2>0, RingIndex
  <2> QED
    BY <2>1, <1>a
<1>d. /\ Done \in Nat /\ Done + 1 <= Ahead(out, tx.wr) /\ Done + 1 \in 1 .. Used(out) /\ Done # OutSize - 1
  <2>1. /\ Ahead(out, tx.idx) \in 0 .. OutSize - 1 /\ Ahead(out, tx.wr) \in 0 .. OutSize - 1
        /\ Used(out) \in 0 .. OutSize - 1 /\ OutSize \in Nat
    BY SentType
  <2> HIDE DEF x, q
  <2> QED
    BY <2>1, <1>b, <1>c
<1>e. Ahead(out, NextIdx(tx.idx, out)) = Done + 1
  BY <1>b, <1>d, SentType, RingIndex
<1>f. q \in Seq(Nat) /\ Len(q) = Used(out) /\ q[Done + 1] = x /\ x \in Nat
  <2>0. OutSize \in Nat \ {0} /\ out \in RingOf(OutSize) /\ tx.idx \in 0 .. OutSize - 1
    BY SentType
  <2>1. At(out, Done + 1) = tx.idx
    BY <2>0, <1>b, RingIndex
  <2>2. q[Done + 1] = out.slots[At(out, Done + 1)]
    BY <1>d, SentType, RingEntries DEF OutQueue
  <2> QED
    BY <2>1, <2>2, SentType
<1>g. OutQueue' = q
  BY <1>a DEF OutQueue
<1>h. tx'.rd = tx.rd /\ tx'.idx = NextIdx(tx.idx, out) /\ tx'.wr = tx.wr
  <2>1. tx \in [rd : 0 .. OutSize - 1, idx : 0 .. OutSize - 1, wr : 0 .. OutSize - 1]
    BY DEF TypeOK, RingsType
  <2> QED
    BY <1>a, <2>1
<1>i. Done' = Done + 1
  BY <1>a, <1>e, <1>h DEF Done, Sending
<1>j. \/ wire' = Append(wire, x) /\ lostOut' = lostOut /\ Range(wire') = Range(wire) \cup {x}
      \/ wire' = wire /\ lostOut' = lostOut \cup {x}
  <2>1. Range(Append(wire, x)) = Range(wire) \cup {x}
    <3>1. wire \in Seq(Nat) /\ x \in Nat
      BY <1>f, SentType
    <3> HIDE DEF x
    <3> QED
      BY <3>1, RangeAppend
  <2>2. CASE present
    BY <1>a, <2>1, <2>2
  <2>3. CASE ~present
    BY <1>a, <2>3
  <2> QED
    BY <2>2, <2>3
<1>k. x \in Range(q) /\ \A j \in 1 .. Len(q) : q[j] \in Range(q) /\ q[j] \in Nat
  <2>1. \A j \in 1 .. Len(q) : q[j] \in Range(q) /\ q[j] \in Nat
    BY <1>f, InRange, ElementOfSeq
  <2> QED
    BY <2>1, <1>d, <1>f
<1> HIDE DEF x, q
<1>1. Working'
  BY <1>a, <1>b, <1>d, <1>e, <1>h DEF Working, Sending
<1>2. Increasing(OutQueue)'
  BY <1>g DEF SentInv, q
<1>3. SentOrQueued'
  <2>1. 1 .. puts = Range(wire) \cup Range(q) \cup lostOut
    BY DEF SentInv, SentOrQueued, q
  <2>2. Range(wire') \cup Range(q) \cup lostOut' = Range(wire) \cup Range(q) \cup lostOut
    BY <1>j, <1>k
  <2> QED
    BY <1>a, <1>g, <2>1, <2>2 DEF SentOrQueued
<1>4. SentInOrder'
  <2>1. CASE wire' = wire
    BY <2>1, <1>a DEF SentInv, SentInOrder
  <2>2. CASE wire' = Append(wire, x)
    <3>1. \A w \in Range(wire) : w < x \/ x \in resent
      BY <1>d, <1>f DEF SentInv, RestIsNew, q
    <3>2. /\ Len(wire') = Len(wire) + 1 /\ wire'[Len(wire) + 1] = x /\ Len(wire) \in Nat
          /\ \A i \in 1 .. Len(wire) : wire'[i] = wire[i] /\ wire[i] \in Range(wire) /\ wire[i] \in Nat
      <4>1. wire \in Seq(Nat) /\ x \in Nat
        BY <1>f, SentType
      <4>2. \A i \in 1 .. Len(wire) : wire[i] \in Range(wire)
        BY <4>1, InRange
      <4>3. /\ Len(wire') = Len(wire) + 1 /\ wire'[Len(wire) + 1] = x /\ Len(wire) \in Nat
            /\ \A i \in 1 .. Len(wire) : wire'[i] = wire[i] /\ wire[i] \in Nat
        BY <4>1, <2>2
      <4> QED
        BY <4>2, <4>3
    <3> SUFFICES ASSUME NEW i \in 1 .. Len(wire'), NEW j \in 1 .. Len(wire'), i < j, wire'[i] >= wire'[j]
                 PROVE wire'[j] \in resent'
      BY DEF SentInOrder
    <3>3. CASE j = Len(wire) + 1
      <4>1. i \in 1 .. Len(wire) /\ wire'[i] = wire[i] /\ wire[i] \in Range(wire) /\ wire[i] \in Nat
        BY <3>2, <3>3
      <4>2. ~(wire[i] < x)
        BY <4>1, <3>2, <3>3, <1>f
      <4> QED
        BY <4>1, <4>2, <3>1, <3>2, <3>3, <1>a
    <3>4. CASE j # Len(wire) + 1
      <4>1. i \in 1 .. Len(wire) /\ j \in 1 .. Len(wire) /\ wire'[i] = wire[i] /\ wire'[j] = wire[j]
        BY <3>2, <3>4
      <4> QED
        BY <4>1, <1>a DEF SentInv, SentInOrder
    <3> QED
      BY <3>3, <3>4
  <2> QED
    BY <1>j, <2>1, <2>2
<1>5. DoneIsSent'
  <2> SUFFICES ASSUME NEW j \in 1 .. Len(q), j <= Done + 1
               PROVE q[j] \in Range(wire') \cup lostOut'
    BY <1>g, <1>i DEF DoneIsSent
  <2>1. CASE j <= Done
    BY <2>1, <1>j DEF SentInv, DoneIsSent, q
  <2>2. CASE j = Done + 1
    BY <2>2, <1>f, <1>j
  <2> QED
    BY <2>1, <2>2, <1>d, <1>f, SentType
<1>6. RestIsNew'
  <2> SUFFICES ASSUME NEW j \in 1 .. Len(q), j > Done + 1, NEW w \in Range(wire')
               PROVE w < q[j] \/ q[j] \in resent
    BY <1>a, <1>g, <1>i DEF RestIsNew
  <2>1. CASE w \in Range(wire)
    <3>1. j > Done
      BY <1>d, <1>f, SentType
    <3> QED
      BY <2>1, <3>1 DEF SentInv, RestIsNew, q
  <2>2. CASE w = x
    <3>1. Done + 1 < j /\ Done + 1 \in DOMAIN q /\ j \in DOMAIN q
      BY <1>d, <1>f, InRange
    <3>2. Increasing(q)
      BY DEF SentInv, q
    <3> QED
      BY <2>2, <3>1, <3>2, <1>f DEF Increasing
  <2> QED
    BY <1>j, <2>1, <2>2
<1> QED
  BY <1>1, <1>2, <1>3, <1>4, <1>5, <1>6 DEF SentInv

(* HandleTxPackets ends with the write index it began with: only entries   *)
(* that were sent leave the ring, whatever the driver added since.         *)
LEMMA SentIndex == TypeOK /\ SentInv /\ TxIndex => SentInv'
<1> SUFFICES ASSUME TypeOK, SentInv, TxIndex PROVE SentInv'
  OBVIOUS
<1> DEFINE k == Ahead(out, tx.wr)  q == OutQueue
<1>a. /\ Sending /\ tx.idx = tx.wr /\ out' = [out EXCEPT !.rd = tx.wr] /\ ~Sending'
      /\ UNCHANGED <<wire, lostOut, resent, puts>>
  BY DEF TxIndex, Tx, Sending
<1>b. k <= Used(out) /\ Done = k /\ Done' = 0
  BY <1>a DEF SentInv, Working, Done
<1>c. /\ OutSize \in Nat \ {0} /\ out \in RingOf(OutSize) /\ tx.wr \in 0 .. OutSize - 1
      /\ k \in 0 .. OutSize - 1 /\ Used(out) \in 0 .. OutSize - 1 /\ OutSize \in Nat
      /\ q \in Seq(Nat) /\ Len(q) = Used(out)
  BY SentType
<1>d. PICK o2 : o2 = out'
  OBVIOUS
<1>e. o2 \in RingOf(OutSize) /\ o2.rd = tx.wr /\ o2.wr = out.wr /\ o2.slots = out.slots
  <2>1. OutSize \in Nat \ {0} /\ out \in RingOf(OutSize) /\ tx.wr \in 0 .. OutSize - 1
        /\ o2 = [out EXCEPT !.rd = tx.wr]
    BY <1>a, <1>c, <1>d
  <2> QED
    BY <2>1 DEF RingOf
<1>f. /\ Len(Entries(o2)) = Used(out) - k
      /\ \A j \in 1 .. Used(out) - k : Entries(o2)[j] = q[k + j]
  <2>1. Ahead(out, tx.wr) <= Used(out)
    BY <1>b
  <2> QED
    BY <1>c, <1>e, <2>1, RingSkip DEF OutQueue
<1>g. OutQueue' = Entries(o2) /\ Entries(o2) \in Seq(Nat)
  BY <1>c, <1>d, <1>e, RingEntries DEF OutQueue
<1> DEFINE q2 == Entries(o2)
<1> HIDE DEF q, q2, k
<1>h. /\ k \in Nat /\ Len(q) \in Nat /\ Len(q2) = Len(q) - k /\ k <= Len(q)
      /\ \A j \in 1 .. Len(q) - k : q2[j] = q[k + j]
      /\ OutQueue' = q2 /\ q2 \in Seq(Nat)
  <2>1. k \in Nat /\ Len(q) \in Nat /\ k <= Len(q)
    BY <1>b, <1>c
  <2> QED
    BY <2>1, <1>c, <1>f, <1>g DEF q2
<1>1. Working'
  BY <1>a DEF Working
<1>2. Increasing(OutQueue)'
  <2>1. Increasing(q2)
    <3>0. DOMAIN q2 = 1 .. Len(q2) /\ DOMAIN q = 1 .. Len(q)
      BY <1>c, <1>h, InRange
    <3> SUFFICES ASSUME NEW i \in 1 .. Len(q2), NEW j \in 1 .. Len(q2), i < j PROVE q2[i] < q2[j]
      BY <3>0 DEF Increasing
    <3>1. q2[i] = q[k + i] /\ q2[j] = q[k + j] /\ k + i \in 1 .. Len(q) /\ k + j \in 1 .. Len(q) /\ k + i < k + j
      BY <1>h
    <3>2. Increasing(q)
      BY DEF SentInv, q
    <3> QED
      BY <3>0, <3>1, <3>2 DEF Increasing
  <2> QED
    BY <2>1, <1>h
<1>3. SentOrQueued'
  <2>1. 1 .. puts = Range(wire) \cup Range(q) \cup lostOut
    BY DEF SentInv, SentOrQueued, q
  <2>2. Range(q2) \subseteq Range(q)
    <3> SUFFICES ASSUME NEW x \in Range(q2) PROVE x \in Range(q)
      OBVIOUS
    <3>1. PICK j \in 1 .. Len(q2) : q2[j] = x
      BY <1>h, InRange
    <3>2. k + j \in 1 .. Len(q) /\ x = q[k + j]
      BY <1>h, <3>1
    <3> QED
      BY <1>c, <3>2, InRange
  <2>3. Range(q) \subseteq Range(q2) \cup Range(wire) \cup lostOut
    <3> SUFFICES ASSUME NEW x \in Range(q) PROVE x \in Range(q2) \cup Range(wire) \cup lostOut
      OBVIOUS
    <3>1. PICK j \in 1 .. Len(q) : q[j] = x
      BY <1>c, InRange
    <3>2. CASE j <= k
      BY <3>1, <3>2, <1>b DEF SentInv, DoneIsSent, q, k
    <3>3. CASE j > k
      <4>1. j - k \in 1 .. Len(q2) /\ q2[j - k] = q[k + (j - k)] /\ k + (j - k) = j
        BY <1>h, <3>3
      <4> QED
        BY <3>1, <4>1, <1>h, InRange
    <3> QED
      BY <3>2, <3>3, <1>h
  <2> QED
    BY <1>a, <1>h, <2>1, <2>2, <2>3 DEF SentOrQueued
<1>4. SentInOrder'
  BY <1>a DEF SentInv, SentInOrder
<1>5. DoneIsSent'
  <2> SUFFICES ASSUME NEW j \in 1 .. Len(q2), j <= 0 PROVE FALSE
    BY <1>b, <1>h DEF DoneIsSent
  <2> QED
    OBVIOUS
<1>6. RestIsNew'
  <2> SUFFICES ASSUME NEW j \in 1 .. Len(q2), NEW w \in Range(wire)
               PROVE w < q2[j] \/ q2[j] \in resent
    BY <1>a, <1>h DEF RestIsNew
  <2>1. k + j \in 1 .. Len(q) /\ q2[j] = q[k + j] /\ k + j > k
    BY <1>h
  <2> QED
    BY <2>1, <1>b DEF SentInv, RestIsNew, q, k
<1> QED
  BY <1>1, <1>2, <1>3, <1>4, <1>5, <1>6 DEF SentInv

(* A kick that fails leaves the read index where it was; what it sent is   *)
(* on the list of packets that may be sent again.                          *)
LEMMA SentKick == TypeOK /\ SentInv /\ KickFails => SentInv'
<1> SUFFICES ASSUME TypeOK, SentInv, KickFails PROVE SentInv'
  OBVIOUS
<1> DEFINE q == OutQueue
           again == {out.slots[i] : i \in {j \in 0..(OutSize - 1) :
                       (j - tx.rd) % OutSize < (tx.idx - tx.rd) % OutSize}}
<1>a. /\ Sending /\ ~Sending' /\ resent' = resent \cup again /\ UNCHANGED <<out, wire, lostOut, puts>>
  BY DEF KickFails, Tx, Sending
<1>b. Done = Ahead(out, tx.idx) /\ Done' = 0 /\ tx.rd = out.rd /\ Done <= Used(out)
  <2>1. /\ tx.rd = out.rd /\ Ahead(out, tx.idx) <= Ahead(out, tx.wr) /\ Ahead(out, tx.wr) <= Used(out)
        /\ Done = Ahead(out, tx.idx) /\ Done' = 0
    BY <1>a DEF SentInv, Working, Done
  <2>2. /\ Ahead(out, tx.idx) \in 0 .. OutSize - 1 /\ Ahead(out, tx.wr) \in 0 .. OutSize - 1
        /\ Used(out) \in 0 .. OutSize - 1 /\ OutSize \in Nat
    BY SentType
  <2> QED
    BY <2>1, <2>2
<1>c. /\ OutSize \in Nat \ {0} /\ OutSize \in Nat /\ out \in RingOf(OutSize) /\ Done \in Nat
      /\ q \in Seq(Nat) /\ Len(q) = Used(out) /\ Used(out) \in 0 .. OutSize - 1 /\ out.size = OutSize
  BY SentType DEF RingOf
<1>d. OutQueue' = q
  BY <1>a DEF OutQueue
<1>e. ASSUME NEW j \in 1 .. Len(q), j <= Done PROVE q[j] \in again
  <2>1. j \in 1 .. OutSize /\ j \in 1 .. Used(out)
    BY <1>c
  <2>2. At(out, j) \in 0 .. OutSize - 1 /\ Ahead(out, At(out, j)) = j - 1
    BY <1>c, <2>1, RingPlace
  <2>3. Ahead(out, At(out, j)) < Ahead(out, tx.idx)
    BY <2>2, <1>b, <1>c, <1>e
  <2>4. (At(out, j) - tx.rd) % OutSize < (tx.idx - tx.rd) % OutSize
    BY <2>3, <1>b, <1>c DEF Ahead
  <2>5. q[j] = out.slots[At(out, j)]
    BY <1>c, <2>1, RingEntries DEF OutQueue
  <2> QED
    BY <2>2, <2>4, <2>5
<1> HIDE DEF q, again
<1>1. Working'
  BY <1>a DEF Working
<1>2. Increasing(OutQueue)' /\ SentOrQueued'
  BY <1>a, <1>d DEF SentInv, SentOrQueued, q
<1>3. SentInOrder'
  BY <1>a DEF SentInv, SentInOrder
<1>4. DoneIsSent'
  <2> SUFFICES ASSUME NEW j \in 1 .. Len(q), j <= 0 PROVE FALSE
    BY <1>b, <1>d DEF DoneIsSent
  <2> QED
    OBVIOUS
<1>5. RestIsNew'
  <2> SUFFICES ASSUME NEW j \in 1 .. Len(q), NEW w \in Range(wire)
               PROVE w < q[j] \/ q[j] \in resent'
    BY <1>a, <1>d DEF RestIsNew
  <2>1. CASE j <= Done
    BY <2>1, <1>a, <1>e
  <2>2. CASE j > Done
    BY <2>2, <1>a DEF SentInv, RestIsNew, q
  <2> QED
    BY <2>1, <2>2, <1>c
<1> QED
  BY <1>1, <1>2, <1>3, <1>4, <1>5 DEF SentInv

(* The driver adds a packet newer than all others, behind those            *)
(* HandleTxPackets works on.                                               *)
LEMMA SentPut == TypeOK /\ SentInv /\ Put => SentInv'
<1> SUFFICES ASSUME TypeOK, SentInv, Put PROVE SentInv'
  OBVIOUS
<1> DEFINE q == OutQueue  w2 == NextIdx(out.wr, out)  x == puts + 1
<1>a. /\ w2 # out.rd /\ puts' = x
      /\ out' = [out EXCEPT !.slots[out.wr] = x, !.wr = w2]
      /\ UNCHANGED <<pc, tx, wire, lostOut, resent>>
  BY DEF Put, Driver, mainVars
<1>c. /\ OutSize \in Nat \ {0} /\ OutSize \in Nat /\ out \in RingOf(OutSize) /\ Done \in Nat
      /\ q \in Seq(Nat) /\ Len(q) = Used(out) /\ Used(out) \in 0 .. OutSize - 1
      /\ out.rd \in 0 .. OutSize - 1 /\ out.wr \in 0 .. OutSize - 1 /\ x \in Nat /\ puts \in Nat
      /\ Ahead(out, tx.wr) \in 0 .. OutSize - 1 /\ wire \in Seq(Nat)
  <2>1. /\ OutSize \in Nat \ {0} /\ out \in RingOf(OutSize) /\ Done \in Nat
        /\ q \in Seq(Nat) /\ Len(q) = Used(out) /\ Used(out) \in 0 .. OutSize - 1
        /\ out.rd \in 0 .. OutSize - 1 /\ out.wr \in 0 .. OutSize - 1 /\ puts \in Nat
        /\ Ahead(out, tx.wr) \in 0 .. OutSize - 1 /\ wire \in Seq(Nat)
    BY SentType
  <2> HIDE DEF q
  <2> QED
    BY <2>1
<1>d. w2 \in 0 .. OutSize - 1
  BY <1>c, RingIndex
<1>e. PICK o2 : o2 = out'
  OBVIOUS
<1>f. /\ o2 \in RingOf(OutSize) /\ o2.rd = out.rd /\ o2.wr = w2 /\ o2.slots[out.wr] = x
      /\ \A j \in 0 .. OutSize - 1 : j # out.wr => o2.slots[j] = out.slots[j]
  <2>1. o2 = [out EXCEPT !.slots[out.wr] = x, !.wr = w2]
    BY <1>a, <1>e
  <2>2. OutSize \in Nat \ {0} /\ out \in RingOf(OutSize) /\ x \in Nat /\ w2 \in 0 .. OutSize - 1
    BY <1>c, <1>d
  <2> HIDE DEF x, w2
  <2> DEFINE s == [out.slots EXCEPT ![out.wr] = x]
  <2>3. /\ s \in [0 .. OutSize - 1 -> Nat] /\ s[out.wr] = x
        /\ \A j \in 0 .. OutSize - 1 : j # out.wr => s[j] = out.slots[j]
    BY <2>2 DEF RingOf
  <2>4. o2 = [rd |-> out.rd, wr |-> w2, size |-> OutSize, slots |-> s]
    BY <2>1, <2>2 DEF RingOf
  <2> HIDE DEF s
  <2>5. o2 \in RingOf(OutSize) /\ o2.rd = out.rd /\ o2.wr = w2 /\ o2.slots = s
    BY <2>2, <2>3, <2>4 DEF RingOf
  <2> QED
    BY <2>3, <2>5
<1>g. Entries(o2) = Append(q, x) /\ Used(o2) = Used(out) + 1
  <2> HIDE DEF x
  <2> QED
    BY <1>a, <1>c, <1>f, RingAppend DEF OutQueue
<1>h. OutQueue' = Append(q, x) /\ Used(out)' = Used(out) + 1
  BY <1>e, <1>g DEF OutQueue
<1>i. \A i \in 0 .. OutSize - 1 : Ahead(o2, i) = Ahead(out, i)
  BY <1>c, <1>f DEF Ahead, RingOf
<1>j. Sending' = Sending /\ Done' = Done
  <2>1. tx.idx \in 0 .. OutSize - 1
    BY SentType
  <2>2. Ahead(out', tx.idx) = Ahead(out, tx.idx)
    BY <1>e, <1>i, <2>1
  <2> QED
    BY <1>a, <2>2 DEF Done, Sending
<1>k. /\ Len(Append(q, x)) = Len(q) + 1 /\ Append(q, x)[Len(q) + 1] = x /\ Len(q) \in Nat
      /\ \A j \in 1 .. Len(q) : Append(q, x)[j] = q[j] /\ q[j] \in Range(q)
      /\ Range(Append(q, x)) = Range(q) \cup {x} /\ Append(q, x) \in Seq(Nat)
  <2> HIDE DEF q, x
  <2>0. q \in Seq(Nat) /\ x \in Nat
    BY <1>c
  <2>1. Range(Append(q, x)) = Range(q) \cup {x}
    BY <2>0, RangeAppend
  <2>2. \A j \in 1 .. Len(q) : q[j] \in Range(q)
    BY <1>c, InRange
  <2> QED
    BY <1>c, <2>1, <2>2
<1>l. \A v \in Range(wire) \cup Range(q) \cup lostOut : v \in 1 .. puts
  BY DEF SentInv, SentOrQueued
<1>m. 1 .. x = 1 .. puts \cup {x} /\ \A v \in 1 .. puts : v < x
  BY <1>c
<1> DEFINE q2 == Append(q, x)
<1> HIDE DEF q, q2, x, w2
<1>n. OutQueue' = q2 /\ puts' = x
  BY <1>a, <1>h DEF q2
<1>1. Working'
  <2> SUFFICES ASSUME Sending
               PROVE /\ tx'.rd = out'.rd
                     /\ Ahead(out', tx'.idx) <= Ahead(out', tx'.wr) /\ Ahead(out', tx'.wr) <= Used(out')
    BY <1>j DEF Working
  <2>1. tx.rd = out.rd /\ Ahead(out, tx.idx) <= Ahead(out, tx.wr) /\ Ahead(out, tx.wr) <= Used(out)
    BY DEF SentInv, Working
  <2>2. tx.idx \in 0 .. OutSize - 1 /\ tx.wr \in 0 .. OutSize - 1
    BY SentType
  <2>3. Ahead(out', tx'.idx) = Ahead(out, tx.idx) /\ Ahead(out', tx'.wr) = Ahead(out, tx.wr)
    BY <1>a, <1>e, <1>i, <2>2
  <2>4. Ahead(out, tx.wr) <= Used(o2)
    BY <2>1, <1>c, <1>g
  <2> QED
    BY <2>1, <2>3, <2>4, <1>a, <1>e, <1>f
<1>2. Increasing(OutQueue)'
  <2>0. DOMAIN q2 = 1 .. Len(q) + 1 /\ DOMAIN q = 1 .. Len(q)
    BY <1>c, <1>k, InRange DEF q2
  <2> SUFFICES ASSUME NEW i \in 1 .. Len(q) + 1, NEW j \in 1 .. Len(q) + 1, i < j PROVE q2[i] < q2[j]
    BY <1>n, <2>0 DEF Increasing
  <2>1. i \in 1 .. Len(q) /\ q2[i] = q[i] /\ q[i] \in Range(q)
    BY <1>k DEF q2
  <2>2. CASE j = Len(q) + 1
    BY <2>1, <2>2, <1>k, <1>l, <1>m DEF q2
  <2>3. CASE j # Len(q) + 1
    <3>1. j \in 1 .. Len(q) /\ q2[j] = q[j]
      BY <2>3, <1>k DEF q2
    <3>2. Increasing(q)
      BY DEF SentInv, q
    <3> QED
      BY <2>0, <2>1, <3>1, <3>2 DEF Increasing
  <2> QED
    BY <2>2, <2>3
<1>3. SentOrQueued'
  <2>1. 1 .. puts = Range(wire) \cup Range(q) \cup lostOut
    BY DEF SentInv, SentOrQueued, q
  <2>2. 1 .. puts \cup {x} = Range(wire) \cup Range(q2) \cup lostOut
    BY <2>1, <1>k DEF q2
  <2> QED
    BY <1>a, <1>m, <1>n, <2>2 DEF SentOrQueued
<1>4. SentInOrder'
  BY <1>a DEF SentInv, SentInOrder
<1>5. DoneIsSent'
  <2> SUFFICES ASSUME NEW j \in 1 .. Len(q2), j <= Done PROVE q2[j] \in Range(wire) \cup lostOut
    BY <1>a, <1>j, <1>n DEF DoneIsSent
  <2>1. Done <= Used(out)
    <3>1. Sending => Ahead(out, tx.idx) <= Ahead(out, tx.wr) /\ Ahead(out, tx.wr) <= Used(out)
      BY DEF SentInv, Working
    <3>2. Ahead(out, tx.idx) \in Nat
      BY SentType
    <3> QED
      BY <3>1, <3>2, <1>c DEF Done
  <2>2. j \in 1 .. Len(q)
    BY <2>1, <1>c, <1>k DEF q2
  <2>3. q2[j] = q[j]
    BY <2>2, <1>k DEF q2
  <2> QED
    BY <2>2, <2>3 DEF SentInv, DoneIsSent, q
<1>6. RestIsNew'
  <2> SUFFICES ASSUME NEW j \in 1 .. Len(q2), j > Done, NEW w \in Range(wire)
               PROVE w < q2[j] \/ q2[j] \in resent
    BY <1>a, <1>j, <1>n DEF RestIsNew
  <2>1. CASE j = Len(q) + 1
    BY <2>1, <1>k, <1>l, <1>m DEF q2
  <2>2. CASE j # Len(q) + 1
    <3>1. j \in 1 .. Len(q) /\ q2[j] = q[j]
      BY <2>2, <1>k DEF q2
    <3> QED
      BY <3>1 DEF SentInv, RestIsNew, q
  <2> QED
    BY <2>1, <2>2
<1> QED
  BY <1>1, <1>2, <1>3, <1>4, <1>5, <1>6 DEF SentInv

(* The driver gives up its rings only when nothing is at work in them:     *)
(* what was left in the output ring is counted as lost.                    *)
LEMMA SentReset ==
  TypeOK /\ Session /\ ClosedIsQuiet /\ SentInv /\ (Open \/ TakeClosed) => SentInv'
<1> SUFFICES ASSUME TypeOK, Session, ClosedIsQuiet, SentInv, Open \/ TakeClosed PROVE SentInv'
  OBVIOUS
<1> DEFINE q == OutQueue
<1>a. out' = NewRing(OutSize) /\ UNCHANGED <<pc, wire, resent, puts>>
  BY DEF Open, TakeClosed, Take, Driver, mainVars
<1>b. Entries(NewRing(OutSize)) = <<>>
  BY EthernetAssumption, NewRings
<1>c. OutQueue' = <<>>
  BY <1>a, <1>b DEF OutQueue
<1>d. pc = "idle"
  <2>1. CASE Open
    BY <2>1 DEF Open, Session, Quiet
  <2>2. CASE TakeClosed
    <3>1. toCray["closed"] > 0
      BY <2>2 DEF TakeClosed, Take
    <3>2. toCray["closed"] # 0
      BY <3>1
    <3> QED
      BY <3>2 DEF TypeOK, DriverType, States, Session, NoAnswer, Quiet
  <2> QED
    BY <2>1, <2>2
<1>e. ~Sending' /\ Done' = 0
  BY <1>a, <1>d DEF Sending, Done
<1>f. Range(q) \cup lostOut = lostOut' \cup Range(<<>>) /\ Range(<<>>) = {}
  <2>0. Range(<<>>) = {}
    BY DEF Range
  <2>1. CASE Open
    <3>1. q = <<>> /\ lostOut' = lostOut
      BY <2>1, <1>b DEF Open, ClosedIsQuiet, OutQueue
    <3> QED
      BY <2>0, <3>1
  <2>2. CASE TakeClosed
    BY <2>0, <2>2 DEF TakeClosed, OutQueue
  <2> QED
    BY <2>1, <2>2
<1> HIDE DEF q
<1>1. Working'
  BY <1>e DEF Working
<1>2. Increasing(OutQueue)'
  BY <1>c DEF Increasing
<1>3. SentOrQueued'
  <2>1. 1 .. puts = Range(wire) \cup Range(q) \cup lostOut
    BY DEF SentInv, SentOrQueued, q
  <2>2. 1 .. puts = Range(wire) \cup Range(<<>>) \cup lostOut'
    BY <2>1, <1>f
  <2> QED
    BY <1>a, <1>c, <2>2 DEF SentOrQueued
<1>4. SentInOrder'
  BY <1>a DEF SentInv, SentInOrder
<1>5. DoneIsSent' /\ RestIsNew'
  BY <1>c DEF DoneIsSent, RestIsNew
<1> QED
  BY <1>1, <1>2, <1>3, <1>4, <1>5 DEF SentInv

(* Every step of an interface and its driver keeps SentInv.                *)
LEMMA SentStep == TypeOK /\ Session /\ ClosedIsQuiet /\ SentInv /\ [EthNext]_ethVars => SentInv'
<1> SUFFICES ASSUME TypeOK, Session, ClosedIsQuiet, SentInv, [EthNext]_ethVars PROVE SentInv'
  OBVIOUS
<1>1. ASSUME UNCHANGED <<out, wire, lostOut, puts, resent, tx>>, ~Sending \/ pc' = pc, ~Sending' \/ pc' = pc
      PROVE SentInv'
  <2>1. Sending' = Sending
    BY <1>1 DEF Sending
  <2>2. Working'
    BY <1>1, <2>1 DEF SentInv, Working
  <2>3. Done' = Done
    BY <1>1, <2>1 DEF Done
  <2> QED
    BY <1>1, <2>2, <2>3, SentSame
<1>2. CASE Receive \/ Push \/ RxFill \/ RxIndex \/ RxWake \/ UNCHANGED ethVars
  <2>1. UNCHANGED <<out, wire, lostOut, puts, resent, tx>>
    BY <1>2 DEF Receive, Push, RxFill, RxIndex, RxWake, Rx, ethVars, mainVars, counters, history
  <2>2. pc' = pc \/ (~Sending /\ ~Sending')
    BY <1>2 DEF Receive, Push, RxFill, RxIndex, RxWake, ethVars, mainVars, Sending
  <2> QED
    BY <1>1, <2>1, <2>2
<1>3. CASE TxSleep
  BY <1>1, <1>3 DEF TxSleep, Tx, Sending
<1>4. CASE HandleOpen \/ HandleClose
  BY <1>1, <1>4 DEF HandleOpen, HandleClose, HandleRequest, history, counters
<1>5. CASE Close \/ Consume \/ TakeOpened \/ TakeWakeInput \/ TakeSleepOutput
  BY <1>1, <1>5 DEF Close, Consume, TakeOpened, TakeWakeInput, TakeSleepOutput, Take, Driver,
         mainVars
<1>6. CASE Kick
  BY <1>6, SentBegins DEF Kick, Tx
<1>7. CASE HandleWakeOutput
  BY <1>7, SentBegins DEF HandleWakeOutput, HandleRequest, history, counters
<1> QED
  BY <1>2, <1>3, <1>4, <1>5, <1>6, <1>7, SentSend, SentIndex, SentKick, SentPut, SentReset
     DEF EthNext, MainThread, Answers

(* A new interface has sent nothing, and nothing waits for it.             *)
LEMMA SentInit == EthInit => SentInv
<1> SUFFICES ASSUME EthInit PROVE SentInv
  OBVIOUS
<1>1. OutQueue = <<>>
  BY EthernetAssumption, NewRings DEF EthInit, OutQueue
<1>2. ~Sending /\ wire = <<>> /\ lostOut = {} /\ puts = 0
  BY DEF EthInit, Sending
<1>3. Range(<<>>) = {} /\ 1 .. 0 = {}
  BY DEF Range
<1>4. SentOrQueued
  BY <1>1, <1>2, <1>3 DEF SentOrQueued
<1> QED
  BY <1>1, <1>2, <1>4 DEF SentInv, Working, Increasing, SentInOrder, DoneIsSent, RestIsNew

-----------------------------------------------------------------------------
(* The frames in the input ring, the one HandleRxPacket has written but    *)
(* not yet shown, all frames from the driver back to the capture thread,   *)
(* and those that are past mPacketQueue.                                   *)
InQueue == Entries(in)
Entering == IF pc = "rxIndex" THEN <<frame.id>> ELSE <<>>
Whole == Line \o Ids(held)
Kept == Range(consumed) \cup Range(InQueue) \cup Range(Entering)

(* Between its two writes HandleRxPacket has a slot for itself that holds  *)
(* its frame.                                                              *)
Entry == pc = "rxIndex" => NextIdx(in.wr, in) # in.rd /\ in.slots[in.wr] = frame.id

(* Numbers are given in the order of arrival; a frame the capture thread   *)
(* holds is newer than all that were lost.                                 *)
Arrivals ==
  /\ \A x \in Range(Whole) \cup lostIn : x <= arrived
  /\ \A a \in lostIn, i \in 1 .. Len(held) : a < held[i].id

(* The line of all frames, the one held by the capture thread at its end,  *)
(* is in order, and a frame that fits an entry is kept or counted as lost. *)
LineInv ==
  /\ Increasing(Whole) /\ Arrivals /\ Entry
  /\ Kept \cup Fitting(hostQueue) = Fitting(accepted) \ lostIn

(* A beginning of the line is in order if the line is.                     *)
LEMMA IncreasingPrefix ==
  ASSUME NEW a \in Seq(Nat), NEW b \in Seq(Nat), Increasing(a \o b)
  PROVE Increasing(a)
<1>1. /\ Len(a) \in Nat /\ Len(b) \in Nat /\ DOMAIN a = 1 .. Len(a)
      /\ DOMAIN (a \o b) = 1 .. Len(a) + Len(b)
      /\ \A i \in 1 .. Len(a) : (a \o b)[i] = a[i]
  OBVIOUS
<1> SUFFICES ASSUME NEW i \in 1 .. Len(a), NEW j \in 1 .. Len(a), i < j PROVE a[i] < a[j]
  BY <1>1 DEF Increasing
<1>2. i \in 1 .. Len(a) + Len(b) /\ j \in 1 .. Len(a) + Len(b)
  BY <1>1
<1> DEFINE c == a \o b
<1>3. c[i] < c[j]
  <2>1. Increasing(c) /\ i \in DOMAIN c /\ j \in DOMAIN c
    BY <1>1, <1>2
  <2> HIDE DEF c
  <2> QED
    BY <2>1 DEF Increasing
<1> QED
  BY <1>1, <1>3

(* A line that is in order stays so when a part is taken out (a frame      *)
(* longer than an entry, the entries of a ring that was closed), and       *)
(* nothing else in it has the numbers of that part.                        *)
LEMMA IncreasingMiddle ==
  ASSUME NEW a \in Seq(Nat), NEW b \in Seq(Nat), NEW c \in Seq(Nat), Increasing(a \o (b \o c))
  PROVE /\ Increasing(a \o c)
        /\ \A x \in Range(b) : x \notin Range(a) \cup Range(c)
<1> DEFINE w == a \o (b \o c)  v == a \o c
<1>1. /\ Len(a) \in Nat /\ Len(b) \in Nat /\ Len(c) \in Nat
      /\ DOMAIN a = 1 .. Len(a) /\ DOMAIN b = 1 .. Len(b) /\ DOMAIN c = 1 .. Len(c)
  OBVIOUS
<1>2. DOMAIN v = 1 .. Len(a) + Len(c) /\ DOMAIN w = 1 .. Len(a) + (Len(b) + Len(c))
  OBVIOUS
<1>3. /\ \A i \in 1 .. Len(a) : v[i] = a[i] /\ w[i] = a[i]
      /\ \A i \in 1 .. Len(c) : v[Len(a) + i] = c[i] /\ w[Len(a) + (Len(b) + i)] = c[i]
      /\ \A i \in 1 .. Len(b) : w[Len(a) + i] = b[i]
  <2>1. \A i \in 1 .. Len(a) : v[i] = a[i] /\ w[i] = a[i]
    OBVIOUS
  <2>2. \A i \in 1 .. Len(c) : v[Len(a) + i] = c[i]
    OBVIOUS
  <2> DEFINE bc == b \o c
  <2>3. /\ bc \in Seq(Nat) /\ Len(bc) = Len(b) + Len(c)
        /\ \A i \in 1 .. Len(b) : bc[i] = b[i]
        /\ \A i \in 1 .. Len(c) : bc[Len(b) + i] = c[i]
    OBVIOUS
  <2> HIDE DEF bc
  <2>4. \A k \in 1 .. Len(bc) : (a \o bc)[Len(a) + k] = bc[k]
    BY <2>3
  <2>5. /\ \A i \in 1 .. Len(c) : Len(b) + i \in 1 .. Len(bc)
        /\ \A i \in 1 .. Len(b) : i \in 1 .. Len(bc)
    BY <2>3, <1>1
  <2>6. \A i \in 1 .. Len(c) : w[Len(a) + (Len(b) + i)] = c[i]
    BY <2>3, <2>4, <2>5 DEF bc
  <2>7. \A i \in 1 .. Len(b) : w[Len(a) + i] = b[i]
    BY <2>3, <2>4, <2>5 DEF bc
  <2> QED
    BY <2>1, <2>2, <2>6, <2>7
<1>4. Increasing(w)
  OBVIOUS
<1> HIDE DEF v, w
<1> DEFINE at(i) == IF i <= Len(a) THEN i ELSE i + Len(b)
<1>5. \A i \in 1 .. Len(a) + Len(c) : at(i) \in DOMAIN w /\ v[i] = w[at(i)]
  <2> SUFFICES ASSUME NEW i \in 1 .. Len(a) + Len(c) PROVE at(i) \in DOMAIN w /\ v[i] = w[at(i)]
    OBVIOUS
  <2>1. CASE i <= Len(a)
    BY <2>1, <1>1, <1>2, <1>3
  <2>2. CASE ~(i <= Len(a))
    <3> DEFINE k == i - Len(a)
    <3>1. k \in 1 .. Len(c) /\ Len(a) + k = i /\ Len(a) + (Len(b) + k) = i + Len(b)
      BY <2>2, <1>1
    <3>2. v[Len(a) + k] = c[k] /\ w[Len(a) + (Len(b) + k)] = c[k]
      BY <3>1, <1>3
    <3>3. i + Len(b) \in DOMAIN w
      BY <2>2, <1>1, <1>2
    <3> HIDE DEF k
    <3> QED
      BY <2>2, <3>1, <3>2, <3>3
  <2> QED
    BY <2>1, <2>2
<1>6. Increasing(v)
  <2> SUFFICES ASSUME NEW i \in 1 .. Len(a) + Len(c), NEW j \in 1 .. Len(a) + Len(c), i < j PROVE v[i] < v[j]
    BY <1>2 DEF Increasing
  <2>1. at(i) < at(j)
    BY <1>1
  <2> HIDE DEF at
  <2> QED
    BY <1>4, <1>5, <2>1 DEF Increasing
<1>7. ASSUME NEW x \in Range(b) PROVE x \notin Range(a) \cup Range(c)
  <2>1. PICK j \in 1 .. Len(b) : b[j] = x
    BY InRange
  <2>2. Len(a) + j \in DOMAIN w /\ w[Len(a) + j] = x /\ x \in Nat
    BY <2>1, <1>1, <1>2, <1>3, ElementOfSeq
  <2>3. x \notin Range(a)
    <3> SUFFICES ASSUME x \in Range(a) PROVE FALSE
      OBVIOUS
    <3>1. PICK i \in 1 .. Len(a) : a[i] = x
      BY InRange
    <3>2. i \in DOMAIN w /\ w[i] = x /\ i < Len(a) + j
      BY <3>1, <1>1, <1>2, <1>3
    <3>3. w[i] < w[Len(a) + j]
      BY <3>2, <2>2, <1>4 DEF Increasing
    <3> QED
      BY <3>2, <3>3, <2>2
  <2>4. x \notin Range(c)
    <3> SUFFICES ASSUME x \in Range(c) PROVE FALSE
      OBVIOUS
    <3>1. PICK i \in 1 .. Len(c) : c[i] = x
      BY InRange
    <3>2. Len(a) + (Len(b) + i) \in DOMAIN w /\ w[Len(a) + (Len(b) + i)] = x /\ Len(a) + j < Len(a) + (Len(b) + i)
      BY <3>1, <1>1, <1>2, <1>3
    <3>3. w[Len(a) + j] < w[Len(a) + (Len(b) + i)]
      BY <3>2, <2>2, <1>4 DEF Increasing
    <3> QED
      BY <3>2, <3>3, <2>2
  <2> QED
    BY <2>3, <2>4
<1> QED
  BY <1>6, <1>7 DEF v

(* A line that is in order stays so when a newer frame joins it.           *)
LEMMA IncreasingAppend ==
  ASSUME NEW s \in Seq(Nat), NEW x \in Nat, Increasing(s), \A y \in Range(s) : y < x
  PROVE Increasing(s \o <<x>>)
<1> DEFINE t == s \o <<x>>
<1>1. /\ Len(s) \in Nat /\ DOMAIN s = 1 .. Len(s) /\ DOMAIN t = 1 .. Len(s) + 1
      /\ t[Len(s) + 1] = x /\ \A i \in 1 .. Len(s) : t[i] = s[i]
  OBVIOUS
<1>2. \A i \in 1 .. Len(s) : s[i] \in Range(s)
  BY InRange
<1> HIDE DEF t
<1> SUFFICES ASSUME NEW i \in 1 .. Len(s) + 1, NEW j \in 1 .. Len(s) + 1, i < j PROVE t[i] < t[j]
  BY <1>1 DEF Increasing, t
<1>3. i \in 1 .. Len(s)
  BY <1>1
<1>4. CASE j = Len(s) + 1
  BY <1>1, <1>2, <1>3, <1>4
<1>5. CASE j # Len(s) + 1
  <2>1. j \in 1 .. Len(s)
    BY <1>1, <1>5
  <2> QED
    BY <1>1, <1>3, <2>1 DEF Increasing
<1> QED
  BY <1>4, <1>5

(* The numbers of the frames in a queue.                                   *)
LEMMA IdsAre ==
  ASSUME NEW s \in Seq(Frame)
  PROVE /\ Ids(s) \in Seq(Nat) /\ Len(Ids(s)) = Len(s) /\ \A i \in 1 .. Len(s) : Ids(s)[i] = s[i].id
        /\ Fitting(s) \subseteq Range(Ids(s))
<1>1. Len(s) \in Nat /\ DOMAIN s = 1 .. Len(s) /\ \A i \in 1 .. Len(s) : s[i].id \in Nat
  <2>1. \A i \in 1 .. Len(s) : s[i] \in Frame
    BY ElementOfSeq
  <2>2. \A f \in Frame : f.id \in Nat
    BY DEF Frame
  <2> QED
    BY <2>1, <2>2, LenProperties
<1>2. Ids(s) = [i \in 1 .. Len(s) |-> s[i].id]
  BY <1>1 DEF Ids
<1>3. /\ Ids(s) \in Seq(Nat) /\ Len(Ids(s)) = Len(s) /\ \A i \in 1 .. Len(s) : Ids(s)[i] = s[i].id
  BY <1>1, <1>2
<1>4. Fitting(s) \subseteq Range(Ids(s))
  <2> SUFFICES ASSUME NEW g \in Range(s) PROVE g.id \in Range(Ids(s))
    BY DEF Fitting
  <2>1. PICK i \in 1 .. Len(s) : s[i] = g
    BY InRange
  <2>2. Ids(s)[i] \in Range(Ids(s))
    BY <1>3, InRange
  <2> QED
    BY <2>1, <2>2, <1>3
<1> QED
  BY <1>3, <1>4

(* The numbers of the frames in two queues, one behind the other:          *)
(* SafeQueue::Push appends.                                                *)
LEMMA IdsConcat ==
  ASSUME NEW s \in Seq(Frame), NEW t \in Seq(Frame)
  PROVE Ids(s \o t) = Ids(s) \o Ids(t) /\ Fitting(s \o t) = Fitting(s) \cup Fitting(t)
<1> DEFINE u == s \o t  a == Ids(s)  b == Ids(t)
<1>1. /\ u \in Seq(Frame) /\ Len(u) = Len(s) + Len(t) /\ Len(s) \in Nat /\ Len(t) \in Nat
      /\ \A i \in 1 .. Len(s) + Len(t) : u[i] = IF i <= Len(s) THEN s[i] ELSE t[i - Len(s)]
  BY ConcatProperties
<1>2. Range(u) = Range(s) \cup Range(t)
  BY RangeConcatenation
<1> HIDE DEF u
<1>3. /\ Ids(u) \in Seq(Nat) /\ Len(Ids(u)) = Len(s) + Len(t)
      /\ \A i \in 1 .. Len(s) + Len(t) : Ids(u)[i] = u[i].id
      /\ a \in Seq(Nat) /\ Len(a) = Len(s) /\ \A i \in 1 .. Len(s) : a[i] = s[i].id
      /\ b \in Seq(Nat) /\ Len(b) = Len(t) /\ \A i \in 1 .. Len(t) : b[i] = t[i].id
  BY <1>1, IdsAre
<1> HIDE DEF a, b
<1>4. /\ a \o b \in Seq(Nat) /\ Len(a \o b) = Len(s) + Len(t)
      /\ \A i \in 1 .. Len(s) + Len(t) : (a \o b)[i] = IF i <= Len(s) THEN a[i] ELSE b[i - Len(s)]
  <2>1. /\ a \o b \in Seq(Nat) /\ Len(a \o b) = Len(a) + Len(b)
        /\ \A i \in 1 .. Len(a) + Len(b) : (a \o b)[i] = IF i <= Len(a) THEN a[i] ELSE b[i - Len(a)]
    <3>1. a \in Seq(Nat) /\ b \in Seq(Nat)
      BY <1>3
    <3> QED
      BY <3>1, ConcatProperties
  <2> QED
    BY <1>3, <2>1
<1>5. \A i \in 1 .. Len(s) + Len(t) : Ids(u)[i] = (a \o b)[i]
  <2> SUFFICES ASSUME NEW i \in 1 .. Len(s) + Len(t) PROVE Ids(u)[i] = (a \o b)[i]
    OBVIOUS
  <2>1. CASE i <= Len(s)
    <3>1. i \in 1 .. Len(s) /\ u[i] = s[i] /\ (a \o b)[i] = a[i]
      BY <2>1, <1>1, <1>4
    <3> QED
      BY <3>1, <1>3
  <2>2. CASE ~(i <= Len(s))
    <3>1. i - Len(s) \in 1 .. Len(t) /\ u[i] = t[i - Len(s)] /\ (a \o b)[i] = b[i - Len(s)]
      <4>1. i - Len(s) \in 1 .. Len(t)
        BY <2>2, <1>1
      <4>2. u[i] = t[i - Len(s)]
        BY <2>2, <1>1
      <4>3. (a \o b)[i] = b[i - Len(s)]
        BY <2>2, <1>4
      <4> QED
        BY <4>1, <4>2, <4>3
    <3> QED
      BY <3>1, <1>3
  <2> QED
    BY <2>1, <2>2
<1>6. Ids(u) = a \o b
  BY <1>3, <1>4, <1>5, SeqEqual
<1>7. Fitting(u) = Fitting(s) \cup Fitting(t)
  BY <1>2 DEF Fitting
<1> QED
  BY <1>6, <1>7 DEF u, a, b

(* What is in a line of two parts.                                         *)
LEMMA TwoParts ==
  ASSUME NEW a \in Seq(Nat), NEW b \in Seq(Nat)
  PROVE a \o b \in Seq(Nat) /\ Range(a \o b) = Range(a) \cup Range(b)
BY ConcatProperties, RangeConcatenation

(* A line of three parts may be cut at either joint.                       *)
LEMMA ThreeParts ==
  ASSUME NEW a \in Seq(Nat), NEW b \in Seq(Nat), NEW c \in Seq(Nat)
  PROVE (a \o b) \o c = a \o (b \o c)
BY ConcatAssociative, SMTT(40)

(* What the input side of a well-formed interface looks like, cut into the *)
(* parts its steps work on.                                                *)
LEMMA LineType ==
  ASSUME TypeOK
  PROVE /\ consumed \in Seq(Nat) /\ InQueue \in Seq(Nat) /\ Entering \in Seq(Nat)
        /\ Ids(hostQueue) \in Seq(Nat) /\ Ids(held) \in Seq(Nat)
        /\ Line \in Seq(Nat) /\ Whole \in Seq(Nat)
        /\ Whole = consumed \o (InQueue \o (Entering \o (Ids(hostQueue) \o Ids(held))))
        /\ Range(Whole) = Kept \cup Range(Ids(hostQueue)) \cup Range(Ids(held))
        /\ in \in RingOf(InSize) /\ InSize \in Nat \ {0}
        /\ hostQueue \in Seq(Frame) /\ held \in Seq(Frame) /\ accepted \in Seq(Frame)
        /\ arrived \in Nat /\ lostIn \in SUBSET Nat /\ frame \in Frame /\ frame.id \in Nat
<1>1. /\ consumed \in Seq(Nat) /\ in \in RingOf(InSize) /\ InSize \in Nat \ {0} /\ frame \in Frame
      /\ hostQueue \in Seq(Frame) /\ held \in Seq(Frame) /\ accepted \in Seq(Frame)
      /\ arrived \in Nat /\ lostIn \in SUBSET Nat
  BY EthernetAssumption DEF TypeOK, FramesType, RingsType, DriverType
<1>2. frame.id \in Nat
  BY <1>1 DEF Frame
<1>3. InQueue \in Seq(Nat)
  BY <1>1, RingEntries DEF InQueue
<1>4. Entering \in Seq(Nat)
  BY <1>2 DEF Entering
<1>5. Ids(hostQueue) \in Seq(Nat) /\ Ids(held) \in Seq(Nat)
  BY <1>1, IdsAre
<1>6. PICK q, h : q = Ids(hostQueue) /\ h = Ids(held)
  OBVIOUS
<1>7. PICK ce, cef : ce = consumed \o InQueue /\ cef = ce \o Entering
  OBVIOUS
<1>a. Line = cef \o q /\ Whole = Line \o h /\ q \in Seq(Nat) /\ h \in Seq(Nat)
  BY <1>5, <1>6, <1>7 DEF Line, Placed, InQueue, Entering, Whole
<1>b. ce \in Seq(Nat) /\ Range(ce) = Range(consumed) \cup Range(InQueue)
  BY <1>1, <1>3, <1>7, TwoParts
<1>c. cef \in Seq(Nat) /\ Range(cef) = Range(ce) \cup Range(Entering)
  BY <1>b, <1>4, <1>7, TwoParts
<1>d. Line \in Seq(Nat) /\ Range(Line) = Range(cef) \cup Range(q)
  BY <1>a, <1>c, TwoParts
<1>e. Whole \in Seq(Nat) /\ Range(Whole) = Range(Line) \cup Range(h)
  BY <1>a, <1>d, TwoParts
<1>f. PICK qh, fqh : qh = q \o h /\ fqh = Entering \o qh
  OBVIOUS
<1>g. qh \in Seq(Nat) /\ fqh \in Seq(Nat)
  <2>1. qh \in Seq(Nat)
    BY <1>a, <1>f, TwoParts
  <2> QED
    BY <2>1, <1>4, <1>f, TwoParts
<1>h. Whole = cef \o qh
  BY <1>a, <1>c, <1>f, ThreeParts
<1>i. cef \o qh = ce \o fqh
  <2>1. (ce \o Entering) \o qh = ce \o (Entering \o qh)
    BY <1>b, <1>4, <1>g, ThreeParts
  <2> QED
    BY <2>1, <1>7, <1>f
<1>j. ce \o fqh = consumed \o (InQueue \o fqh)
  <2>1. (consumed \o InQueue) \o fqh = consumed \o (InQueue \o fqh)
    BY <1>1, <1>3, <1>g, ThreeParts
  <2> QED
    BY <2>1, <1>7
<1>8. /\ Line \in Seq(Nat) /\ Whole \in Seq(Nat)
      /\ Whole = consumed \o (InQueue \o (Entering \o (q \o h)))
      /\ Range(Whole) = Kept \cup Range(q) \cup Range(h)
  BY <1>b, <1>c, <1>d, <1>e, <1>f, <1>h, <1>i, <1>j DEF Kept
<1> QED
  BY <1>1, <1>2, <1>3, <1>4, <1>5, <1>6, <1>8

(* The line of all frames, cut into its parts.                             *)
LEMMA WholeIs == TypeOK => Whole = consumed \o (InQueue \o (Entering \o (Ids(hostQueue) \o Ids(held))))
BY LineType

(* The same after a step.                                                  *)
LEMMA WholeNext ==
  (TypeOK => Whole = consumed \o (InQueue \o (Entering \o (Ids(hostQueue) \o Ids(held)))))'
BY WholeIs, PTL

(* A step that moves no frame keeps LineInv.                               *)
LEMMA LineFrame ==
  LineInv /\ UNCHANGED <<consumed, in, hostQueue, held, accepted, lostIn, arrived, frame>>
    /\ (pc = "rxIndex" <=> pc' = "rxIndex") => LineInv'
<1> SUFFICES ASSUME LineInv, UNCHANGED <<consumed, in, hostQueue, held, accepted, lostIn, arrived, frame>>,
                    pc = "rxIndex" <=> pc' = "rxIndex"
             PROVE LineInv'
  OBVIOUS
<1>1. InQueue' = InQueue /\ Entering' = Entering
  BY DEF InQueue, Entering
<1>2. Whole' = Whole
  BY DEF Whole, Line, Placed
<1>3. Kept' = Kept
  BY <1>1 DEF Kept
<1>4. Increasing(Whole)' /\ Arrivals' /\ Entry'
  BY <1>2 DEF LineInv, Arrivals, Entry
<1>5. (Kept \cup Fitting(hostQueue) = Fitting(accepted) \ lostIn)'
  BY <1>3 DEF LineInv
<1> QED
  BY <1>4, <1>5 DEF LineInv

(* BlockingReceive hands over the newest frame, or none.                   *)
LEMMA LineReceive == TypeOK /\ LineInv /\ Receive => LineInv'
<1> SUFFICES ASSUME TypeOK, LineInv, Receive PROVE LineInv'
  OBVIOUS
<1>a. /\ held = <<>> /\ arrived' = arrived + 1
      /\ UNCHANGED <<consumed, in, hostQueue, accepted, lostIn, frame, pc>>
  BY DEF Receive, mainVars, history
<1>b. PICK h2 : h2 = held'
  OBVIOUS
<1>c. h2 = <<>> \/ \E fits \in BOOLEAN : h2 = <<[id |-> arrived + 1, fits |-> fits]>>
  BY <1>b DEF Receive
<1>d. Line \in Seq(Nat) /\ Whole \in Seq(Nat) /\ arrived \in Nat /\ lostIn \in SUBSET Nat
  BY LineType
<1>e. Whole = Line
  <2>1. Ids(<<>>) = <<>>
    BY DEF Ids
  <2> QED
    BY <2>1, <1>a, <1>d, ConcatEmptySeq DEF Whole
<1>f. Line' = Line /\ Kept' = Kept
  BY <1>a DEF Line, Placed, Kept, InQueue, Entering
<1>g. Whole' = Line \o Ids(h2)
  BY <1>b, <1>f DEF Whole
<1>h. \A x \in Range(Whole) \cup lostIn : x <= arrived /\ x \in Nat
  <2>1. \A x \in Range(Whole) : x \in Nat
    BY <1>d, RangeOfSeq
  <2> QED
    BY <2>1, <1>d DEF LineInv, Arrivals
<1>1. Increasing(Whole') /\ \A x \in Range(Whole') : x <= arrived + 1
  <2>1. CASE h2 = <<>>
    <3>1. Ids(<<>>) = <<>>
      BY DEF Ids
    <3>2. Whole' = Whole
      BY <2>1, <3>1, <1>d, <1>e, <1>g, ConcatEmptySeq
    <3> QED
      BY <3>2, <1>d, <1>h DEF LineInv
  <2>2. CASE h2 # <<>>
    <3>1. Ids(h2) = <<arrived + 1>>
      BY <2>2, <1>c DEF Ids
    <3> DEFINE x == arrived + 1
    <3>2. x \in Nat /\ \A y \in Range(Line) : y < x
      BY <1>d, <1>e, <1>h
    <3>3. Whole' = Line \o <<x>>
      BY <3>1, <1>g
    <3> HIDE DEF x
    <3>4. Increasing(Line \o <<x>>)
      BY <3>2, <1>d, <1>e, IncreasingAppend DEF LineInv
    <3>5. Range(Line \o <<x>>) = Range(Line) \cup {x}
      <4>1. <<x>> \in Seq(Nat) /\ Range(<<x>>) = {x}
        BY <3>2 DEF Range
      <4> QED
        BY <4>1, <1>d, TwoParts
    <3> QED
      BY <3>3, <3>4, <3>5, <1>d, <1>e, <1>h DEF x
  <2> QED
    BY <2>1, <2>2
<1>2. Arrivals'
  <2>1. \A x \in lostIn : x <= arrived + 1
    BY <1>d, <1>h
  <2>2. \A a \in lostIn, i \in 1 .. Len(h2) : a < h2[i].id
    <3> SUFFICES ASSUME NEW a \in lostIn, NEW i \in 1 .. Len(h2) PROVE a < h2[i].id
      OBVIOUS
    <3>1. h2[i].id = arrived + 1
      BY <1>c
    <3>2. a <= arrived /\ a \in Nat
      BY <1>h
    <3> QED
      BY <3>1, <3>2, <1>d
  <2> QED
    BY <2>1, <2>2, <1>1, <1>a, <1>b DEF Arrivals
<1>3. Entry'
  BY <1>a DEF LineInv, Entry
<1>4. (Kept \cup Fitting(hostQueue) = Fitting(accepted) \ lostIn)'
  BY <1>a, <1>f DEF LineInv
<1> QED
  BY <1>1, <1>2, <1>3, <1>4 DEF LineInv

(* SafeQueue::Push moves the frame from the capture thread to the end of   *)
(* the queue.                                                              *)
LEMMA LinePush == TypeOK /\ TypeOK' /\ LineInv /\ Push => LineInv'
<1> SUFFICES ASSUME TypeOK, TypeOK', LineInv, Push PROVE LineInv'
  OBVIOUS
<1>a. /\ held' = <<>> /\ hostQueue' = hostQueue \o held /\ accepted' = accepted \o held
      /\ UNCHANGED <<consumed, in, lostIn, arrived, frame, pc>>
  BY DEF Push, mainVars, counters
<1>b. /\ hostQueue \in Seq(Frame) /\ held \in Seq(Frame) /\ accepted \in Seq(Frame) /\ lostIn \in SUBSET Nat
      /\ Whole = consumed \o (InQueue \o (Entering \o (Ids(hostQueue) \o Ids(held))))
      /\ Ids(hostQueue) \in Seq(Nat) /\ Ids(held) \in Seq(Nat)
  BY LineType
<1>c. /\ Ids(hostQueue') = Ids(hostQueue) \o Ids(held)
      /\ Fitting(hostQueue') = Fitting(hostQueue) \cup Fitting(held)
      /\ Fitting(accepted') = Fitting(accepted) \cup Fitting(held)
  BY <1>a, <1>b, IdsConcat
<1>d. InQueue' = InQueue /\ Entering' = Entering /\ Kept' = Kept
  BY <1>a DEF Kept, InQueue, Entering
<1>e. Whole' = Whole
  <2>1. Whole' = consumed' \o (InQueue' \o (Entering' \o (Ids(hostQueue') \o Ids(held'))))
    BY WholeNext
  <2>2. Ids(held') = <<>>
    BY <1>a DEF Ids
  <2> DEFINE q == Ids(hostQueue)  h == Ids(held)
  <2>3. (q \o h) \o <<>> = q \o h
    <3> HIDE DEF q, h
    <3>1. q \in Seq(Nat) /\ h \in Seq(Nat)
      BY <1>b DEF q, h
    <3>2. q \o h \in Seq(Nat)
      BY <3>1
    <3> QED
      BY <3>2, ConcatEmptySeq
  <2> QED
    BY <2>1, <2>2, <2>3, <1>a, <1>b, <1>c, <1>d
<1>1. Increasing(Whole)' /\ Entry'
  BY <1>a, <1>e DEF LineInv, Entry
<1>2. Arrivals'
  BY <1>a, <1>e DEF LineInv, Arrivals
<1>3. Kept \cup Fitting(hostQueue') = Fitting(accepted') \ lostIn
  <2>1. Fitting(held) \cap lostIn = {}
    <3> SUFFICES ASSUME NEW g \in Range(held), g.id \in lostIn PROVE FALSE
      BY DEF Fitting
    <3>1. PICK i \in 1 .. Len(held) : held[i] = g
      BY <1>b, InRange
    <3>2. g.id < g.id /\ g.id \in Nat
      BY <3>1, <1>b DEF LineInv, Arrivals
    <3> QED
      BY <3>2
  <2>2. Kept \cup Fitting(hostQueue) = Fitting(accepted) \ lostIn
    BY DEF LineInv
  <2> QED
    BY <2>1, <2>2, <1>c
<1>4. (Kept \cup Fitting(hostQueue) = Fitting(accepted) \ lostIn)'
  BY <1>3, <1>a, <1>d
<1> QED
  BY <1>1, <1>2, <1>4 DEF LineInv

(* The first half of HandleRxPacket takes the oldest frame from the queue: *)
(* it is dropped if it does not fit, and otherwise in the slot that is not *)
(* yet an entry.                                                           *)
LEMMA LineFill == TypeOK /\ TypeOK' /\ LineInv /\ RxFill => LineInv'
<1> SUFFICES ASSUME TypeOK, TypeOK', LineInv, RxFill PROVE LineInv'
  OBVIOUS
<1>a. /\ pc = "idle" /\ hostQueue # <<>> /\ Room /\ hostQueue' = Tail(hostQueue)
      /\ UNCHANGED <<consumed, accepted, lostIn, arrived, held>>
  BY DEF RxFill, counters, history
<1>b. /\ hostQueue \in Seq(Frame) /\ held \in Seq(Frame) /\ lostIn \in SUBSET Nat
      /\ in \in RingOf(InSize) /\ InSize \in Nat \ {0} /\ consumed \in Seq(Nat)
      /\ InQueue \in Seq(Nat) /\ Ids(held) \in Seq(Nat) /\ Whole \in Seq(Nat)
      /\ Whole = consumed \o (InQueue \o (Entering \o (Ids(hostQueue) \o Ids(held))))
  BY LineType
<1>c. PICK x, rest : x = Head(hostQueue) /\ rest = Tail(hostQueue)
  OBVIOUS
<1>d. /\ x \in Frame /\ x.id \in Nat /\ rest \in Seq(Frame) /\ <<x>> \in Seq(Frame)
      /\ hostQueue = <<x>> \o rest
  <2>1. x \in Frame /\ rest \in Seq(Frame)
    BY <1>a, <1>b, <1>c
  <2>2. x.id \in Nat
    BY <2>1 DEF Frame
  <2>3. hostQueue = <<x>> \o rest
    BY <1>a, <1>b, <1>c
  <2> QED
    BY <2>1, <2>2, <2>3
<1>e. Ids(<<x>>) = <<x.id>> /\ Fitting(<<x>>) = (IF x.fits THEN {x.id} ELSE {})
  BY DEF Ids, Fitting, Range
<1>f. PICK q, h, i : q = Ids(rest) /\ h = Ids(held) /\ i = <<x.id>>
  OBVIOUS
<1>g. /\ q \in Seq(Nat) /\ h \in Seq(Nat) /\ i \in Seq(Nat) /\ Range(i) = {x.id}
      /\ Ids(hostQueue) = i \o q
      /\ Fitting(hostQueue) = Fitting(<<x>>) \cup Fitting(rest)
  <2>1. i \in Seq(Nat) /\ Range(i) = {x.id}
    BY <1>d, <1>f DEF Range
  <2>2. q \in Seq(Nat)
    BY <1>d, <1>f, IdsAre
  <2>3. Ids(hostQueue) = Ids(<<x>>) \o q /\ Fitting(hostQueue) = Fitting(<<x>>) \cup Fitting(rest)
    BY <1>d, <1>f, IdsConcat
  <2> QED
    BY <2>1, <2>2, <2>3, <1>b, <1>e, <1>f
<1>h. Entering = <<>> /\ Whole = consumed \o (InQueue \o (<<>> \o ((i \o q) \o h)))
  BY <1>a, <1>b, <1>f, <1>g DEF Entering
<1>i. PICK qh, iqh : qh = q \o h /\ iqh = i \o qh
  OBVIOUS
<1>j. qh \in Seq(Nat) /\ iqh \in Seq(Nat) /\ (i \o q) \o h = iqh
  <2>1. qh \in Seq(Nat)
    BY <1>g, <1>i, TwoParts
  <2>2. iqh \in Seq(Nat)
    BY <2>1, <1>g, <1>i, TwoParts
  <2> QED
    <3>1. (i \o q) \o h = i \o (q \o h)
      BY <1>g, ThreeParts
    <3> QED
      BY <2>1, <2>2, <3>1, <1>i
<1>k. Whole = consumed \o (InQueue \o iqh)
  <2>1. <<>> \o iqh = iqh
    BY <1>j, ConcatEmptySeq
  <2> QED
    BY <2>1, <1>h, <1>j
<1>l. Whole' = consumed \o (InQueue' \o (Entering' \o qh))
  <2>1. Whole' = consumed' \o (InQueue' \o (Entering' \o (Ids(hostQueue') \o Ids(held'))))
    BY WholeNext
  <2> QED
    BY <2>1, <1>a, <1>c, <1>f, <1>i
<1>m. PICK in2 : in2 = in'
  OBVIOUS
<1>1. CASE x.fits
  <2>1. pc' = "rxIndex" /\ frame' = x /\ in2 = [in EXCEPT !.slots[in.wr] = x.id]
    BY <1>1, <1>c, <1>m DEF RxFill
  <2> DEFINE s == [in.slots EXCEPT ![in.wr] = x.id]
  <2>2. in.rd \in 0 .. InSize - 1 /\ in.wr \in 0 .. InSize - 1 /\ in.slots \in [0 .. InSize - 1 -> Nat] /\ in.size = InSize
    BY <1>b DEF RingOf
  <2>3. /\ s \in [0 .. InSize - 1 -> Nat] /\ s[in.wr] = x.id
        /\ \A j \in 0 .. InSize - 1 : j # in.wr => s[j] = in.slots[j]
    BY <2>2, <1>d
  <2>4. in2 = [rd |-> in.rd, wr |-> in.wr, size |-> InSize, slots |-> s]
    BY <1>b, <2>1, <2>2 DEF RingOf
  <2> HIDE DEF s
  <2>5. in2 \in RingOf(InSize) /\ in2.rd = in.rd /\ in2.wr = in.wr /\ in2.slots = s /\ in2.size = in.size
    BY <2>2, <2>3, <2>4 DEF RingOf
  <2>6. Entries(in2) = Entries(in)
    BY <1>b, <2>3, <2>5, RingWrite
  <2>7. InQueue' = InQueue /\ Entering' = i
    BY <2>1, <2>6, <1>f, <1>m DEF InQueue, Entering
  <2>8. Whole' = Whole
    BY <2>7, <1>i, <1>k, <1>l
  <2>9. Entry'
    BY <1>a, <1>m, <2>1, <2>3, <2>5 DEF Entry, Room, NextIdx
  <2>10. Kept' = Kept \cup {x.id}
    <3>1. Kept = Range(consumed) \cup Range(InQueue)
      BY <1>h DEF Kept, Range
    <3> QED
      BY <3>1, <2>7, <1>a, <1>g DEF Kept
  <2>11. (Kept \cup Fitting(hostQueue) = Fitting(accepted) \ lostIn)'
    BY <2>10, <1>1, <1>a, <1>c, <1>e, <1>g DEF LineInv
  <2>12. Increasing(Whole)' /\ Arrivals'
    BY <2>8, <1>a DEF LineInv, Arrivals
  <2> QED
    BY <2>9, <2>11, <2>12 DEF LineInv
<1>2. CASE ~x.fits
  <2>1. UNCHANGED <<pc, frame, in>>
    BY <1>2, <1>c DEF RxFill
  <2>2. InQueue' = InQueue /\ Entering' = <<>> /\ Kept' = Kept
    BY <2>1, <1>a, <1>h DEF InQueue, Entering, Kept
  <2>3. PICK ce : ce = consumed \o InQueue
    OBVIOUS
  <2>4. ce \in Seq(Nat) /\ Whole = ce \o (i \o qh) /\ Whole' = ce \o qh
    <3>1. ce \in Seq(Nat)
      BY <1>b, <2>3, TwoParts
    <3>2. Whole = ce \o iqh
      <4>1. consumed \in Seq(Nat) /\ InQueue \in Seq(Nat) /\ iqh \in Seq(Nat)
        BY <1>b, <1>j
      <4>2. (consumed \o InQueue) \o iqh = consumed \o (InQueue \o iqh)
        BY <4>1, ThreeParts
      <4> QED
        BY <4>2, <1>k, <2>3
    <3>3. Whole' = ce \o qh
      <4>1. <<>> \o qh = qh
        BY <1>j, ConcatEmptySeq
      <4>2. ce \o qh = consumed \o (InQueue \o qh)
        <5>1. (consumed \o InQueue) \o qh = consumed \o (InQueue \o qh)
          <6>1. consumed \in Seq(Nat) /\ InQueue \in Seq(Nat) /\ qh \in Seq(Nat)
            BY <1>b, <1>j
          <6> QED
            BY <6>1, ThreeParts
        <5> QED
          BY <5>1, <2>3
      <4> QED
        BY <4>1, <4>2, <1>l, <2>2
    <3> QED
      BY <3>1, <3>2, <3>3, <1>i
  <2>5. Increasing(ce \o qh) /\ Range(ce \o qh) \subseteq Range(ce \o (i \o qh))
    <3>1. Increasing(ce \o qh)
      BY <1>g, <1>j, <2>4, IncreasingMiddle DEF LineInv
    <3>2. Range(ce \o qh) = Range(ce) \cup Range(qh)
      BY <1>j, <2>4, TwoParts
    <3>3. Range(ce \o iqh) = Range(ce) \cup Range(iqh)
      BY <1>j, <2>4, TwoParts
    <3>4. Range(iqh) = Range(i) \cup Range(qh)
      BY <1>g, <1>i, <1>j, TwoParts
    <3> QED
      BY <3>1, <3>2, <3>3, <3>4, <1>i
  <2>6. Increasing(Whole)' /\ Arrivals'
    BY <2>4, <2>5, <1>a DEF LineInv, Arrivals
  <2>7. Entry'
    BY <2>1 DEF LineInv, Entry
  <2>8. (Kept \cup Fitting(hostQueue) = Fitting(accepted) \ lostIn)'
    BY <2>2, <1>2, <1>a, <1>c, <1>e, <1>g DEF LineInv
  <2> QED
    BY <2>6, <2>7, <2>8 DEF LineInv
<1> QED
  BY <1>1, <1>2

(* A step that moves a frame past a joint of the line keeps the line and   *)
(* its order.                                                              *)
LEMMA LineMoves ==
  ASSUME TypeOK, LineInv, UNCHANGED <<hostQueue, held, accepted, lostIn, arrived>>,
         Whole' = Whole, Kept' = Kept, Entry'
  PROVE LineInv'
<1>1. Increasing(Whole)' /\ Arrivals'
  BY DEF LineInv, Arrivals
<1>2. (Kept \cup Fitting(hostQueue) = Fitting(accepted) \ lostIn)'
  BY DEF LineInv
<1> QED
  BY <1>1, <1>2 DEF LineInv

(* The second half of HandleRxPacket shows the frame to the driver as the  *)
(* newest entry, whatever the driver took in between.                      *)
LEMMA LineIndex == TypeOK /\ TypeOK' /\ LineInv /\ RxIndex => LineInv'
<1> SUFFICES ASSUME TypeOK, TypeOK', LineInv, RxIndex PROVE LineInv'
  OBVIOUS
<1>a. /\ pc = "rxIndex" /\ pc' = "rxWake" /\ in' = [in EXCEPT !.wr = NextIdx(in.wr, in)]
      /\ UNCHANGED <<consumed, accepted, lostIn, arrived, held, hostQueue>>
  BY DEF RxIndex, Rx, counters, history
<1>b. /\ in \in RingOf(InSize) /\ InSize \in Nat \ {0} /\ consumed \in Seq(Nat)
      /\ InQueue \in Seq(Nat) /\ Ids(hostQueue) \in Seq(Nat) /\ Ids(held) \in Seq(Nat) /\ frame.id \in Nat
      /\ Whole = consumed \o (InQueue \o (Entering \o (Ids(hostQueue) \o Ids(held))))
  BY LineType
<1>c. NextIdx(in.wr, in) # in.rd /\ in.slots[in.wr] = frame.id
  BY <1>a DEF LineInv, Entry
<1>d. in.wr \in 0 .. InSize - 1 /\ NextIdx(in.wr, in) \in 0 .. InSize - 1
  <2>1. in.wr \in 0 .. InSize - 1
    BY <1>b DEF RingOf
  <2> QED
    BY <2>1, <1>b, RingIndex
<1>e. PICK in2 : in2 = in'
  OBVIOUS
<1>f. in2 \in RingOf(InSize) /\ in2.rd = in.rd /\ in2.wr = NextIdx(in.wr, in) /\ in2.slots = in.slots
  BY <1>a, <1>b, <1>d, <1>e DEF RingOf
<1>g. Entries(in2) = Append(Entries(in), frame.id)
  <2>1. /\ \A j \in 0 .. InSize - 1 : j # in.wr => in2.slots[j] = in.slots[j]
        /\ in2.slots[in.wr] = frame.id
    BY <1>c, <1>f
  <2> QED
    BY <2>1, <1>b, <1>c, <1>f, RingAppend
<1>h. PICK i, r : i = <<frame.id>> /\ r = Ids(hostQueue) \o Ids(held)
  OBVIOUS
<1>i. i \in Seq(Nat) /\ r \in Seq(Nat) /\ Range(i) = {frame.id}
  <2>1. i \in Seq(Nat) /\ Range(i) = {frame.id}
    BY <1>b, <1>h DEF Range
  <2>2. r \in Seq(Nat)
    BY <1>b, <1>h, TwoParts
  <2> QED
    BY <2>1, <2>2
<1>j. InQueue' = InQueue \o i /\ Entering = i /\ Entering' = <<>>
  <2>1. Append(InQueue, frame.id) = InQueue \o <<frame.id>>
    BY <1>b, AppendIsConcat
  <2> QED
    BY <2>1, <1>a, <1>e, <1>g, <1>h DEF InQueue, Entering
<1>k. Whole' = Whole
  <2>1. Whole' = consumed' \o (InQueue' \o (Entering' \o (Ids(hostQueue') \o Ids(held'))))
    BY WholeNext
  <2>2. Whole' = consumed \o ((InQueue \o i) \o (<<>> \o r))
    BY <2>1, <1>a, <1>h, <1>j
  <2>3. <<>> \o r = r
    BY <1>i, ConcatEmptySeq
  <2>4. (InQueue \o i) \o r = InQueue \o (i \o r)
    <3>1. InQueue \in Seq(Nat) /\ i \in Seq(Nat) /\ r \in Seq(Nat)
      BY <1>b, <1>i
    <3> QED
      BY <3>1, ThreeParts
  <2> QED
    BY <2>2, <2>3, <2>4, <1>b, <1>h, <1>j
<1>l. Kept' = Kept
  <2>1. Range(InQueue \o i) = Range(InQueue) \cup Range(i)
    BY <1>b, <1>i, TwoParts
  <2>2. Range(<<>>) = {}
    BY DEF Range
  <2> QED
    BY <2>1, <2>2, <1>a, <1>j DEF Kept
<1>m. Entry'
  BY <1>a DEF Entry
<1> QED
  BY <1>a, <1>k, <1>l, <1>m, LineMoves

(* The driver takes the oldest entry, also while HandleRxPacket is between *)
(* its two writes.                                                         *)
LEMMA LineConsume == TypeOK /\ TypeOK' /\ LineInv /\ Consume => LineInv'
<1> SUFFICES ASSUME TypeOK, TypeOK', LineInv, Consume PROVE LineInv'
  OBVIOUS
<1>a. UNCHANGED <<pc, frame, accepted, lostIn, arrived, held, hostQueue>>
  BY DEF Consume, Driver, threads, mainVars
<1>1. CASE in.rd = in.wr
  BY <1>1, <1>a, LineFrame DEF Consume
<1>2. CASE in.rd # in.wr
  <2>a. consumed' = Append(consumed, in.slots[in.rd]) /\ in' = [in EXCEPT !.rd = NextIdx(in.rd, in)]
    BY <1>2 DEF Consume
  <2>b. /\ in \in RingOf(InSize) /\ InSize \in Nat \ {0} /\ consumed \in Seq(Nat)
        /\ InQueue \in Seq(Nat) /\ Entering \in Seq(Nat) /\ Ids(hostQueue) \in Seq(Nat) /\ Ids(held) \in Seq(Nat)
        /\ Whole = consumed \o (InQueue \o (Entering \o (Ids(hostQueue) \o Ids(held))))
    BY LineType
  <2>c. /\ in.rd \in 0 .. InSize - 1 /\ in.wr \in 0 .. InSize - 1
        /\ NextIdx(in.rd, in) \in 0 .. InSize - 1 /\ in.slots[in.rd] \in Nat
    <3>1. in.rd \in 0 .. InSize - 1 /\ in.wr \in 0 .. InSize - 1 /\ in.slots \in [0 .. InSize - 1 -> Nat]
      BY <2>b DEF RingOf
    <3> QED
      BY <3>1, <2>b, RingIndex
  <2>d. PICK in2 : in2 = in'
    OBVIOUS
  <2>e. /\ in2 \in RingOf(InSize) /\ in2.rd = NextIdx(in.rd, in) /\ in2.wr = in.wr /\ in2.slots = in.slots
        /\ in2.size = in.size
    BY <2>a, <2>b, <2>c, <2>d DEF RingOf
  <2>f. /\ Entries(in) # <<>> /\ Head(Entries(in)) = in.slots[in.rd] /\ Entries(in2) = Tail(Entries(in))
    BY <1>2, <2>b, <2>e, RingTake
  <2>g. PICK i, t, r : i = <<in.slots[in.rd]>> /\ t = Tail(InQueue)
                       /\ r = Entering \o (Ids(hostQueue) \o Ids(held))
    OBVIOUS
  <2>h. i \in Seq(Nat) /\ t \in Seq(Nat) /\ r \in Seq(Nat) /\ InQueue = i \o t
    <3>1. i \in Seq(Nat)
      BY <2>c, <2>g
    <3>2. t \in Seq(Nat)
      BY <2>b, <2>f, <2>g DEF InQueue
    <3>3. InQueue = i \o t
      <4>1. InQueue # <<>> /\ Head(InQueue) = in.slots[in.rd]
        BY <2>f DEF InQueue
      <4>2. InQueue = <<Head(InQueue)>> \o Tail(InQueue)
        BY <4>1, <2>b
      <4> QED
        BY <4>1, <4>2, <2>g
    <3>4. Ids(hostQueue) \o Ids(held) \in Seq(Nat)
      BY <2>b, TwoParts
    <3>5. r \in Seq(Nat)
      BY <3>4, <2>b, <2>g, TwoParts
    <3> QED
      BY <3>1, <3>2, <3>3, <3>5
  <2>i. consumed' = consumed \o i /\ InQueue' = t /\ Entering' = Entering
    <3>1. Append(consumed, in.slots[in.rd]) = consumed \o <<in.slots[in.rd]>>
      BY <2>b, <2>c, AppendIsConcat
    <3> QED
      BY <3>1, <1>a, <2>a, <2>d, <2>f, <2>g DEF InQueue, Entering
  <2>j. Whole' = Whole
    <3>1. Whole' = consumed' \o (InQueue' \o (Entering' \o (Ids(hostQueue') \o Ids(held'))))
      BY WholeNext
    <3>2. Whole' = (consumed \o i) \o (t \o r)
      BY <3>1, <1>a, <2>g, <2>i
    <3>3. t \o r \in Seq(Nat)
      BY <2>h, TwoParts
    <3>4. (consumed \o i) \o (t \o r) = consumed \o (i \o (t \o r))
      <4>1. PICK tr : tr = t \o r
        OBVIOUS
      <4>2. tr \in Seq(Nat) /\ consumed \in Seq(Nat) /\ i \in Seq(Nat)
        BY <4>1, <3>3, <2>b, <2>h
      <4>3. (consumed \o i) \o tr = consumed \o (i \o tr)
        BY <4>2, ThreeParts
      <4> QED
        BY <4>1, <4>3
    <3>5. (i \o t) \o r = i \o (t \o r)
      BY <2>h, ThreeParts
    <3> QED
      BY <3>2, <3>4, <3>5, <2>b, <2>g, <2>h
  <2>k. Kept' = Kept
    <3>1. Range(consumed \o i) = Range(consumed) \cup Range(i)
      BY <2>b, <2>h, TwoParts
    <3>2. Range(InQueue) = Range(i) \cup Range(t)
      BY <2>h, TwoParts
    <3> QED
      BY <3>1, <3>2, <2>i DEF Kept
  <2>l. Entry'
    <3> SUFFICES ASSUME pc = "rxIndex" PROVE NextIdx(in2.wr, in2) # in2.rd /\ in2.slots[in2.wr] = frame.id
      BY <1>a, <2>d DEF Entry
    <3>1. NextIdx(in2.wr, in2) = NextIdx(in.wr, in)
      BY <2>e DEF NextIdx
    <3>2. NextIdx(in.wr, in) = (IF in.wr = InSize - 1 THEN 0 ELSE in.wr + 1)
      BY <2>b, <2>c, RingIndices
    <3>3. NextIdx(in.rd, in) = (IF in.rd = InSize - 1 THEN 0 ELSE in.rd + 1)
      BY <2>b, <2>c, RingIndices
    <3>4. NextIdx(in.wr, in) # NextIdx(in.rd, in)
      <4>1. InSize \in Nat /\ in.rd \in 0 .. InSize - 1 /\ in.wr \in 0 .. InSize - 1 /\ in.rd # in.wr
        BY <1>2, <2>b, <2>c
      <4>2. CASE in.wr = InSize - 1
        BY <4>1, <4>2, <3>2, <3>3
      <4>3. CASE in.wr # InSize - 1
        BY <4>1, <4>3, <3>2, <3>3
      <4> QED
        BY <4>2, <4>3
    <3> QED
      BY <3>1, <3>4, <2>e DEF LineInv, Entry
  <2> QED
    BY <1>a, <2>j, <2>k, <2>l, LineMoves
<1> QED
  BY <1>1, <1>2

(* A frame the capture thread holds is newer than every entry of the ring. *)
LEMMA HeldIsLast ==
  ASSUME TypeOK, LineInv, NEW a \in Range(InQueue), NEW j \in 1 .. Len(held)
  PROVE a < held[j].id
<1>1. /\ Line \in Seq(Nat) /\ Whole \in Seq(Nat) /\ held \in Seq(Frame)
      /\ consumed \in Seq(Nat) /\ InQueue \in Seq(Nat) /\ Entering \in Seq(Nat) /\ Ids(hostQueue) \in Seq(Nat)
  BY LineType
<1>2. a \in Range(Line)
  <2>1. PICK ce, cef : ce = consumed \o InQueue /\ cef = ce \o Entering
    OBVIOUS
  <2>2. ce \in Seq(Nat) /\ Range(ce) = Range(consumed) \cup Range(InQueue)
    BY <1>1, <2>1, TwoParts
  <2>3. cef \in Seq(Nat) /\ Range(cef) = Range(ce) \cup Range(Entering)
    BY <1>1, <2>1, <2>2, TwoParts
  <2>4. Range(cef \o Ids(hostQueue)) = Range(cef) \cup Range(Ids(hostQueue))
    BY <1>1, <2>3, TwoParts
  <2>5. Line = cef \o Ids(hostQueue)
    BY <2>1 DEF Line, Placed, InQueue, Entering
  <2> QED
    BY <2>2, <2>3, <2>4, <2>5
<1>3. PICK h : h = Ids(held)
  OBVIOUS
<1>4. h \in Seq(Nat) /\ j \in 1 .. Len(h) /\ h[j] = held[j].id
  BY <1>1, <1>3, IdsAre
<1>5. PICK i \in 1 .. Len(Line) : Line[i] = a
  BY <1>1, <1>2, InRange
<1>6. /\ DOMAIN (Line \o h) = 1 .. Len(Line) + Len(h) /\ Len(Line) \in Nat /\ Len(h) \in Nat
      /\ (Line \o h)[i] = Line[i] /\ (Line \o h)[Len(Line) + j] = h[j]
  BY <1>1, <1>4, <1>5
<1>7. i \in 1 .. Len(Line) + Len(h) /\ Len(Line) + j \in 1 .. Len(Line) + Len(h) /\ i < Len(Line) + j
  BY <1>4, <1>5, <1>6
<1>8. PICK w : w = Line \o h
  OBVIOUS
<1>9. Increasing(w)
  BY <1>3, <1>8 DEF LineInv, Whole
<1>10. w[i] < w[Len(Line) + j]
  BY <1>6, <1>7, <1>8, <1>9 DEF Increasing
<1> QED
  BY <1>4, <1>5, <1>6, <1>8, <1>10

(* The driver gives up its rings only when HandleRxPacket is not at work:  *)
(* what was left in the input ring is counted as lost, and no frame of the *)
(* queue is among it.                                                      *)
LEMMA LineReset ==
  TypeOK /\ TypeOK' /\ Session /\ ClosedIsQuiet /\ LineInv /\ (Open \/ TakeClosed) => LineInv'
<1> SUFFICES ASSUME TypeOK, TypeOK', Session, ClosedIsQuiet, LineInv, Open \/ TakeClosed PROVE LineInv'
  OBVIOUS
<1>1. CASE Open
  <2>1. in' = in
    BY <1>1 DEF Open, ClosedIsQuiet
  <2> QED
    BY <1>1, <2>1, LineFrame DEF Open, Driver, threads, mainVars
<1>2. CASE TakeClosed
  <2>a. /\ in' = NewRing(InSize) /\ lostIn' = lostIn \cup Range(InQueue)
        /\ UNCHANGED <<pc, frame, consumed, accepted, arrived, held, hostQueue>>
    BY <1>2 DEF TakeClosed, Take, Driver, threads, mainVars, InQueue
  <2>b. pc = "idle"
    <3>1. toCray["closed"] > 0
      BY <1>2 DEF TakeClosed, Take
    <3>2. toCray["closed"] # 0
      BY <3>1
    <3> QED
      BY <3>2 DEF TypeOK, DriverType, States, Session, NoAnswer, Quiet
  <2>c. /\ consumed \in Seq(Nat) /\ InQueue \in Seq(Nat) /\ Ids(hostQueue) \in Seq(Nat) /\ Ids(held) \in Seq(Nat)
        /\ held \in Seq(Frame) /\ hostQueue \in Seq(Frame) /\ arrived \in Nat /\ lostIn \in SUBSET Nat
        /\ Whole = consumed \o (InQueue \o (Entering \o (Ids(hostQueue) \o Ids(held))))
        /\ Range(Whole) = Kept \cup Range(Ids(hostQueue)) \cup Range(Ids(held))
    BY LineType
  <2>d. Entering = <<>> /\ Entering' = <<>> /\ InQueue' = <<>>
    BY <2>a, <2>b, EthernetAssumption, NewRings DEF Entering, InQueue
  <2>e. PICK r : r = Ids(hostQueue) \o Ids(held)
    OBVIOUS
  <2>f. r \in Seq(Nat) /\ <<>> \o r = r /\ Range(r) = Range(Ids(hostQueue)) \cup Range(Ids(held))
    <3>1. r \in Seq(Nat) /\ Range(r) = Range(Ids(hostQueue)) \cup Range(Ids(held))
      BY <2>c, <2>e, TwoParts
    <3> QED
      BY <3>1, ConcatEmptySeq
  <2>g. Whole = consumed \o (InQueue \o r)
    BY <2>c, <2>d, <2>e, <2>f
  <2>h. Whole' = consumed \o r
    <3>1. Whole' = consumed' \o (InQueue' \o (Entering' \o (Ids(hostQueue') \o Ids(held'))))
      BY WholeNext
    <3> QED
      BY <3>1, <2>a, <2>d, <2>e, <2>f
  <2>i. Increasing(consumed \o r) /\ \A x \in Range(InQueue) : x \notin Range(consumed) \cup Range(r)
    BY <2>c, <2>f, <2>g, IncreasingMiddle DEF LineInv
  <2>j. Range(consumed \o r) = Range(consumed) \cup Range(r)
    BY <2>c, <2>f, TwoParts
  <2>k. Range(<<>>) = {}
    BY DEF Range
  <2>l. Kept = Range(consumed) \cup Range(InQueue) /\ Kept' = Range(consumed)
    BY <2>a, <2>d, <2>k DEF Kept
  <2>1. Arrivals'
    <3>1. \A x \in Range(Whole') \cup lostIn' : x \in Range(Whole) \cup lostIn
      BY <2>a, <2>c, <2>f, <2>h, <2>j, <2>l
    <3>2. \A x \in Range(Whole') \cup lostIn' : x <= arrived
      BY <3>1 DEF LineInv, Arrivals
    <3>3. \A a \in lostIn', j \in 1 .. Len(held) : a < held[j].id
      <4> SUFFICES ASSUME NEW a \in lostIn', NEW j \in 1 .. Len(held) PROVE a < held[j].id
        OBVIOUS
      <4>1. CASE a \in lostIn
        BY <4>1 DEF LineInv, Arrivals
      <4>2. CASE a \in Range(InQueue)
        BY <4>2, HeldIsLast
      <4> QED
        BY <4>1, <4>2, <2>a
    <3> QED
      BY <3>2, <3>3, <2>a DEF Arrivals
  <2>2. Entry'
    BY <2>a, <2>b DEF Entry
  <2>3. (Kept \cup Fitting(hostQueue) = Fitting(accepted) \ lostIn)'
    <3>1. Fitting(hostQueue) \subseteq Range(r)
      BY <2>c, <2>f, IdsAre
    <3>2. Kept \cup Fitting(hostQueue) = Fitting(accepted) \ lostIn
      BY DEF LineInv
    <3>3. Range(consumed) \cup Fitting(hostQueue) = Fitting(accepted) \ (lostIn \cup Range(InQueue))
      BY <3>1, <3>2, <2>i, <2>l
    <3> QED
      BY <3>3, <2>a, <2>l
  <2> QED
    BY <2>1, <2>2, <2>3, <2>h, <2>i DEF LineInv
<1> QED
  BY <1>1, <1>2

(* Every step of an interface and its driver keeps LineInv.                *)
LEMMA LineStep ==
  TypeOK /\ TypeOK' /\ Session /\ ClosedIsQuiet /\ LineInv /\ [EthNext]_ethVars => LineInv'
<1> SUFFICES ASSUME TypeOK, TypeOK', Session, ClosedIsQuiet, LineInv, [EthNext]_ethVars PROVE LineInv'
  OBVIOUS
<1>1. CASE RxWake
  BY <1>1, LineFrame DEF RxWake, Rx, counters, history
<1>2. CASE TxSend \/ TxIndex \/ TxSleep \/ Kick \/ KickFails
  <2>1. /\ UNCHANGED <<consumed, in, hostQueue, held, accepted, lostIn, arrived, frame>>
        /\ (pc = "rxIndex" <=> pc' = "rxIndex")
    BY <1>2 DEF TxSend, TxIndex, TxSleep, Kick, KickFails, Tx, threads
  <2> QED
    BY <2>1, LineFrame
<1>3. CASE HandleOpen \/ HandleClose \/ HandleWakeOutput
  <2>1. /\ UNCHANGED <<consumed, in, hostQueue, held, accepted, lostIn, arrived, frame>>
        /\ (pc = "rxIndex" <=> pc' = "rxIndex")
    BY <1>3 DEF HandleOpen, HandleClose, HandleWakeOutput, HandleRequest, counters, history
  <2> QED
    BY <2>1, LineFrame
<1>4. CASE Close \/ Put \/ TakeOpened \/ TakeWakeInput \/ TakeSleepOutput
  <2>1. /\ UNCHANGED <<consumed, in, hostQueue, held, accepted, lostIn, arrived, frame>>
        /\ (pc = "rxIndex" <=> pc' = "rxIndex")
    BY <1>4 DEF Close, Put, TakeOpened, TakeWakeInput, TakeSleepOutput, Take, Driver, threads,
           mainVars
  <2> QED
    BY <2>1, LineFrame
<1>5. CASE UNCHANGED ethVars
  BY <1>5, LineFrame DEF ethVars, threads, mainVars, counters, history
<1> QED
  BY <1>1, <1>2, <1>3, <1>4, <1>5, LineReceive, LinePush, LineFill, LineIndex, LineConsume,
     LineReset
     DEF EthNext, MainThread, Answers

(* A new interface has received nothing.                                   *)
LEMMA LineInit == EthInit => LineInv
<1> SUFFICES ASSUME EthInit PROVE LineInv
  OBVIOUS
<1>1. /\ consumed = <<>> /\ held = <<>> /\ hostQueue = <<>> /\ accepted = <<>> /\ lostIn = {} /\ pc = "idle"
  BY DEF EthInit
<1>2. InQueue = <<>> /\ Entering = <<>>
  BY <1>1, EthernetAssumption, NewRings DEF EthInit, InQueue, Entering
<1>3. Ids(<<>>) = <<>> /\ Range(<<>>) = {} /\ Fitting(<<>>) = {}
  BY DEF Ids, Fitting, Range
<1>4. Whole = <<>>
  <2>1. <<>> \o <<>> = <<>>
    OBVIOUS
  <2> QED
    BY <2>1, <1>1, <1>2, <1>3 DEF Whole, Line, Placed, InQueue, Entering
<1>5. Increasing(<<>>)
  BY DEF Increasing
<1>6. Arrivals /\ Entry
  BY <1>1, <1>3, <1>4 DEF Arrivals, Entry
<1>7. Kept \cup Fitting(hostQueue) = Fitting(accepted) \ lostIn
  BY <1>1, <1>2, <1>3 DEF Kept
<1> QED
  BY <1>4, <1>5, <1>6, <1>7 DEF LineInv

(* An intact line is what FramesIntact asks for: the capture thread's      *)
(* frame is only its end.                                                  *)
LEMMA LineImplies == TypeOK /\ LineInv => FramesIntact
<1> SUFFICES ASSUME TypeOK, LineInv PROVE FramesIntact
  OBVIOUS
<1>1. /\ Line \in Seq(Nat) /\ Ids(held) \in Seq(Nat)
      /\ consumed \in Seq(Nat) /\ InQueue \in Seq(Nat) /\ Entering \in Seq(Nat)
  BY LineType
<1>2. Increasing(Line)
  BY <1>1, IncreasingPrefix DEF LineInv, Whole
<1>3. Range(Placed) = Kept
  <2>1. PICK ce : ce = consumed \o InQueue
    OBVIOUS
  <2>2. ce \in Seq(Nat) /\ Range(ce) = Range(consumed) \cup Range(InQueue)
    BY <1>1, <2>1, TwoParts
  <2>3. Range(ce \o Entering) = Range(ce) \cup Range(Entering)
    BY <1>1, <2>2, TwoParts
  <2> QED
    BY <2>1, <2>2, <2>3 DEF Kept, Placed, InQueue, Entering
<1> QED
  BY <1>2, <1>3 DEF LineInv, FramesIntact

-----------------------------------------------------------------------------
(* The inductive invariant: types, session, quiet rings, output, input.    *)
EthInv == TypeOK /\ Session /\ ClosedIsQuiet /\ SentInv /\ LineInv

(* The invariant holds from the start, whatever the three threads do in    *)
(* whatever order: every conjunct but the types needs the session, since   *)
(* only the session keeps the driver from clearing rings that              *)
(* HandleRxPacket or HandleTxPackets is working on.                        *)
LEMMA EthInvInductive == EthSpec => []EthInv
<1>1. EthInit => EthInv
  <2>1. EthInit => Session /\ ClosedIsQuiet
    BY DEF EthInit, Session, Quiet, NoAnswer, AnswerKinds, ClosedIsQuiet
  <2> QED
    BY <2>1, InitTyped, SentInit, LineInit DEF EthInv
<1>2. EthInv /\ [EthNext]_ethVars => EthInv'
  <2> SUFFICES ASSUME EthInv, [EthNext]_ethVars PROVE EthInv'
    OBVIOUS
  <2>1. TypeOK'
    BY FramesTyped, RingsTyped, DriverTyped DEF EthInv, TypeOK
  <2>2. Session' /\ ClosedIsQuiet'
    BY SessionStep, QuietStep DEF EthInv
  <2>3. SentInv'
    BY SentStep DEF EthInv
  <2>4. LineInv'
    BY <2>1, LineStep DEF EthInv
  <2> QED
    BY <2>1, <2>2, <2>3, <2>4 DEF EthInv
<1> QED
  BY <1>1, <1>2, PTL DEF EthSpec

(* The interface, its rings and its driver stay well formed for all ring   *)
(* sizes: no index of HandleRxPacket or HandleTxPackets leaves its ring.   *)
THEOREM TypeCorrect == EthSpec => []TypeOK
<1>1. EthInv => TypeOK
  BY DEF EthInv
<1> QED
  BY <1>1, EthInvInductive, PTL

(* Once the driver has the answer to its close (MPFC_CLS of                *)
(* HandleIosEPacket), and until it opens the interface again, neither      *)
(* HandleRxPacket nor HandleTxPackets writes where its rings were.         *)
THEOREM NothingAfterClose == EthSpec => []ClosedIsQuiet
<1>1. EthInv => ClosedIsQuiet
  BY DEF EthInv
<1> QED
  BY <1>1, EthInvInductive, PTL

(* HandleTxPackets sends every packet of the driver, in order, and once    *)
(* unless a kick failed, although the driver adds packets to the ring      *)
(* while it works.                                                         *)
THEOREM OutputSentOnce == EthSpec => []PacketsSentOnce
<1>1. EthInv => PacketsSentOnce
  <2> SUFFICES ASSUME EthInv PROVE PacketsSentOnce
    OBVIOUS
  <2>1. DOMAIN wire = 1 .. Len(wire)
    BY LenProperties DEF EthInv, TypeOK, RingsType
  <2> QED
    BY <2>1 DEF EthInv, SentInv, SentOrQueued, SentInOrder, OutQueue, PacketsSentOnce
<1> QED
  BY <1>1, EthInvInductive, PTL

(* A frame that fits an entry is in one place from SafeQueue::Push to the  *)
(* driver, in the order of arrival and with its own contents, for all ring *)
(* sizes, however HandleRxPacket's two writes interleave with the driver's *)
(* reads.                                                                  *)
THEOREM InputInOrder == EthSpec => []FramesIntact
<1>1. EthInv => FramesIntact
  BY LineImplies DEF EthInv
<1> QED
  BY <1>1, EthInvInductive, PTL
===============================================================================

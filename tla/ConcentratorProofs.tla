-------------------------- MODULE ConcentratorProofs --------------------------
(***************************************************************************)
(* Proofs about the network concentrator of an I/O processor, for every    *)
(* size of its packages, every number of messages, connections and master  *)
(* clears, and every order of the handlers of the host's network library.  *)
(***************************************************************************)
EXTENDS PeripheralProofs

-----------------------------------------------------------------------------
(* The concentrator: IopConcentrator_c and its channel *)

(* What is asked of the constants. *)
PackageSizes == LcpWords \in Nat \ {0} /\ SegWords \in Nat \ {0} /\ MaxSegs \in Nat

Unit ==
  [id : Seq(Nat), code : {"none", "data", "logon", "start"}, segs : Nat, length : Nat]

(* The packages of a message. *)
IsMessage(m) ==
  /\ m \in Seq(Seq(Unit))
  /\ m # <<>> =>
       /\ Len(m[1]) = LcpWords /\ m[1][1].segs = Len(m) - 1
       /\ \A p \in 2 .. Len(m) : Len(m[p]) \in 1 .. SegWords
       /\ \A p \in 2 .. Len(m) - 1 : Len(m[p]) = SegWords
       /\ m[1][1].code = "logon" => Len(m) > 1

(* u[n] is the stream of the last n packages, w[n] are their words. *)
FromEnd(m, n) == m[Len(m) + 1 - n]
Units(u, m) ==
  /\ u \in [0 .. Len(m) -> Seq(Unit)] /\ u[0] = <<>>
  /\ \A n \in 1 .. Len(m) :
       u[n] = <<Conc!Length(Len(FromEnd(m, n)))>> \o FromEnd(m, n) \o u[n - 1]
WordsOf(w, m) ==
  /\ w \in [0 .. Len(m) -> Seq(Unit)] /\ w[0] = <<>>
  /\ \A n \in 1 .. Len(m) : w[n] = FromEnd(m, n) \o w[n - 1]

(* The state of the receiver, as ProcessReceivedBytes has it. *)
Receiver ==
  [state : {"lcpLength", "lcp", "segLength", "seg"}, pdu : Nat,
   code : {"none", "data", "logon", "start"},
   data : Seq(Unit), buf : Seq(Unit), subsegs : Int, size : Nat]
Receiving ==
  [state |-> rcv.state, pdu |-> rcv.pdu, code |-> rcv.code, data |-> rcv.data, buf |-> rbuf,
   subsegs |-> subsegs, size |-> segSize]

(* The last n packages have not been cut off, and of the others those that *)
(* the IOP has not got are there.                                          *)
Cut(r, u, w, n) ==
  /\ n \in 0 .. Len(packages) - Len(got)
  /\ r.state \in {"lcpLength", "segLength"} => r.buf \o stream = u[n]
  /\ r.state \in {"lcp", "seg"} =>
       /\ n > 0 /\ r.pdu = Len(FromEnd(packages, n))
       /\ r.buf \o stream = FromEnd(packages, n) \o u[n - 1]
  /\ r.state = "lcpLength" => n \in {0, Len(packages)}
  /\ r.state = "lcp" => n = Len(packages)
  /\ r.state \in {"segLength", "seg"} =>
       0 < n /\ n < Len(packages) /\ r.subsegs = n /\ r.code = packages[1][1].code
  /\ r.data \o w[n] = w[Len(packages) - Len(got)]
  /\ packages # <<>> /\ (n = 0 \/ packages[1][1].code # "logon") => r.size = SegWords

DownPackage == [lcp : BOOLEAN, n : Nat, words : Nat, segs : Nat]

(* A reply with todo segments that are not complete and n words of the     *)
(* first of them.                                                          *)
ReplyOf(todo, n) ==
  /\ down # <<>> /\ todo \in Nat /\ n \in 0 .. SegWords - 1
  /\ down \in Seq(DownPackage)
  /\ \A p \in 1 .. Len(down) : down[p].lcp <=> p = 1
  /\ \A p \in 1 .. Len(down) : p < Len(down) \/ n = 0 => down[p].words = down[p].n
  /\ n = 0 => Len(down) - 1 + todo = down[1].segs
  /\ n > 0 => /\ todo > 0 /\ Len(down) > 1 /\ Len(down) - 2 + todo = down[1].segs
              /\ down[Len(down)].words = n /\ down[Len(down)].n = SegWords

AllGot == got # <<>> /\ Len(got) = Len(packages)
Fresh == down = <<>> /\ xmt.state = "lcpStart"

Awaits ==
  /\ xmt.state = "lcpStart"
  /\ input.done => Len(got) = 1 /\ down = <<>>
  /\ ~input.done => IF got = <<>> THEN down = <<>> ELSE AllGot /\ ReplyOf(0, 0)

Reading ==
  /\ got # <<>> /\ Fresh /\ output = Conc!Idle
  /\ input.done => ~input.active /\ concGuest.todo = Len(packages) - Len(got) + 1
  /\ ~input.done => /\ input.active /\ input.left = SegWords
                    /\ concGuest.todo = Len(packages) - Len(got) /\ concGuest.todo > 0

(* An LCP on its way *)
LcpWritten ==
  /\ Fresh /\ AllGot /\ concGuest.words = 0 /\ concGuest.todo \in Nat
  /\ fromCray \in Seq([code : {"data", "start"}, segs : Nat]) /\ Len(fromCray) = LcpWords
  /\ fromCray[1] = [code |-> concGuest.code, segs |-> concGuest.todo]
  /\ concGuest.code = "start" => concGuest.todo > 0

(* Words of a segment on their way *)
SegmentWritten ==
  \E n \in 0 .. SegWords - 1 :
    /\ AllGot /\ ReplyOf(subsegs, n) /\ subsegs > 0
    /\ fromCray \in Seq([code : {"none"}, segs : Nat]) /\ Len(fromCray) > 0
    /\ xmt.code = concGuest.code
    /\ IF n = 0 THEN xmt.state = "segStart"
       ELSE xmt.state = "seg" /\ xmt.words = n /\ concGuest.code # "start"
    /\ IF concGuest.code = "start" \/ n + Len(fromCray) = SegWords
       THEN concGuest.words = 0 /\ concGuest.todo = subsegs - 1
       ELSE /\ concGuest.words = n + Len(fromCray) /\ concGuest.words < SegWords
            /\ concGuest.todo = subsegs

(* The station has all of it. *)
Transmitted ==
  /\ AllGot /\ ReplyOf(concGuest.todo, concGuest.words) /\ subsegs = concGuest.todo
  /\ xmt.code = concGuest.code
  /\ IF concGuest.words = 0
     THEN xmt.state = IF concGuest.todo > 0 THEN "segStart" ELSE "lcpStart"
     ELSE xmt.state = "seg" /\ xmt.words = concGuest.words /\ concGuest.code # "start"

(* The station has sent its next message. *)
Asked == packages # <<>> /\ got = <<>> /\ Fresh /\ concGuest.todo = 0 /\ concGuest.words = 0

Replying ==
  /\ ~input.active /\ ~input.done
  /\ IF output.active THEN ~output.done /\ (LcpWritten \/ SegmentWritten)
     ELSE output.done /\ (Transmitted \/ Asked)

Programs ==
  /\ concGuest.at = "await" => Awaits
  /\ concGuest.at = "read" => Reading
  /\ concGuest.at = "reply" =>
       AllGot /\ Fresh /\ ~input.active /\ ~input.done /\ output = Conc!Idle
  /\ concGuest.at = "write" => Replying

ConcTypes ==
  /\ concConn \in {"none", "open", "broken"} /\ garbled \in BOOLEAN /\ msgs \in Nat
  /\ rcv = [state |-> rcv.state, pdu |-> rcv.pdu, code |-> rcv.code, data |-> rcv.data]
  /\ Receiving \in Receiver /\ stream \in Seq(Unit) /\ current \in Seq(Unit)
  /\ got \in Seq(Seq(Unit)) /\ IsMessage(packages)
  /\ input \in [active : BOOLEAN, done : BOOLEAN, left : Int]
  /\ xmt = [state |-> xmt.state, words |-> xmt.words, code |-> xmt.code]
  /\ concGuest = [at |-> concGuest.at, todo |-> concGuest.todo, words |-> concGuest.words,
                  code |-> concGuest.code]
  /\ concGuest.at \in {"await", "read", "reply", "write"}

(* No connection, or a new one. *)
Between ==
  /\ concGuest.at = "await" =>
       /\ output = Conc!Idle /\ input.active = ~input.done
       /\ input.active => input.left + Len(current) = LcpWords
  /\ IF input.active THEN ~input.done /\ concGuest.at \notin {"reply", "write"}
                     ELSE current = <<>>
  /\ concConn = "none" =>
       IF packages = <<>> THEN stream = <<>>
       ELSE packages[1][1].code = "logon" /\ stream = Conc!Stream(packages)

Connected ==
  /\ current = <<>>
  /\ \A p \in 1 .. Len(got) : got[p] = packages[p]
  /\ \E u, w : Units(u, packages) /\ WordsOf(w, packages) /\ \E n \in Nat : Cut(Receiving, u, w, n)
  /\ Programs

ConcInv == ConcTypes /\ Between /\ (~garbled /\ concConn # "none" => Connected)

-----------------------------------------------------------------------------
(* Sequences *)

(* A step of a recursive function, given as a function, and what it is     *)
(* that it defines.                                                        *)
Steps(step, L, D) == \A k \in 1 .. L, d \in D : step[<<k, d>>] \in D
Follows(g, step, L, D, a) ==
  /\ g \in [0 .. L -> D] /\ g[0] = a
  /\ \A k \in 1 .. L : g[k] = step[<<k, g[k - 1]>>]

(* There is such a function. *)
LEMMA Recursion ==
  ASSUME NEW L \in Nat, NEW D, NEW a \in D, NEW step, Steps(step, L, D)
  PROVE \E g : Follows(g, step, L, D, a)
<1> DEFINE Is(g, n) == /\ g \in [0 .. n -> D] /\ g[0] = a
                       /\ \A k \in 1 .. n : g[k] = step[<<k, g[k - 1]>>]
           S == {n \in 0 .. L : \E g : Is(g, n)}
<1>a. \A k \in 1 .. L, d \in D : step[<<k, d>>] \in D
  BY DEF Steps
<1>1. 0 \in S
  <2>1. Is([k \in 0 .. 0 |-> a], 0)
    <3>1. \A k \in 1 .. 0 : FALSE
      OBVIOUS
    <3> QED
      BY <3>1
  <2>2. 0 \in 0 .. L
    OBVIOUS
  <2> HIDE DEF Is
  <2> QED
    BY <2>1, <2>2
<1>2. ASSUME NEW n \in 0 .. L - 1, n \in S PROVE n + 1 \in S
  <2> SUFFICES \E g : Is(g, n + 1)
    OBVIOUS
  <2>1. PICK h : Is(h, n)
    BY <1>2
  <2>2. n \in 0 .. n /\ n + 1 \in 1 .. L /\ (n + 1) - 1 = n /\ 0 \in 0 .. n
    OBVIOUS
  <2>3. h[n] \in D
    BY <2>1, <2>2
  <2> DEFINE next == step[<<n + 1, h[n]>>]
             g == [k \in 0 .. n + 1 |-> IF k <= n THEN h[k] ELSE next]
  <2>4. next \in D
    BY <1>a, <2>2, <2>3
  <2>5. (\A k \in 0 .. n : g[k] = h[k]) /\ g[n + 1] = next
    BY <2>2
  <2>6. g \in [0 .. n + 1 -> D]
    <3> HIDE DEF next
    <3> QED
      BY <2>1, <2>4
  <2>7. ASSUME NEW k \in 1 .. n + 1 PROVE g[k] = step[<<k, g[k - 1]>>]
    <3> HIDE DEF g
    <3>1. CASE k \in 1 .. n
      <4>1. k \in 0 .. n /\ k - 1 \in 0 .. n
        BY <3>1
      <4> QED
        BY <2>1, <2>5, <3>1, <4>1
    <3>2. CASE k = n + 1
      BY <2>2, <2>5, <3>2
    <3> QED
      BY <3>1, <3>2
  <2>8. Is(g, n + 1)
    <3>1. g[0] = a
      BY <2>1, <2>2, <2>5
    <3> HIDE DEF g
    <3> QED
      BY <2>6, <2>7, <3>1
  <2> QED
    BY <2>8
<1>3. L \in S
  <2> HIDE DEF S
  <2> QED
    BY <1>1, <1>2, UpTo
<1> QED
  BY <1>3 DEF Follows

(* A part of a sequence is one. *)
LEMMA Portion ==
  ASSUME NEW S, NEW s \in Seq(S), NEW m \in Nat, m > 0, NEW n \in Nat, n <= Len(s)
  PROVE /\ SubSeq(s, m, n) \in Seq(S)
        /\ Len(SubSeq(s, m, n)) = IF m <= n THEN n - m + 1 ELSE 0
<1>1. m \in Int /\ n \in Int
  OBVIOUS
<1>2. \A i \in m .. n : s[i] \in S
  OBVIOUS
<1> QED
  BY <1>1, <1>2, SubSeqProperties, ZenonT(60)

(* A sequence cut in two. *)
LEMMA Halves ==
  ASSUME NEW S, NEW s \in Seq(S), NEW n \in 0 .. Len(s)
  PROVE /\ SubSeq(s, 1, n) \in Seq(S) /\ Len(SubSeq(s, 1, n)) = n
        /\ Conc!Rest(s, n) \in Seq(S) /\ Len(Conc!Rest(s, n)) = Len(s) - n
        /\ SubSeq(s, 1, n) \o Conc!Rest(s, n) = s
<1>1. n \in Nat /\ n + 1 \in Nat /\ n + 1 > 0 /\ Len(s) \in Nat /\ n <= Len(s)
  OBVIOUS
<1>2. 1 \in Nat /\ 1 > 0 /\ Len(s) <= Len(s)
  BY <1>1
<1>3. /\ SubSeq(s, 1, n) \in Seq(S)
      /\ Len(SubSeq(s, 1, n)) = IF 1 <= n THEN n - 1 + 1 ELSE 0
  BY <1>1, <1>2, Portion, Zenon
<1>4. /\ SubSeq(s, n + 1, Len(s)) \in Seq(S)
      /\ Len(SubSeq(s, n + 1, Len(s))) = IF n + 1 <= Len(s) THEN Len(s) - (n + 1) + 1 ELSE 0
  BY <1>1, <1>2, Portion, Zenon
<1>5. SubSeq(s, 1, n) \o SubSeq(s, n + 1, Len(s)) = s
  <2>1. 1 \in 1 .. Len(s) + 1 /\ n \in 1 - 1 .. Len(s) /\ Len(s) \in n .. Len(s)
    OBVIOUS
  <2>2. SubSeq(s, 1, n) \o SubSeq(s, n + 1, Len(s)) = SubSeq(s, 1, Len(s))
    BY <2>1, ConcatAdjacentSubSeq, ZenonT(60)
  <2> QED
    BY <2>2, SubSeqFull, Zenon
<1> DEFINE x == SubSeq(s, 1, n)
           y == SubSeq(s, n + 1, Len(s))
<1> HIDE DEF x, y
<1>6. x \in Seq(S) /\ Len(x) = n /\ y \in Seq(S) /\ Len(y) = Len(s) - n /\ x \o y = s
  <2>1. /\ x \in Seq(S) /\ Len(x) = IF 1 <= n THEN n - 1 + 1 ELSE 0
        /\ y \in Seq(S) /\ Len(y) = IF n + 1 <= Len(s) THEN Len(s) - (n + 1) + 1 ELSE 0
        /\ x \o y = s
    BY <1>3, <1>4, <1>5, Zenon DEF x, y
  <2>2. Len(x) = n
    BY <1>1, <2>1
  <2>3. Len(y) = Len(s) - n
    BY <1>1, <2>1
  <2> QED
    BY <2>1, <2>2, <2>3
<1> QED
  BY <1>6, Zenon DEF x, y, Conc!Rest

(* The first part of a sequence taken off *)
LEMMA TakenOff ==
  ASSUME NEW S, NEW s \in Seq(S), NEW t \in Seq(S), NEW p \in Seq(S), NEW q \in Seq(S),
         s \o t = p \o q, Len(p) <= Len(s)
  PROVE SubSeq(s, 1, Len(p)) = p /\ Conc!Rest(s, Len(p)) \o t = q
<1>1. Len(p) \in 0 .. Len(s)
  OBVIOUS
<1> DEFINE a == SubSeq(s, 1, Len(p))
           b == Conc!Rest(s, Len(p))
<1>2. a \in Seq(S) /\ Len(a) = Len(p) /\ b \in Seq(S) /\ a \o b = s
  BY <1>1, Halves
<1> HIDE DEF a, b
<1>3. (a \o b) \o t = a \o (b \o t) /\ b \o t \in Seq(S)
  <2>1. a \in Seq(S) /\ b \in Seq(S)
    BY <1>2
  <2>2. (a \o b) \o t = a \o (b \o t)
    BY <2>1
  <2>3. b \o t \in Seq(S)
    BY <1>2, ConcatProperties, Zenon
  <2> QED
    BY <2>2, <2>3
<1>4. a \o (b \o t) = p \o q
  BY <1>2, <1>3
<1>5. a = p
  <2>1. ASSUME NEW i \in 1 .. Len(p) PROVE a[i] = p[i]
    <3>1. i \in 1 .. Len(a) + Len(b \o t) /\ i <= Len(a)
      BY <1>2, <1>3, <2>1
    <3>2. i \in 1 .. Len(p) + Len(q)
      OBVIOUS
    <3>3. (a \o (b \o t))[i] = a[i]
      BY <1>2, <1>3, <3>1, ConcatProperties, Zenon
    <3>4. (p \o q)[i] = p[i]
      <4>1. i <= Len(p)
        OBVIOUS
      <4> QED
        BY <3>2, <4>1, ConcatProperties, Zenon
    <3> QED
      BY <1>4, <3>3, <3>4
  <2> QED
    BY <1>2, <2>1, SeqEqual, Zenon
<1>6. b \o t = q
  BY <1>3, <1>4, <1>5, ConcatSimplifications, Zenon
<1> QED
  BY <1>5, <1>6 DEF a, b

-----------------------------------------------------------------------------
(* Messages *)

(* A length is a unit, and a package goes behind one. *)
LEMMA Lengthened ==
  ASSUME NEW p \in Seq(Unit), NEW d \in Seq(Unit)
  PROVE /\ Conc!Length(Len(p)) \in Unit
        /\ <<Conc!Length(Len(p))>> \o p \o d \in Seq(Unit) /\ p \o d \in Seq(Unit)
        /\ Len(p \o d) = Len(p) + Len(d)
<1>1. <<>> \in Seq(Nat) /\ Len(p) \in Nat
  OBVIOUS
<1>2. Conc!Length(Len(p)) \in Unit
  BY <1>1 DEF Conc!Length, Unit
<1> HIDE DEF Unit
<1>3. ASSUME NEW x \in Unit PROVE <<x>> \o p \o d \in Seq(Unit)
  <2>1. <<x>> \in Seq(Unit)
    OBVIOUS
  <2>2. <<x>> \o p \in Seq(Unit)
    BY <2>1, ConcatProperties, Zenon
  <2> QED
    BY <2>2, ConcatProperties, Zenon
<1>4. p \o d \in Seq(Unit) /\ Len(p \o d) = Len(p) + Len(d)
  BY ConcatProperties, Zenon
<1> QED
  BY <1>2, <1>3, <1>4

(* The packages, counted from the last one. *)
LEMMA FromEndTyped ==
  ASSUME NEW m \in Seq(Seq(Unit)), NEW n \in 1 .. Len(m)
  PROVE FromEnd(m, n) \in Seq(Unit) /\ Len(m) + 1 - n \in 1 .. Len(m)
<1>1. Len(m) + 1 - n \in 1 .. Len(m)
  OBVIOUS
<1> HIDE DEF Unit
<1> QED
  BY <1>1 DEF FromEnd

(* A message has a stream. *)
LEMMA StreamUnits ==
  ASSUME NEW m \in Seq(Seq(Unit)) PROVE \E u : Units(u, m) /\ Conc!Stream(m) = u[Len(m)]
<1> DEFINE L == Len(m)
           D == Seq(Unit)
           then(k, d) == <<Conc!Length(Len(m[L + 1 - k]))>> \o m[L + 1 - k] \o d
           step == [x \in (1 .. L) \X D |-> then(x[1], x[2])]
           Is(g) == g = [n \in 0 .. L |-> IF n = 0 THEN <<>> ELSE then(n, g[n - 1])]
           f == CHOOSE g : Is(g)
<1>1. Conc!Stream(m) = f[L]
  BY DEF Conc!Stream
<1>2. L \in Nat /\ <<>> \in D
  OBVIOUS
<1>3. ASSUME NEW k \in 1 .. L, NEW d \in D PROVE then(k, d) \in D
  <2>1. m[L + 1 - k] \in Seq(Unit)
    BY FromEndTyped DEF FromEnd
  <2> QED
    BY <2>1, Lengthened
<1>4. \A k \in 1 .. L, d \in D : step[<<k, d>>] = then(k, d)
  OBVIOUS
<1> HIDE DEF then, step, L, D
<1>5. PICK g : Follows(g, step, L, D, <<>>)
  <2>1. Steps(step, L, D)
    BY <1>3, <1>4 DEF Steps
  <2> QED
    BY <1>2, <2>1, Recursion, Zenon
<1>f. g \in [0 .. L -> D] /\ g[0] = <<>> /\ \A k \in 1 .. L : g[k] = step[<<k, g[k - 1]>>]
  BY <1>5 DEF Follows
<1>6. Is(g)
  <2>1. ASSUME NEW n \in 0 .. L PROVE g[n] = IF n = 0 THEN <<>> ELSE then(n, g[n - 1])
    <3>1. n # 0 => n \in 1 .. L /\ n - 1 \in 0 .. L
      BY <1>2
    <3> QED
      BY <1>4, <1>f, <3>1
  <2> QED
    BY <1>f, <2>1
<1>7. Is(f)
  <2> HIDE DEF Is
  <2> QED
    BY <1>6
<1> HIDE DEF f
<1>8. \A n \in 0 .. L : f[n] = IF n = 0 THEN <<>> ELSE then(n, f[n - 1])
  BY <1>7
<1>d. f[0] = <<>> /\ 0 \in 0 .. L
  <2>1. 0 \in 0 .. L
    BY <1>2
  <2> QED
    BY <1>8, <2>1
<1>9. ASSUME NEW n \in 0 .. L PROVE f[n] \in D
  <2> DEFINE S == {k \in 0 .. n : f[k] \in D}
  <2>1. 0 \in S
    <3>1. 0 \in 0 .. n
      BY <1>2
    <3> QED
      BY <1>2, <1>d, <3>1
  <2>2. ASSUME NEW k \in 0 .. n - 1, k \in S PROVE k + 1 \in S
    <3>1. k + 1 \in 1 .. L /\ k + 1 \in 0 .. L /\ k + 1 # 0 /\ (k + 1) - 1 = k /\ k + 1 \in 0 .. n
      BY <1>2
    <3>2. f[k + 1] = then(k + 1, f[k])
      BY <1>8, <3>1
    <3>3. f[k] \in D
      BY <2>2
    <3> QED
      BY <1>3, <3>1, <3>2, <3>3
  <2>3. n \in Nat
    BY <1>2
  <2>4. n \in S
    <3> HIDE DEF S
    <3> QED
      BY <2>1, <2>2, <2>3, UpTo
  <2> QED
    BY <2>4
<1>10. Units(f, m)
  <2>1. f \in [0 .. L -> D]
    <3>1. f = [n \in 0 .. L |-> IF n = 0 THEN <<>> ELSE then(n, f[n - 1])]
      BY <1>7
    <3>2. \A n \in 0 .. L : (IF n = 0 THEN <<>> ELSE then(n, f[n - 1])) \in D
      BY <1>8, <1>9
    <3> QED
      BY <3>1, <3>2
  <2>2. f[0] = <<>>
    BY <1>d
  <2>3. ASSUME NEW n \in 1 .. L PROVE f[n] = then(n, f[n - 1])
    <3>1. n \in 0 .. L /\ n # 0
      BY <1>2
    <3> QED
      BY <1>8, <3>1
  <2> QED
    BY <2>1, <2>2, <2>3 DEF Units, L, D, then, FromEnd
<1> QED
  BY <1>1, <1>10 DEF L

(* ... and words. *)
LEMMA MessageWords == ASSUME NEW m \in Seq(Seq(Unit)) PROVE \E w : WordsOf(w, m)
<1> DEFINE L == Len(m)
           D == Seq(Unit)
           step == [x \in (1 .. L) \X D |-> FromEnd(m, x[1]) \o x[2]]
<1>1. \A k \in 1 .. L, d \in D : step[<<k, d>>] = FromEnd(m, k) \o d
  OBVIOUS
<1>2. L \in Nat /\ <<>> \in D
  OBVIOUS
<1> HIDE DEF step, L, D
<1>3. ASSUME NEW k \in 1 .. L, NEW d \in D PROVE step[<<k, d>>] \in D
  <2>1. FromEnd(m, k) \in Seq(Unit) /\ d \in Seq(Unit)
    BY FromEndTyped DEF L, D
  <2> QED
    BY <1>1, <2>1, Lengthened DEF D
<1>4. PICK g : Follows(g, step, L, D, <<>>)
  <2>1. Steps(step, L, D)
    BY <1>3 DEF Steps
  <2> QED
    BY <1>2, <2>1, Recursion, Zenon
<1>f. g \in [0 .. L -> D] /\ g[0] = <<>> /\ \A k \in 1 .. L : g[k] = step[<<k, g[k - 1]>>]
  BY <1>4 DEF Follows
<1>5. ASSUME NEW k \in 1 .. L PROVE g[k] = FromEnd(m, k) \o g[k - 1]
  <2>1. k - 1 \in 0 .. L
    BY <1>2
  <2> QED
    BY <1>1, <1>f, <2>1
<1> QED
  BY <1>f, <1>5 DEF WordsOf, L, D

(* More packages have more words. *)
LEMMA WordsGrow ==
  ASSUME NEW m \in Seq(Seq(Unit)), NEW w, WordsOf(w, m), NEW n \in 0 .. Len(m),
         NEW k \in n .. Len(m)
  PROVE Len(w[n]) <= Len(w[k])
<1> DEFINE S == {i \in 0 .. k - n : Len(w[n]) <= Len(w[n + i])}
<1>a. Len(m) \in Nat /\ k - n \in Nat
  OBVIOUS
<1>b. w \in [0 .. Len(m) -> Seq(Unit)]
  BY DEF WordsOf
<1>1. 0 \in S
  <2>1. n + 0 = n /\ w[n] \in Seq(Unit)
    BY <1>b
  <2>2. Len(w[n]) \in Nat
    BY <2>1
  <2> QED
    BY <1>a, <2>1, <2>2
<1>2. ASSUME NEW i \in 0 .. k - n - 1, i \in S PROVE i + 1 \in S
  <2> DEFINE j == n + i + 1
  <2>1. /\ j \in 1 .. Len(m) /\ j - 1 = n + i /\ j - 1 \in 0 .. Len(m) /\ n + (i + 1) = j
        /\ i + 1 \in 0 .. k - n
    BY <1>a
  <2> HIDE DEF j
  <2>2. w[j - 1] \in Seq(Unit) /\ w[n] \in Seq(Unit) /\ w[j] = FromEnd(m, j) \o w[j - 1]
    BY <2>1 DEF WordsOf
  <2>3. FromEnd(m, j) \in Seq(Unit)
    BY <2>1, FromEndTyped
  <2>4. Len(w[j]) = Len(FromEnd(m, j)) + Len(w[j - 1])
    BY <2>2, <2>3, Lengthened
  <2>5. Len(w[n]) <= Len(w[j - 1])
    BY <1>2, <2>1
  <2>6. Len(FromEnd(m, j)) \in Nat /\ Len(w[j - 1]) \in Nat /\ Len(w[n]) \in Nat
    BY <2>2, <2>3
  <2> QED
    BY <2>1, <2>4, <2>5, <2>6
<1>3. k - n \in S
  <2> HIDE DEF S
  <2> QED
    BY <1>a, <1>1, <1>2, UpTo
<1> QED
  BY <1>3

-----------------------------------------------------------------------------
(* A turn of ProcessReceivedBytes *)

(* The results of a turn, field by field. *)
Waiting(r) == r.buf = <<>> \/ (r.state \in {"lcp", "seg"} /\ Len(r.buf) < r.pdu)
LengthRead(r) ==
  [state |-> IF r.state = "lcpLength" THEN "lcp" ELSE "seg", pdu |-> Head(r.buf).length,
   code |-> r.code, data |-> r.data, buf |-> Tail(r.buf), subsegs |-> r.subsegs,
   size |-> r.size]
LcpRead(r) ==
  [state |-> IF Head(r.buf).segs > 0 THEN "segLength" ELSE "lcpLength", pdu |-> 0,
   code |-> Head(r.buf).code, data |-> r.data \o SubSeq(r.buf, 1, r.pdu),
   buf |-> Conc!Rest(r.buf, r.pdu), subsegs |-> Head(r.buf).segs, size |-> r.size]
SegmentRead(r) ==
  [state |-> IF r.subsegs - 1 > 0 THEN "segLength" ELSE "lcpLength", pdu |-> 0,
   code |-> r.code, data |-> r.data \o SubSeq(r.buf, 1, r.pdu),
   buf |-> Conc!Rest(r.buf, r.pdu), subsegs |-> r.subsegs - 1,
   size |-> IF r.code = "logon" THEN SegWords ELSE r.size]

(* ProcessPackage does one of them. *)
LEMMA Turn ==
  ASSUME NEW r \in Receiver
  PROVE /\ Waiting(r) => Conc!ProcessPackage(r) = r
        /\ ~Waiting(r) /\ r.state \in {"lcpLength", "segLength"} =>
             Conc!ProcessPackage(r) = LengthRead(r)
        /\ ~Waiting(r) /\ r.state = "lcp" => Conc!ProcessPackage(r) = LcpRead(r)
        /\ ~Waiting(r) /\ r.state = "seg" => Conc!ProcessPackage(r) = SegmentRead(r)
<1>1. r = [state |-> r.state, pdu |-> r.pdu, code |-> r.code, data |-> r.data, buf |-> r.buf,
           subsegs |-> r.subsegs, size |-> r.size]
  BY DEF Receiver
<1>2. Waiting(r) => Conc!ProcessPackage(r) = r
  BY DEF Conc!ProcessPackage, Waiting
<1>3. ASSUME ~Waiting(r), r.state \in {"lcpLength", "segLength"}
      PROVE Conc!ProcessPackage(r) = LengthRead(r)
  <2>1. Conc!ProcessPackage(r) =
          [r EXCEPT !.pdu = Head(r.buf).length, !.buf = Tail(@),
                    !.state = IF @ = "lcpLength" THEN "lcp" ELSE "seg"]
    BY <1>3 DEF Conc!ProcessPackage, Waiting
  <2> QED
    BY <1>1, <2>1 DEF LengthRead
<1>4. ASSUME ~Waiting(r), r.state = "lcp" PROVE Conc!ProcessPackage(r) = LcpRead(r)
  <2>1. Conc!ProcessPackage(r) =
          [r EXCEPT !.subsegs = Head(r.buf).segs, !.code = Head(r.buf).code, !.pdu = 0,
                    !.buf = Conc!Rest(@, r.pdu), !.data = @ \o SubSeq(r.buf, 1, r.pdu),
                    !.state = IF Head(r.buf).segs > 0 THEN "segLength" ELSE "lcpLength"]
    BY <1>4 DEF Conc!ProcessPackage, Waiting
  <2> QED
    BY <1>1, <2>1 DEF LcpRead
<1>5. ASSUME ~Waiting(r), r.state = "seg" PROVE Conc!ProcessPackage(r) = SegmentRead(r)
  <2>1. Conc!ProcessPackage(r) =
          [r EXCEPT !.size = IF r.code = "logon" THEN SegWords ELSE @,
                    !.subsegs = @ - 1, !.pdu = 0,
                    !.buf = Conc!Rest(@, r.pdu), !.data = @ \o SubSeq(r.buf, 1, r.pdu),
                    !.state = IF r.subsegs - 1 > 0 THEN "segLength" ELSE "lcpLength"]
    BY <1>5 DEF Conc!ProcessPackage, Waiting
  <2> QED
    BY <1>1, <2>1 DEF SegmentRead
<1> QED
  BY <1>2, <1>3, <1>4, <1>5

(* The first unit of a buffer *)
LEMMA First ==
  ASSUME NEW s \in Seq(Unit), s # <<>>
  PROVE /\ Len(s) \in Nat /\ Len(s) > 0 /\ Head(s) = s[1] /\ Head(s) \in Unit
        /\ Tail(s) \in Seq(Unit) /\ Tail(s) = Conc!Rest(s, 1)
<1> HIDE DEF Unit
<1>1. Len(s) \in Nat /\ Len(s) > 0 /\ Head(s) = s[1] /\ Head(s) \in Unit
  OBVIOUS
<1>2. Tail(s) \in Seq(Unit)
  BY HeadTailProperties, Zenon
<1>3. Tail(s) = SubSeq(s, 2, Len(s))
  BY TailIsSubSeq, Zenon
<1>4. 1 + 1 = 2
  OBVIOUS
<1> QED
  BY <1>1, <1>2, <1>3, <1>4 DEF Conc!Rest

(* A turn keeps the types. *)
LEMMA TurnTyped ==
  ASSUME PackageSizes, NEW r \in Receiver PROVE Conc!ProcessPackage(r) \in Receiver
<1> DEFINE Codes == {"none", "data", "logon", "start"}
<1>a. /\ r.state \in {"lcpLength", "lcp", "segLength", "seg"} /\ r.pdu \in Nat
      /\ r.code \in Codes /\ r.data \in Seq(Unit) /\ r.buf \in Seq(Unit) /\ r.subsegs \in Int
      /\ r.size \in Nat
  BY DEF Receiver
<1>b. SegWords \in Nat
  BY DEF PackageSizes
<1>1. CASE Waiting(r)
  BY <1>1, Turn
<1>2. ASSUME ~Waiting(r)
      PROVE /\ Head(r.buf).length \in Nat /\ Head(r.buf).segs \in Nat /\ Head(r.buf).code \in Codes
            /\ Tail(r.buf) \in Seq(Unit)
  <2>1. r.buf # <<>>
    BY <1>2 DEF Waiting
  <2>2. Head(r.buf) \in Unit /\ Tail(r.buf) \in Seq(Unit)
    BY <1>a, <2>1, First
  <2>3. \A x \in Unit : x.length \in Nat /\ x.segs \in Nat /\ x.code \in Codes
    BY DEF Unit
  <2> QED
    BY <2>2, <2>3
<1>3. ASSUME ~Waiting(r), r.state \in {"lcp", "seg"}
      PROVE /\ r.data \o SubSeq(r.buf, 1, r.pdu) \in Seq(Unit)
            /\ Conc!Rest(r.buf, r.pdu) \in Seq(Unit)
  <2>1. r.pdu \in 0 .. Len(r.buf)
    <3>1. ~(Len(r.buf) < r.pdu) /\ Len(r.buf) \in Nat
      BY <1>a, <1>3 DEF Waiting
    <3> QED
      BY <1>a, <3>1
  <2>2. SubSeq(r.buf, 1, r.pdu) \in Seq(Unit) /\ Conc!Rest(r.buf, r.pdu) \in Seq(Unit)
    BY <1>a, <2>1, Halves
  <2> QED
    BY <1>a, <2>2, Lengthened
<1>4. CASE ~Waiting(r) /\ r.state \in {"lcpLength", "segLength"}
  <2>1. LengthRead(r) \in Receiver
    BY <1>a, <1>2, <1>4 DEF LengthRead, Receiver
  <2> QED
    BY <1>4, <2>1, Turn
<1>5. CASE ~Waiting(r) /\ r.state = "lcp"
  <2>1. LcpRead(r) \in Receiver
    BY <1>a, <1>2, <1>3, <1>5 DEF LcpRead, Receiver
  <2> QED
    BY <1>5, <2>1, Turn
<1>6. CASE ~Waiting(r) /\ r.state = "seg"
  <2>1. SegmentRead(r) \in Receiver
    <3>1. r.subsegs - 1 \in Int
      BY <1>a
    <3> QED
      BY <1>a, <1>b, <1>3, <1>6, <3>1 DEF SegmentRead, Receiver
  <2> QED
    BY <1>6, <2>1, Turn
<1> QED
  BY <1>a, <1>1, <1>4, <1>5, <1>6

(* A message has an LCP, and its packages are not empty. *)
LEMMA MessageParts ==
  ASSUME PackageSizes, NEW m, IsMessage(m), NEW n \in 1 .. Len(m)
  PROVE /\ FromEnd(m, n) \in Seq(Unit) /\ Len(m) \in Nat /\ m # <<>>
        /\ Len(FromEnd(m, n)) \in Nat /\ Len(FromEnd(m, n)) > 0
        /\ n = Len(m) => FromEnd(m, n) = m[1] /\ Len(FromEnd(m, n)) = LcpWords
        /\ 1 < n /\ n < Len(m) => Len(FromEnd(m, n)) = SegWords
        /\ n < Len(m) => Len(FromEnd(m, n)) <= SegWords
        /\ m[1][1].segs = Len(m) - 1
        /\ FromEnd(m, n) = m[Len(m) + 1 - n]
<1>a. m \in Seq(Seq(Unit)) /\ Len(m) \in Nat
  BY DEF IsMessage
<1>b. LcpWords \in Nat /\ LcpWords > 0 /\ SegWords \in Nat /\ SegWords > 0
  BY DEF PackageSizes
<1>1. m # <<>>
  BY <1>a
<1> DEFINE p == Len(m) + 1 - n
<1>2. p \in 1 .. Len(m) /\ FromEnd(m, n) \in Seq(Unit)
  BY <1>a, FromEndTyped
<1>3. FromEnd(m, n) = m[p]
  BY DEF FromEnd
<1>4. /\ Len(m[1]) = LcpWords /\ m[1][1].segs = Len(m) - 1
      /\ \A q \in 2 .. Len(m) : Len(m[q]) \in 1 .. SegWords
      /\ \A q \in 2 .. Len(m) - 1 : Len(m[q]) = SegWords
  BY <1>1 DEF IsMessage
<1>5. CASE n = Len(m)
  <2>1. p = 1
    BY <1>a, <1>5
  <2> HIDE DEF p
  <2> QED
    BY <1>a, <1>b, <1>1, <1>2, <1>3, <1>4, <1>5, <2>1 DEF p
<1>6. CASE n < Len(m)
  <2>1. p \in 2 .. Len(m) /\ (1 < n => p \in 2 .. Len(m) - 1) /\ n # Len(m)
    BY <1>a, <1>6
  <2>2. Len(m[p]) \in 1 .. SegWords /\ (1 < n => Len(m[p]) = SegWords)
    BY <1>4, <2>1
  <2>3. Len(m[p]) \in Nat /\ Len(m[p]) > 0 /\ Len(m[p]) <= SegWords
    BY <1>b, <2>2
  <2>4. m[p] \in Seq(Unit)
    BY <1>2, <1>3
  <2> HIDE DEF p
  <2>5. FromEnd(m, n) = m[p] /\ n # Len(m) /\ m # <<>> /\ Len(m) \in Nat
    BY <1>a, <1>1, <1>3, <2>1
  <2>6. m[1][1].segs = Len(m) - 1
    BY <1>4
  <2> QED
    BY <2>2, <2>3, <2>4, <2>5, <2>6 DEF p
<1>7. n = Len(m) \/ n < Len(m)
  BY <1>a
<1> QED
  BY <1>5, <1>6, <1>7

(* The fields of a message's first unit. *)
LEMMA LengthFields ==
  ASSUME NEW n
  PROVE Conc!Length(n).length = n
  BY DEF Conc!Length

(* The logon message has a segment. *)
LEMMA LogonSegments ==
  ASSUME NEW m, IsMessage(m) PROVE m # <<>> /\ m[1][1].code = "logon" => Len(m) > 1
BY DEF IsMessage

(* A turn leaves what it does not read for the next one. *)
LEMMA TurnCut ==
  ASSUME PackageSizes, IsMessage(packages), got \in Seq(Seq(Unit)), stream \in Seq(Unit),
         NEW u, Units(u, packages), NEW w, WordsOf(w, packages),
         NEW r \in Receiver, NEW n \in Nat, Cut(r, u, w, n)
  PROVE \E k \in Nat : Cut(Conc!ProcessPackage(r), u, w, k)
<1> DEFINE N == Len(packages)
           P == FromEnd(packages, n)
           r1 == Conc!ProcessPackage(r)
<1>a. /\ r.state \in {"lcpLength", "lcp", "segLength", "seg"} /\ r.pdu \in Nat
      /\ r.data \in Seq(Unit) /\ r.buf \in Seq(Unit) /\ r.subsegs \in Int
  BY DEF Receiver
<1>b. N \in Nat /\ Len(got) \in Nat /\ packages \in Seq(Seq(Unit))
  BY DEF IsMessage
<1>c. n \in 0 .. N - Len(got) /\ n \in 0 .. N
  <2>1. n \in 0 .. N - Len(got)
    BY DEF Cut
  <2> QED
    BY <1>b, <2>1
<1>d. /\ u \in [0 .. N -> Seq(Unit)] /\ w \in [0 .. N -> Seq(Unit)] /\ u[0] = <<>>
      /\ \A k \in 1 .. N :
           /\ u[k] = <<Conc!Length(Len(FromEnd(packages, k)))>> \o FromEnd(packages, k) \o u[k - 1]
           /\ w[k] = FromEnd(packages, k) \o w[k - 1]
  BY DEF Units, WordsOf
<1>e. SegWords \in Nat /\ LcpWords \in Nat /\ SegWords > 0 /\ LcpWords > 0
  BY DEF PackageSizes
<1>f. ASSUME n > 0
      PROVE /\ n \in 1 .. N /\ n - 1 \in 0 .. N /\ n - 1 \in 0 .. N - Len(got)
            /\ P \in Seq(Unit) /\ Len(P) \in Nat /\ Len(P) > 0 /\ packages # <<>>
            /\ u[n - 1] \in Seq(Unit) /\ w[n - 1] \in Seq(Unit)
            /\ u[n] = <<Conc!Length(Len(P))>> \o P \o u[n - 1] /\ w[n] = P \o w[n - 1]
  <2>1. n \in 1 .. N /\ n - 1 \in 0 .. N /\ n - 1 \in 0 .. N - Len(got)
    BY <1>b, <1>c, <1>f
  <2>2. P \in Seq(Unit) /\ Len(P) \in Nat /\ Len(P) > 0 /\ packages # <<>>
    BY <2>1, MessageParts
  <2>3. u[n - 1] \in Seq(Unit) /\ w[n - 1] \in Seq(Unit)
    BY <1>d, <2>1
  <2> QED
    BY <1>d, <2>1, <2>2, <2>3
<1>1. CASE Waiting(r)
  <2>1. r1 = r
    BY <1>1, Turn
  <2> QED
    BY <2>1
<1>2. CASE ~Waiting(r) /\ r.state \in {"lcpLength", "segLength"}
  <2>1. r1 = LengthRead(r)
    BY <1>2, Turn
  <2>2. r.buf # <<>>
    BY <1>2 DEF Waiting
  <2>3. r.buf \o stream = u[n]
    BY <1>2 DEF Cut
  <2>4. n > 0
    <3>1. Len(r.buf \o stream) = Len(r.buf) + Len(stream) /\ Len(r.buf) > 0 /\ Len(stream) \in Nat
      <4>1. Len(r.buf) > 0
        BY <1>a, <2>2, First
      <4>2. Len(r.buf \o stream) = Len(r.buf) + Len(stream)
        BY <1>a, Lengthened
      <4> QED
        BY <4>1, <4>2
    <3>2. Len(r.buf) \in Nat
      BY <1>a
    <3>3. CASE n = 0
      <4>1. Len(u[n]) = 0
        BY <1>d, <3>3
      <4> QED
        BY <2>3, <3>1, <3>2, <4>1
    <3> QED
      BY <3>3
  <2> DEFINE x == Conc!Length(Len(P))
  <2>5. x \in Unit /\ x.length = Len(P)
    BY <1>f, <2>4, Lengthened, LengthFields
  <2> HIDE DEF x
  <2>6. <<x>> \in Seq(Unit) /\ Len(<<x>>) = 1
    BY <2>5
  <2>7. u[n] = <<x>> \o (P \o u[n - 1]) /\ P \o u[n - 1] \in Seq(Unit)
    <3>1. P \in Seq(Unit) /\ u[n - 1] \in Seq(Unit)
      BY <1>f, <2>4
    <3>2. P \o u[n - 1] \in Seq(Unit)
      BY <3>1, Lengthened
    <3> DEFINE v == u[n - 1]
               q == P
    <3> HIDE DEF v, q
    <3>3. q \in Seq(Unit) /\ v \in Seq(Unit) /\ <<x>> \in Seq(Unit)
      BY <2>6, <3>1 DEF v, q
    <3>4. <<x>> \o q \o v = <<x>> \o (q \o v)
      BY <3>3
    <3> QED
      BY <1>f, <2>4, <3>2, <3>4 DEF x, v, q
  <2>8. SubSeq(r.buf, 1, 1) = <<x>> /\ Conc!Rest(r.buf, 1) \o stream = P \o u[n - 1]
    <3>1. Len(<<x>>) <= Len(r.buf)
      BY <1>a, <2>2, <2>6, First
    <3>2. r.buf \o stream = <<x>> \o (P \o u[n - 1])
      BY <2>3, <2>7
    <3>3. /\ SubSeq(r.buf, 1, Len(<<x>>)) = <<x>>
          /\ Conc!Rest(r.buf, Len(<<x>>)) \o stream = P \o u[n - 1]
      BY <1>a, <2>6, <2>7, <3>1, <3>2, TakenOff, Zenon
    <3> QED
      BY <2>6, <3>3
  <2>9. Head(r.buf) = x /\ Tail(r.buf) \o stream = P \o u[n - 1]
    <3>1. Head(r.buf) = r.buf[1] /\ Tail(r.buf) = Conc!Rest(r.buf, 1) /\ Len(r.buf) > 0
      BY <1>a, <2>2, First
    <3>2. SubSeq(r.buf, 1, 1)[1] = r.buf[1]
      BY <1>a, <3>1
    <3>3. <<x>>[1] = x
      OBVIOUS
    <3>4. r.buf[1] = x
      BY <2>8, <3>2, <3>3, Zenon
    <3> QED
      BY <2>8, <3>1, <3>4, Zenon
  <2>10. /\ r1.state = IF r.state = "lcpLength" THEN "lcp" ELSE "seg"
         /\ r1.pdu = Len(P) /\ r1.code = r.code /\ r1.data = r.data /\ r1.buf = Tail(r.buf)
         /\ r1.subsegs = r.subsegs /\ r1.size = r.size
    BY <2>1, <2>5, <2>9 DEF LengthRead
  <2> HIDE DEF r1, P
  <2>11. r1.buf \o stream = P \o u[n - 1]
    BY <2>9, <2>10, Zenon
  <2>12. /\ r.state = "lcpLength" => n = N
         /\ r.state = "segLength" =>
              0 < n /\ n < N /\ r.subsegs = n /\ r.code = packages[1][1].code
         /\ r.data \o w[n] = w[N - Len(got)]
         /\ packages # <<>> /\ (n = 0 \/ packages[1][1].code # "logon") => r.size = SegWords
    <3>1. r.state = "lcpLength" => n \in {0, N}
      BY DEF Cut
    <3>2. r.state = "lcpLength" => n = N
      BY <1>b, <2>4, <3>1
    <3> QED
      BY <3>2, Zenon DEF Cut
  <2>13. r1.state \in {"lcp", "seg"} /\ (r1.state = "lcp" <=> r.state = "lcpLength")
    BY <1>2, <2>10
  <2>14. Cut(r1, u, w, n)
    <3> HIDE DEF N
    <3>1. r1.pdu = Len(FromEnd(packages, n)) /\ r1.buf \o stream = FromEnd(packages, n) \o u[n - 1]
      BY <2>10, <2>11, Zenon DEF P
    <3>2. r1.data \o w[n] = w[Len(packages) - Len(got)]
      BY <2>10, <2>12, Zenon DEF N
    <3>3. r1.state = "seg" =>
            0 < n /\ n < Len(packages) /\ r1.subsegs = n /\ r1.code = packages[1][1].code
      BY <1>2, <2>10, <2>12 DEF N
    <3>4. r1.state = "lcp" => n = Len(packages)
      BY <2>12, <2>13 DEF N
    <3>5. packages # <<>> /\ (n = 0 \/ packages[1][1].code # "logon") => r1.size = SegWords
      BY <2>10, <2>12
    <3> QED
      BY <1>c, <2>4, <2>13, <3>1, <3>2, <3>3, <3>4, <3>5 DEF Cut, N
  <2> QED
    BY <2>14 DEF r1
<1>3. ASSUME ~Waiting(r), r.state \in {"lcp", "seg"}
      PROVE /\ n > 0 /\ r.pdu = Len(P) /\ SubSeq(r.buf, 1, r.pdu) = P
            /\ Conc!Rest(r.buf, r.pdu) \o stream = u[n - 1]
            /\ (r.data \o P) \o w[n - 1] = w[N - Len(got)]
            /\ Head(r.buf) = P[1]
  <2>1. n > 0 /\ r.pdu = Len(P) /\ r.buf \o stream = P \o u[n - 1]
    BY <1>3 DEF Cut
  <2>2. Len(P) <= Len(r.buf)
    <3>1. ~(Len(r.buf) < r.pdu)
      BY <1>3 DEF Waiting
    <3> QED
      BY <1>a, <2>1, <3>1
  <2> HIDE DEF P
  <2>3. SubSeq(r.buf, 1, Len(P)) = P /\ Conc!Rest(r.buf, Len(P)) \o stream = u[n - 1]
    BY <1>a, <1>f, <2>1, <2>2, TakenOff, Zenon
  <2>4. (r.data \o P) \o w[n - 1] = w[N - Len(got)]
    <3>1. r.data \o (P \o w[n - 1]) = w[N - Len(got)]
      BY <1>f, <2>1 DEF Cut
    <3> DEFINE d == r.data
               v == w[n - 1]
    <3>2. d \in Seq(Unit) /\ P \in Seq(Unit) /\ v \in Seq(Unit)
      BY <1>a, <1>f, <2>1
    <3> HIDE DEF d, v
    <3>3. (d \o P) \o v = d \o (P \o v)
      BY <3>2, SMTT(20)
    <3> QED
      BY <3>1, <3>3 DEF d, v
  <2>5. Head(r.buf) = P[1]
    <3>1. r.buf # <<>>
      BY <1>3 DEF Waiting
    <3>2. Head(r.buf) = r.buf[1] /\ Len(P) > 0 /\ Len(P) \in Nat
      BY <1>a, <1>f, <2>1, <3>1, First
    <3>3. SubSeq(r.buf, 1, Len(P))[1] = r.buf[1]
      BY <1>a, <2>2, <3>2
    <3> QED
      BY <2>3, <3>2, <3>3
  <2> QED
    BY <2>1, <2>3, <2>4, <2>5
<1>4. CASE ~Waiting(r) /\ r.state = "lcp"
  <2>1. r1 = LcpRead(r)
    BY <1>4, Turn
  <2>2. /\ n > 0 /\ r.pdu = Len(P) /\ SubSeq(r.buf, 1, r.pdu) = P
        /\ Conc!Rest(r.buf, r.pdu) \o stream = u[n - 1]
        /\ (r.data \o P) \o w[n - 1] = w[N - Len(got)] /\ Head(r.buf) = P[1]
    BY <1>3, <1>4
  <2>3. n = N
    BY <1>4 DEF Cut
  <2>4. P = packages[1] /\ packages[1][1].segs = N - 1 /\ packages # <<>>
    <3>1. n \in 1 .. N
      BY <1>f, <2>2
    <3>2. /\ FromEnd(packages, n) = packages[1] /\ packages[1][1].segs = N - 1
          /\ packages # <<>>
      BY <2>3, <3>1, MessageParts
    <3> QED
      BY <3>2
  <2>5. /\ r1.state = IF N - 1 > 0 THEN "segLength" ELSE "lcpLength"
        /\ r1.code = packages[1][1].code /\ r1.data = r.data \o P
        /\ r1.buf = Conc!Rest(r.buf, r.pdu) /\ r1.subsegs = N - 1 /\ r1.size = r.size
    <3>1. /\ LcpRead(r).state = IF Head(r.buf).segs > 0 THEN "segLength" ELSE "lcpLength"
          /\ LcpRead(r).code = Head(r.buf).code
          /\ LcpRead(r).data = r.data \o SubSeq(r.buf, 1, r.pdu)
          /\ LcpRead(r).buf = Conc!Rest(r.buf, r.pdu) /\ LcpRead(r).subsegs = Head(r.buf).segs
          /\ LcpRead(r).size = r.size
      BY DEF LcpRead
    <3> HIDE DEF r1, P, N
    <3>2. Head(r.buf) = packages[1][1]
      BY <2>2, <2>4, Zenon
    <3>3. LcpRead(r).data = r.data \o P
      BY <2>2, <3>1, Zenon
    <3> QED
      BY <2>1, <2>4, <3>1, <3>2, <3>3, Zenon
  <2>6. n - 1 = 0 => packages[1][1].code # "logon"
    <3>1. packages[1][1].code = "logon" => Len(packages) > 1
      BY <2>4, LogonSegments
    <3>2. ASSUME n - 1 = 0 PROVE ~(Len(packages) > 1)
      <4>1. n = 1
        BY <3>2
      <4>2. Len(packages) = 1
        BY <2>3, <4>1, Zenon
      <4> QED
        BY <4>2
    <3> QED
      BY <3>1, <3>2, Zenon
  <2>7. packages[1][1].code # "logon" => r.size = SegWords
    BY <2>4 DEF Cut
  <2>8. n - 1 \in 0 .. N - Len(got) /\ n - 1 \in Nat
    BY <1>f, <2>2
  <2> HIDE DEF r1, P
  <2>9. r1.buf \o stream = u[n - 1] /\ r1.data \o w[n - 1] = w[N - Len(got)]
    BY <2>2, <2>5
  <2>10. N - 1 > 0 => 0 < n - 1 /\ n - 1 < N /\ r1.subsegs = n - 1
    BY <1>b, <2>3, <2>5
  <2>11. ~(N - 1 > 0) => n - 1 = 0
    BY <1>b, <2>3, <2>8
  <2>12. Cut(r1, u, w, n - 1)
    BY <2>5, <2>6, <2>7, <2>8, <2>9, <2>10, <2>11 DEF Cut
  <2> QED
    BY <2>8, <2>12 DEF r1
<1>5. CASE ~Waiting(r) /\ r.state = "seg"
  <2>1. r1 = SegmentRead(r)
    BY <1>5, Turn
  <2>2. /\ n > 0 /\ r.pdu = Len(P) /\ SubSeq(r.buf, 1, r.pdu) = P
        /\ Conc!Rest(r.buf, r.pdu) \o stream = u[n - 1]
        /\ (r.data \o P) \o w[n - 1] = w[N - Len(got)]
    BY <1>3, <1>5
  <2>3. 0 < n /\ n < N /\ r.subsegs = n /\ r.code = packages[1][1].code
    BY <1>5 DEF Cut
  <2>4. packages # <<>>
    BY <1>f, <2>2
  <2>5. /\ r1.state = IF n - 1 > 0 THEN "segLength" ELSE "lcpLength"
        /\ r1.code = packages[1][1].code /\ r1.data = r.data \o P
        /\ r1.buf = Conc!Rest(r.buf, r.pdu) /\ r1.subsegs = n - 1
        /\ r1.size = IF packages[1][1].code = "logon" THEN SegWords ELSE r.size
    <3>1. /\ SegmentRead(r).state = IF r.subsegs - 1 > 0 THEN "segLength" ELSE "lcpLength"
          /\ SegmentRead(r).code = r.code
          /\ SegmentRead(r).data = r.data \o SubSeq(r.buf, 1, r.pdu)
          /\ SegmentRead(r).buf = Conc!Rest(r.buf, r.pdu)
          /\ SegmentRead(r).subsegs = r.subsegs - 1
          /\ SegmentRead(r).size = IF r.code = "logon" THEN SegWords ELSE r.size
      BY DEF SegmentRead
    <3> HIDE DEF r1, P, N
    <3>2. SegmentRead(r).data = r.data \o P
      BY <2>2, <3>1, Zenon
    <3> QED
      BY <2>1, <2>3, <3>1, <3>2, Zenon
  <2>6. packages[1][1].code # "logon" => r.size = SegWords
    BY <2>4 DEF Cut
  <2>7. n - 1 \in 0 .. N - Len(got) /\ n - 1 \in Nat
    BY <1>f, <2>2
  <2> HIDE DEF r1, P
  <2>8. r1.buf \o stream = u[n - 1] /\ r1.data \o w[n - 1] = w[N - Len(got)]
    BY <2>2, <2>5
  <2>9. (n - 1 > 0 => 0 < n - 1 /\ n - 1 < N) /\ (~(n - 1 > 0) => n - 1 = 0)
    BY <1>b, <2>3, <2>7
  <2>10. r1.size = SegWords
    BY <2>5, <2>6
  <2>11. Cut(r1, u, w, n - 1)
    BY <2>5, <2>7, <2>8, <2>9, <2>10 DEF Cut
  <2> QED
    BY <2>7, <2>11 DEF r1
<1> QED
  BY <1>a, <1>1, <1>2, <1>4, <1>5

(* What every turn keeps, the loop keeps. *)
LEMMA Processed ==
  ASSUME NEW T, rbuf \in Seq(Unit), Receiving \in T, \A r \in T : Conc!ProcessPackage(r) \in T
  PROVE Conc!ProcessReceivedBytes \in T
<1> DEFINE L == Len(rbuf)
           step == [x \in (1 .. L) \X T |-> Conc!ProcessPackage(x[2])]
           Is(g) == g = [n \in 0 .. L |->
                           IF n = 0 THEN Receiving ELSE Conc!ProcessPackage(g[n - 1])]
           f == CHOOSE g : Is(g)
<1>1. Conc!ProcessReceivedBytes = f[L]
  BY DEF Conc!ProcessReceivedBytes, Receiving
<1>2. L \in Nat
  OBVIOUS
<1>3. \A k \in 1 .. L, d \in T : step[<<k, d>>] = Conc!ProcessPackage(d)
  OBVIOUS
<1> HIDE DEF step, L
<1>4. PICK g : Follows(g, step, L, T, Receiving)
  <2>1. Steps(step, L, T)
    BY <1>3 DEF Steps
  <2> QED
    BY <1>2, <2>1, Recursion, Zenon
<1>5. g \in [0 .. L -> T] /\ g[0] = Receiving /\ \A k \in 1 .. L : g[k] = step[<<k, g[k - 1]>>]
  BY <1>4 DEF Follows
<1>6. Is(g)
  <2>1. ASSUME NEW n \in 0 .. L
        PROVE g[n] = IF n = 0 THEN Receiving ELSE Conc!ProcessPackage(g[n - 1])
    <3>1. n # 0 => n \in 1 .. L /\ n - 1 \in 0 .. L
      BY <1>2
    <3> QED
      BY <1>3, <1>5, <3>1
  <2> QED
    BY <1>5, <2>1
<1>7. Is(f)
  <2> HIDE DEF Is
  <2> QED
    BY <1>6
<1> HIDE DEF f
<1>8. \A n \in 0 .. L : f[n] = IF n = 0 THEN Receiving ELSE Conc!ProcessPackage(f[n - 1])
  BY <1>7
<1> DEFINE S == {k \in 0 .. L : f[k] \in T}
<1>9. 0 \in S
  <2>1. 0 \in 0 .. L
    BY <1>2
  <2> QED
    BY <1>8, <2>1
<1>10. ASSUME NEW k \in 0 .. L - 1, k \in S PROVE k + 1 \in S
  <2>1. k + 1 \in 0 .. L /\ k + 1 # 0 /\ (k + 1) - 1 = k
    BY <1>2
  <2>2. f[k + 1] = Conc!ProcessPackage(f[k])
    BY <1>8, <2>1
  <2>3. f[k] \in T
    BY <1>10
  <2> QED
    BY <2>1, <2>2, <2>3
<1>11. L \in S
  <2> HIDE DEF S
  <2> QED
    BY <1>2, <1>9, <1>10, UpTo
<1> QED
  BY <1>1, <1>11

(* The loop keeps the types, ... *)
LEMMA ProcessedTyped ==
  ASSUME PackageSizes, Receiving \in Receiver PROVE Conc!ProcessReceivedBytes \in Receiver
<1>1. rbuf \in Seq(Unit)
  BY DEF Receiver, Receiving
<1>2. \A r \in Receiver : Conc!ProcessPackage(r) \in Receiver
  BY TurnTyped
<1> QED
  BY <1>1, <1>2, Processed, Zenon

(* ... and leaves what it does not read. *)
LEMMA ProcessedCut ==
  ASSUME PackageSizes, IsMessage(packages), got \in Seq(Seq(Unit)), stream \in Seq(Unit),
         NEW u, Units(u, packages), NEW w, WordsOf(w, packages),
         Receiving \in Receiver, NEW n \in Nat, Cut(Receiving, u, w, n)
  PROVE \E k \in Nat : Cut(Conc!ProcessReceivedBytes, u, w, k)
<1> DEFINE T == {r \in Receiver : \E k \in Nat : Cut(r, u, w, k)}
<1>1. rbuf \in Seq(Unit)
  BY DEF Receiver, Receiving
<1>2. Receiving \in T
  OBVIOUS
<1>3. ASSUME NEW r \in T PROVE Conc!ProcessPackage(r) \in T
  <2>1. r \in Receiver
    OBVIOUS
  <2>2. PICK k \in Nat : Cut(r, u, w, k)
    OBVIOUS
  <2>3. Conc!ProcessPackage(r) \in Receiver
    BY <2>1, TurnTyped
  <2>4. \E i \in Nat : Cut(Conc!ProcessPackage(r), u, w, i)
    BY <2>1, <2>2, TurnCut
  <2> QED
    BY <2>3, <2>4
<1> HIDE DEF T
<1>4. Conc!ProcessReceivedBytes \in T
  BY <1>1, <1>2, <1>3, Processed, Zenon
<1> QED
  BY <1>4 DEF T

-----------------------------------------------------------------------------
(* Transfers to the IOP *)

(* An empty buffer stays as it is. *)
LEMMA NothingRead ==
  ASSUME Receiving \in Receiver, rbuf = <<>> PROVE Conc!ProcessReceivedBytes = Receiving
<1> DEFINE T == {Receiving}
<1>1. rbuf \in Seq(Unit) /\ Receiving.buf = rbuf
  BY DEF Receiver, Receiving
<1>2. Waiting(Receiving)
  BY <1>1 DEF Waiting
<1>3. \A r \in T : Conc!ProcessPackage(r) \in T
  BY <1>2, Turn
<1>4. Receiving \in T
  OBVIOUS
<1>5. Conc!ProcessReceivedBytes \in T
  <2> HIDE DEF T
  <2> QED
    BY <1>1, <1>3, <1>4, Processed, Zenon
<1> QED
  BY <1>5

(* When the IOP has got everything, there is nothing to read. *)
LEMMA AllRead ==
  ASSUME Receiving \in Receiver, stream \in Seq(Unit), IsMessage(packages),
         NEW u, Units(u, packages), NEW w, WordsOf(w, packages), NEW n \in Nat,
         Cut(Receiving, u, w, n), Len(got) = Len(packages)
  PROVE /\ n = 0 /\ rbuf = <<>> /\ stream = <<>> /\ rcv.state = "lcpLength" /\ rcv.data = <<>>
        /\ Conc!ProcessReceivedBytes = Receiving
<1>1. Len(packages) \in Nat
  BY DEF IsMessage
<1>2. n = 0
  BY <1>1 DEF Cut
<1>3. /\ Receiving.state = rcv.state /\ Receiving.buf = rbuf /\ Receiving.data = rcv.data
      /\ rbuf \in Seq(Unit) /\ rcv.data \in Seq(Unit)
      /\ rcv.state \in {"lcpLength", "lcp", "segLength", "seg"}
  BY DEF Receiving, Receiver
<1>4. rcv.state = "lcpLength"
  BY <1>2, <1>3 DEF Cut
<1>5. rbuf \o stream = <<>>
  BY <1>2, <1>3, <1>4 DEF Cut, Units
<1>6. rbuf = <<>> /\ stream = <<>>
  BY <1>3, <1>5, ConcatSimplifications, Zenon
<1>7. rcv.data \o <<>> = <<>>
  <2>1. Len(packages) - Len(got) = 0
    BY <1>1
  <2> QED
    BY <1>2, <1>3, <2>1 DEF Cut, WordsOf
<1>8. rcv.data = <<>>
  <2>1. <<>> \in Seq(Unit)
    OBVIOUS
  <2> QED
    BY <1>3, <1>7, <2>1, ConcatSimplifications, Zenon
<1> QED
  BY <1>2, <1>4, <1>6, <1>8, NothingRead

(* The types, and a transfer of an LCP, which the IOP waits for. *)
LEMMA InputTyped ==
  ASSUME PackageSizes, ConcTypes, Between, NEW r, r = Conc!ProcessReceivedBytes,
         NEW n \in 0 .. Len(r.data), NEW ends \in BOOLEAN,
         input.active \/ n = 0, n = 0 => ~ends,
         rbuf' = r.buf, subsegs' = r.subsegs, segSize' = r.size,
         rcv' = [state |-> r.state, pdu |-> r.pdu, code |-> r.code,
                 data |-> Conc!Rest(r.data, n)],
         input' = [active |-> input.active /\ ~ends, left |-> input.left - n,
                   done |-> input.done \/ ends],
         IF ends THEN got' = Append(got, current \o SubSeq(r.data, 1, n)) /\ current' = <<>>
                 ELSE current' = current \o SubSeq(r.data, 1, n) /\ got' = got,
         concConn' = concConn, stream' = stream, packages' = packages, xmt' = xmt,
         output' = output, concGuest' = concGuest, garbled' = garbled, msgs' = msgs
  PROVE ConcTypes' /\ Between' /\ r \in Receiver
<1>a. /\ Receiving \in Receiver /\ current \in Seq(Unit) /\ got \in Seq(Seq(Unit))
      /\ input \in [active : BOOLEAN, done : BOOLEAN, left : Int]
  BY DEF ConcTypes
<1>1. r \in Receiver
  BY <1>a, ProcessedTyped
<1>2. /\ r.state \in {"lcpLength", "lcp", "segLength", "seg"} /\ r.pdu \in Nat
      /\ r.code \in {"none", "data", "logon", "start"} /\ r.data \in Seq(Unit)
      /\ r.buf \in Seq(Unit) /\ r.subsegs \in Int /\ r.size \in Nat
  BY <1>1 DEF Receiver
<1>3. /\ SubSeq(r.data, 1, n) \in Seq(Unit) /\ Len(SubSeq(r.data, 1, n)) = n
      /\ Conc!Rest(r.data, n) \in Seq(Unit)
  BY <1>2, Halves
<1> DEFINE words == current \o SubSeq(r.data, 1, n)
<1>4. words \in Seq(Unit) /\ Len(words) = Len(current) + n
  BY <1>a, <1>3, Lengthened
<1> HIDE DEF words
<1>5. current' \in Seq(Unit) /\ got' \in Seq(Seq(Unit)) /\ (~ends => current' = words)
  <2>1. Append(got, words) \in Seq(Seq(Unit))
    BY <1>a, <1>4, AppendProperties, Zenon
  <2>2. <<>> \in Seq(Unit)
    OBVIOUS
  <2> QED
    BY <1>a, <1>4, <2>1, <2>2 DEF words
<1>6. Receiving' \in Receiver
  <2>1. Receiving' = [state |-> r.state, pdu |-> r.pdu, code |-> r.code,
                      data |-> Conc!Rest(r.data, n), buf |-> r.buf, subsegs |-> r.subsegs,
                      size |-> r.size]
    BY DEF Receiving
  <2> QED
    BY <1>2, <1>3, <2>1 DEF Receiver
<1>7. input' \in [active : BOOLEAN, done : BOOLEAN, left : Int]
  <2>1. input.left - n \in Int /\ (input.active /\ ~ends) \in BOOLEAN
        /\ (input.done \/ ends) \in BOOLEAN
    BY <1>a, <1>2
  <2> QED
    BY <2>1
<1>8. /\ rcv' = [state |-> rcv'.state, pdu |-> rcv'.pdu, code |-> rcv'.code, data |-> rcv'.data]
      /\ input'.active = (input.active /\ ~ends) /\ input'.done = (input.done \/ ends)
      /\ input'.left = input.left - n
  OBVIOUS
<1>9. ConcTypes'
  BY <1>5, <1>6, <1>7, <1>8 DEF ConcTypes
<1>10. ASSUME concGuest.at = "await"
       PROVE /\ output = Conc!Idle /\ input'.active = ~input'.done
             /\ input'.active => input'.left + Len(current') = LcpWords
  <2>1. /\ output = Conc!Idle /\ input.active = ~input.done
        /\ input.active => input.left + Len(current) = LcpWords
    BY <1>10 DEF Between
  <2>2. input.active \in BOOLEAN /\ input.done \in BOOLEAN /\ input.left \in Int
    BY <1>a
  <2>3. input'.active = ~input'.done
    BY <1>8, <2>1, <2>2
  <2>4. ASSUME input'.active PROVE input'.left + Len(current') = LcpWords
    <3>1. ~ends /\ input.active
      BY <1>8, <2>4
    <3>2. Len(current') = Len(current) + n /\ Len(current) \in Nat /\ n \in Nat
      BY <1>a, <1>2, <1>4, <1>5, <3>1
    <3> QED
      BY <1>8, <2>1, <2>2, <3>1, <3>2
  <2> QED
    BY <2>1, <2>3, <2>4
<1>11. IF input'.active THEN ~input'.done /\ concGuest.at \notin {"reply", "write"}
       ELSE current' = <<>>
  <2>1. /\ input.active \in BOOLEAN /\ input.done \in BOOLEAN
        /\ IF input.active THEN ~input.done /\ concGuest.at \notin {"reply", "write"}
           ELSE current = <<>>
    BY <1>a DEF Between
  <2>2. CASE input.active
    BY <1>8, <2>1, <2>2
  <2>3. CASE ~input.active
    <3>1. n = 0 /\ ~ends
      BY <2>3
    <3>2. words = <<>>
      <4>1. <<>> \in Seq(Unit) /\ SubSeq(r.data, 1, 0) = <<>>
        BY SubSeqEmpty
      <4> QED
        BY <2>1, <2>3, <3>1, <4>1, ConcatEmptySeq, Zenon DEF words
    <3> QED
      BY <1>5, <1>8, <2>3, <3>1, <3>2
  <2> QED
    BY <2>1, <2>2, <2>3
<1>12. Between'
  BY <1>10, <1>11 DEF Between
<1> QED
  BY <1>1, <1>9, <1>12

(* The loop of Tick moves n words and ends the transfer or not. *)
Moves(r, n, ends) ==
  /\ n \in 0 .. Len(r.data) /\ ends \in BOOLEAN /\ (ends <=> n > 0 /\ Conc!EndsWith(r, n))
  /\ n = Len(r.data) \/ ends
  /\ \A i \in 1 .. n - 1 : ~Conc!EndsWith(r, i)

(* The transfer has the size of an LCP or of a segment. *)
Asks(k) ==
  k < Len(packages) - Len(got) =>
    IF got = <<>> THEN input.left = LcpWords ELSE input.left = SegWords

(* When the IOP waits for a package, a package that has been read is moved *)
(* as a whole and ends the transfer, and otherwise nothing is moved.       *)
LEMMA PackageMoved ==
  ASSUME PackageSizes, IsMessage(packages), got \in Seq(Seq(Unit)), NEW w, WordsOf(w, packages),
         NEW r \in Receiver, NEW u, NEW k \in Nat, Cut(r, u, w, k),
         input.left \in Int, Asks(k), NEW n, NEW ends, Moves(r, n, ends)
  PROVE IF k < Len(packages) - Len(got)
        THEN /\ ends /\ SubSeq(r.data, 1, n) = packages[Len(got) + 1]
             /\ Conc!Rest(r.data, n) \o w[k] = w[Len(packages) - (Len(got) + 1)]
        ELSE n = 0 /\ r.data = <<>>
<1> DEFINE N == Len(packages)
           g == Len(got)
           m == N - g
<1>m. /\ n \in 0 .. Len(r.data) /\ ends \in BOOLEAN
      /\ (ends <=> n > 0 /\ Conc!EndsWith(r, n)) /\ (n = Len(r.data) \/ ends)
      /\ \A i \in 1 .. n - 1 : ~Conc!EndsWith(r, i)
  BY DEF Moves
<1>n. k < Len(packages) - Len(got) =>
        IF got = <<>> THEN input.left = LcpWords ELSE input.left = SegWords
  BY DEF Asks
<1>a. N \in Nat /\ g \in Nat /\ packages \in Seq(Seq(Unit)) /\ k \in 0 .. m /\ m \in 0 .. N
  <2>1. packages \in Seq(Seq(Unit)) /\ k \in 0 .. Len(packages) - Len(got)
    BY DEF IsMessage, Cut
  <2>2. Len(packages) \in Nat /\ Len(got) \in Nat
    BY <2>1
  <2> QED
    BY <2>1, <2>2
<1>b. r.data \in Seq(Unit) /\ r.data \o w[k] = w[m]
  <2>1. r.data \in Seq(Unit)
    BY DEF Receiver
  <2>2. r.data \o w[k] = w[Len(packages) - Len(got)]
    BY DEF Cut
  <2> QED
    BY <2>1, <2>2
<1>c. w \in [0 .. N -> Seq(Unit)] /\ w[0] = <<>>
  BY DEF WordsOf
<1>d. w[k] \in Seq(Unit) /\ Len(r.data) \in Nat /\ n \in Nat
  <2>1. k \in 0 .. N
    BY <1>a
  <2>2. w[k] \in Seq(Unit)
    BY <1>c, <2>1
  <2>3. Len(r.data) \in Nat
    BY <1>b
  <2> QED
    BY <1>m, <2>2, <2>3
<1>1. CASE ~(k < m)
  <2>1. k = m
    BY <1>a, <1>1
  <2>2. r.data \o w[k] = w[k]
    BY <1>b, <2>1
  <2>3. r.data = <<>>
    BY <1>b, <1>d, <2>2, ConcatSimplifications, Zenon
  <2>4. n = 0
    BY <1>m, <2>3
  <2> QED
    BY <1>1, <2>3, <2>4
<1>2. CASE k < m
  <2> DEFINE P == FromEnd(packages, m)
             v == w[m - 1]
  <2>1. m \in 1 .. N /\ m - 1 \in 0 .. N /\ k \in 0 .. N /\ m - 1 \in k .. N /\ N + 1 - m = g + 1
        /\ N - (g + 1) = m - 1
    BY <1>a, <1>2
  <2>2. /\ P \in Seq(Unit) /\ Len(P) \in Nat /\ Len(P) > 0 /\ P = packages[g + 1]
        /\ m = N => Len(P) = LcpWords
        /\ 1 < m /\ m < N => Len(P) = SegWords
        /\ m < N => Len(P) <= SegWords
    <3>1. /\ P \in Seq(Unit) /\ Len(P) \in Nat /\ Len(P) > 0
          /\ m = N => Len(P) = LcpWords
          /\ 1 < m /\ m < N => Len(P) = SegWords
          /\ m < N => Len(P) <= SegWords
      BY <2>1, MessageParts
    <3>2. P = packages[N + 1 - m]
      BY DEF FromEnd
    <3> QED
      BY <2>1, <3>1, <3>2
  <2>3. v \in Seq(Unit) /\ w[m] = P \o v /\ Len(w[k]) <= Len(v)
    <3>1. v \in Seq(Unit)
      BY <1>c, <2>1
    <3>2. w[m] = P \o v
      BY <2>1 DEF WordsOf
    <3>3. Len(w[k]) <= Len(v)
      BY <1>a, <2>1, WordsGrow
    <3> QED
      BY <3>1, <3>2, <3>3
  <2> HIDE DEF P, v
  <2>a. r.data \o w[k] = P \o v
    BY <1>b, <2>3
  <2>4. Len(P) <= Len(r.data)
    <3>1. Len(r.data \o w[k]) = Len(r.data) + Len(w[k]) /\ Len(P \o v) = Len(P) + Len(v)
      BY <1>b, <1>d, <2>2, <2>3, Lengthened
    <3>2. Len(w[k]) \in Nat /\ Len(v) \in Nat
      BY <1>d, <2>3
    <3>3. Len(r.data \o w[k]) = Len(P \o v)
      BY <2>a, Zenon
    <3>4. Len(r.data) + Len(w[k]) = Len(P) + Len(v)
      BY <3>1, <3>3, Zenon
    <3>5. Len(P) \in Nat /\ Len(r.data) \in Nat /\ Len(w[k]) <= Len(v)
      BY <1>d, <2>2, <2>3, Zenon
    <3>6. ASSUME NEW a \in Nat, NEW b \in Nat, NEW c \in Nat, NEW d \in Nat,
                 a + b = c + d, b <= d
          PROVE c <= a
      BY <3>6
    <3> QED
      BY <3>2, <3>4, <3>5, <3>6, Zenon
  <2>5. SubSeq(r.data, 1, Len(P)) = P /\ Conc!Rest(r.data, Len(P)) \o w[k] = v
    <3>1. r.data \in Seq(Unit) /\ w[k] \in Seq(Unit) /\ P \in Seq(Unit) /\ v \in Seq(Unit)
      BY <1>b, <1>d, <2>2, <2>3
    <3> QED
      BY <2>4, <2>a, <3>1, TakenOff, Zenon
  <2>6. Len(P) <= input.left /\ Conc!EndsWith(r, Len(P))
    <3>1. CASE g = 0
      <4>1. got = <<>>
        BY <3>1
      <4>2. m = N
        BY <1>a, <3>1
      <4>3. input.left = Len(P)
        BY <1>2, <1>n, <2>2, <4>1, <4>2
      <4> QED
        BY <2>2, <4>3 DEF Conc!EndsWith
    <3>2. CASE g > 0
      <4>1. got # <<>> /\ m < N
        BY <1>a, <3>2
      <4>2. input.left = SegWords /\ Len(P) <= SegWords
        BY <1>2, <1>n, <2>2, <4>1
      <4>3. CASE 1 < m
        <5>1. input.left = Len(P)
          BY <2>2, <4>1, <4>2, <4>3
        <5> QED
          BY <2>2, <5>1 DEF Conc!EndsWith
      <4>4. CASE ~(1 < m)
        <5>1. k = 0 /\ m - 1 = 0
          BY <1>a, <1>2, <4>4
        <5>2. r.state = "lcpLength"
          <6>1. r.state \in {"lcpLength", "lcp", "segLength", "seg"}
            BY DEF Receiver
          <6> QED
            BY <5>1, <6>1 DEF Cut
        <5>3. Conc!Rest(r.data, Len(P)) \o <<>> = <<>>
          BY <1>c, <2>5, <5>1 DEF v
        <5>4. Conc!Rest(r.data, Len(P)) \in Seq(Unit) /\ <<>> \in Seq(Unit)
          <6>1. Len(P) \in 0 .. Len(r.data)
            BY <1>d, <2>2, <2>4
          <6> QED
            BY <1>b, <6>1, Halves
        <5>5. Conc!Rest(r.data, Len(P)) = <<>>
          BY <5>3, <5>4, ConcatSimplifications, Zenon
        <5>6. Conc!EndsWith(r, Len(P))
          BY <5>2, <5>5 DEF Conc!EndsWith, Conc!IsReceptionComplete
        <5> QED
          BY <4>2, <5>6
      <4> QED
        BY <4>3, <4>4
    <3> QED
      BY <1>a, <3>1, <3>2
  <2>7. ASSUME NEW i \in 1 .. Len(P) - 1 PROVE ~Conc!EndsWith(r, i)
    <3>1. i # input.left /\ i \in 0 .. Len(r.data) /\ Len(r.data) - i > 0
      <4>1. ASSUME NEW a \in Nat, NEW b \in Nat, NEW c \in Int, NEW j \in 1 .. a - 1,
                   a <= b, a <= c
            PROVE j # c /\ j \in 0 .. b /\ b - j > 0
        BY <4>1
      <4>2. Len(P) \in Nat /\ Len(r.data) \in Nat
        BY <1>d, <2>2, Zenon
      <4>3. Len(P) <= Len(r.data) /\ Len(P) <= input.left
        BY <2>4, <2>6, Zenon
      <4> QED
        BY <4>1, <4>2, <4>3, Zenon
    <3>2. Len(Conc!Rest(r.data, i)) = Len(r.data) - i
      <4>1. r.data \in Seq(Unit) /\ i \in 0 .. Len(r.data)
        BY <1>b, <3>1, Zenon
      <4> QED
        BY <4>1, Halves, Zenon
    <3>3. Conc!Rest(r.data, i) # <<>>
      <4>1. Len(Conc!Rest(r.data, i)) # 0
        BY <3>1, <3>2
      <4>2. Len(<<>>) = 0
        OBVIOUS
      <4> QED
        BY <4>1, <4>2, Zenon
    <3> QED
      BY <3>1, <3>3 DEF Conc!EndsWith, Conc!IsReceptionComplete
  <2>8. n = Len(P)
    <3>1. CASE n > Len(P)
      <4>1. Len(P) \in 1 .. n - 1
        BY <1>d, <2>2, <3>1
      <4> QED
        BY <1>m, <2>6, <4>1
    <3>2. CASE n < Len(P)
      <4>1. n # Len(r.data)
        BY <1>d, <2>2, <2>4, <3>2
      <4>2. n > 0 /\ Conc!EndsWith(r, n)
        BY <1>m, <4>1
      <4>3. n \in 1 .. Len(P) - 1
        BY <1>d, <2>2, <3>2, <4>2
      <4> QED
        BY <2>7, <4>2, <4>3
    <3> QED
      BY <1>d, <2>2, <3>1, <3>2
  <2>9. ends
    BY <1>m, <2>2, <2>6, <2>8
  <2>10. SubSeq(r.data, 1, n) = packages[g + 1] /\ Conc!Rest(r.data, n) \o w[k] = w[N - (g + 1)]
    <3>1. SubSeq(r.data, 1, n) = P /\ Conc!Rest(r.data, n) \o w[k] = v
      BY <2>5, <2>8
    <3> QED
      BY <2>1, <2>2, <3>1 DEF v
  <2> QED
    BY <1>2, <2>9, <2>10
<1> QED
  BY <1>1, <1>2

(* What the programs depend on *)
LEMMA ProgramsSame ==
  ASSUME Programs, xmt' = xmt, down' = down, packages' = packages, concGuest' = concGuest,
         output' = output, fromCray' = fromCray, got' = got,
         input'.active = input.active, input'.done = input.done, input'.left = input.left,
         AllGot => subsegs' = subsegs
  PROVE Programs'
<1>1. \A todo, n : ReplyOf(todo, n)' = ReplyOf(todo, n)
  BY DEF ReplyOf
<1>2. AllGot' = AllGot /\ Fresh' = Fresh /\ Asked' = Asked
  BY DEF AllGot, Fresh, Asked
<1>3. Awaits => Awaits'
  BY <1>1, <1>2 DEF Awaits
<1>4. Reading => Reading'
  BY <1>2 DEF Reading
<1>5. LcpWritten => LcpWritten'
  BY <1>2 DEF LcpWritten
<1>6. SegmentWritten => SegmentWritten'
  <2> SUFFICES ASSUME SegmentWritten PROVE SegmentWritten'
    OBVIOUS
  <2>1. PICK n \in 0 .. SegWords - 1 :
          /\ AllGot /\ ReplyOf(subsegs, n) /\ subsegs > 0
          /\ fromCray \in Seq([code : {"none"}, segs : Nat]) /\ Len(fromCray) > 0
          /\ xmt.code = concGuest.code
          /\ IF n = 0 THEN xmt.state = "segStart"
             ELSE xmt.state = "seg" /\ xmt.words = n /\ concGuest.code # "start"
          /\ IF concGuest.code = "start" \/ n + Len(fromCray) = SegWords
             THEN concGuest.words = 0 /\ concGuest.todo = subsegs - 1
             ELSE /\ concGuest.words = n + Len(fromCray) /\ concGuest.words < SegWords
                  /\ concGuest.todo = subsegs
    BY DEF SegmentWritten
  <2>2. subsegs' = subsegs
    BY <2>1
  <2>3. ReplyOf(subsegs, n)'
    <3>1. ReplyOf(subsegs, n)' <=> ReplyOf(subsegs, n)
      BY <2>2 DEF ReplyOf
    <3> QED
      BY <2>1, <3>1
  <2> QED
    BY <1>2, <2>1, <2>2, <2>3 DEF SegmentWritten
<1>7. Transmitted => Transmitted'
  <2> SUFFICES ASSUME Transmitted PROVE Transmitted'
    OBVIOUS
  <2>1. AllGot /\ subsegs' = subsegs
    BY DEF Transmitted
  <2>2. ReplyOf(concGuest.todo, concGuest.words)' <=> ReplyOf(concGuest.todo, concGuest.words)
    BY DEF ReplyOf
  <2> QED
    BY <1>2, <2>1, <2>2 DEF Transmitted
<1>8. Replying => Replying'
  BY <1>2, <1>5, <1>6, <1>7 DEF Replying
<1> QED
  BY <1>2, <1>3, <1>4, <1>8 DEF Programs

(* The IOP waits only for a package that is still to come. *)
LEMMA Expecting ==
  ASSUME PackageSizes, ConcTypes, Between, Connected, input.active
  PROVE /\ concGuest.at \in {"await", "read"} /\ ~input.done
        /\ concGuest.at = "await" <=> got = <<>> \/ Len(got) = Len(packages)
        /\ IF concGuest.at = "await" THEN input.left = LcpWords ELSE input.left = SegWords
<1>1. concGuest.at \in {"await", "read", "reply", "write"} /\ Programs /\ current = <<>>
  BY DEF ConcTypes, Connected
<1>2. concGuest.at \in {"await", "read"}
  BY <1>1 DEF Programs, Replying
<1>3. input.left \in Int
  BY DEF ConcTypes
<1>4. CASE concGuest.at = "await"
  <2>1. ~input.done
    <3>1. input.active \in BOOLEAN /\ input.done \in BOOLEAN
      BY DEF ConcTypes
    <3> QED
      BY <1>4, <3>1 DEF Between
  <2>2. input.left = LcpWords
    <3>1. input.left + Len(current) = LcpWords /\ Len(current) = 0
      BY <1>1, <1>4 DEF Between
    <3> QED
      BY <1>3, <3>1
  <2>3. got = <<>> \/ Len(got) = Len(packages)
    BY <1>1, <1>4, <2>1 DEF Programs, Awaits, AllGot
  <2> QED
    BY <1>4, <2>1, <2>2, <2>3
<1>5. CASE concGuest.at = "read"
  <2>1. Reading
    BY <1>1, <1>5 DEF Programs
  <2>2. ~input.done /\ got # <<>> /\ input.left = SegWords
    BY <2>1 DEF Reading
  <2>3. Len(got) # Len(packages)
    <3>1. Len(packages) - Len(got) > 0
      BY <2>1, <2>2 DEF Reading
    <3>2. Len(packages) \in Nat
      BY DEF ConcTypes, IsMessage
    <3> QED
      BY <3>1, <3>2
  <2> QED
    BY <1>5, <2>2, <2>3
<1> QED
  BY <1>2, <1>4, <1>5

(* A sequence with one more element *)
LEMMA Appended1 ==
  ASSUME NEW S, NEW s \in Seq(S), NEW x \in S
  PROVE /\ Append(s, x) # <<>> /\ Len(Append(s, x)) = Len(s) + 1
        /\ \A p \in 1 .. Len(s) : Append(s, x)[p] = s[p]
        /\ Append(s, x)[Len(s) + 1] = x
OBVIOUS

(* Tick of the input channel keeps the invariant. *)
LEMMA InputStep == ASSUME PackageSizes, ConcInv, Conc!InputTick PROVE ConcInv'
<1>a. ConcTypes /\ Between
  BY DEF ConcInv
<1>1. /\ ~garbled
      /\ concConn' = concConn /\ stream' = stream /\ packages' = packages /\ xmt' = xmt
      /\ output' = output /\ concGuest' = concGuest /\ garbled' = garbled /\ msgs' = msgs
      /\ down' = down /\ fromCray' = fromCray
  BY DEF Conc!InputTick, Conc!network, Conc!bounds
<1>m. PICK r \in {Conc!ProcessReceivedBytes} : \E n \in 0 .. Len(r.data) :
        \E ends \in {n > 0 /\ Conc!EndsWith(r, n)} :
          /\ IF input.active
             THEN (n = Len(r.data) \/ ends) /\ \A k \in 1 .. n - 1 : ~Conc!EndsWith(r, k)
             ELSE n = 0
          /\ rbuf' = r.buf /\ subsegs' = r.subsegs /\ segSize' = r.size
          /\ rcv' = [state |-> r.state, pdu |-> r.pdu, code |-> r.code,
                   data |-> Conc!Rest(r.data, n)]
          /\ input' = [active |-> input.active /\ ~ends, left |-> input.left - n,
                     done |-> input.done \/ ends]
          /\ \E words \in {current \o SubSeq(r.data, 1, n)} :
             IF ends THEN got' = Append(got, words) /\ current' = <<>>
                       ELSE current' = words /\ UNCHANGED got
  BY Zenon DEF Conc!InputTick
<1>r. r = Conc!ProcessReceivedBytes
  OBVIOUS
<1>n. PICK n \in 0 .. Len(r.data) : \E ends \in {n > 0 /\ Conc!EndsWith(r, n)} :
        /\ IF input.active
           THEN (n = Len(r.data) \/ ends) /\ \A k \in 1 .. n - 1 : ~Conc!EndsWith(r, k)
           ELSE n = 0
        /\ rbuf' = r.buf /\ subsegs' = r.subsegs /\ segSize' = r.size
        /\ rcv' = [state |-> r.state, pdu |-> r.pdu, code |-> r.code,
                   data |-> Conc!Rest(r.data, n)]
        /\ input' = [active |-> input.active /\ ~ends, left |-> input.left - n,
                     done |-> input.done \/ ends]
        /\ \E words \in {current \o SubSeq(r.data, 1, n)} :
             IF ends THEN got' = Append(got, words) /\ current' = <<>>
                     ELSE current' = words /\ UNCHANGED got
  BY <1>m, Zenon
<1>2. PICK ends \in {n > 0 /\ Conc!EndsWith(r, n)} :
        /\ IF input.active
           THEN (n = Len(r.data) \/ ends) /\ \A k \in 1 .. n - 1 : ~Conc!EndsWith(r, k)
           ELSE n = 0
        /\ rbuf' = r.buf /\ subsegs' = r.subsegs /\ segSize' = r.size
        /\ rcv' = [state |-> r.state, pdu |-> r.pdu, code |-> r.code,
                   data |-> Conc!Rest(r.data, n)]
        /\ input' = [active |-> input.active /\ ~ends, left |-> input.left - n,
                     done |-> input.done \/ ends]
        /\ \E words \in {current \o SubSeq(r.data, 1, n)} :
             IF ends THEN got' = Append(got, words) /\ current' = <<>>
                     ELSE current' = words /\ UNCHANGED got
  BY <1>n, Zenon
<1>3. ends \in BOOLEAN /\ (ends <=> n > 0 /\ Conc!EndsWith(r, n))
  BY <1>2
<1>4. IF ends THEN got' = Append(got, current \o SubSeq(r.data, 1, n)) /\ current' = <<>>
              ELSE current' = current \o SubSeq(r.data, 1, n) /\ got' = got
  BY <1>2
<1>5. (input.active \/ n = 0) /\ (n = 0 => ~ends)
  BY <1>2, <1>3
<1>6. ConcTypes' /\ Between' /\ r \in Receiver
  BY <1>a, <1>1, <1>2, <1>3, <1>4, <1>5, <1>r, InputTyped
<1> SUFFICES ASSUME concConn # "none" PROVE Connected'
  BY <1>1, <1>6 DEF ConcInv
<1>b. Connected
  BY <1>1 DEF ConcInv
<1>c. /\ Receiving \in Receiver /\ got \in Seq(Seq(Unit)) /\ IsMessage(packages)
      /\ stream \in Seq(Unit) /\ input.left \in Int /\ input.active \in BOOLEAN
      /\ input.done \in BOOLEAN
  BY <1>a DEF ConcTypes
<1>d. /\ current = <<>> /\ Programs
      /\ \A p \in 1 .. Len(got) : got[p] = packages[p]
  BY <1>b DEF Connected
<1>7. PICK u, w : /\ Units(u, packages) /\ WordsOf(w, packages)
                  /\ \E k \in Nat : Cut(Receiving, u, w, k)
  BY <1>b DEF Connected
<1>8. PICK k0 \in Nat : Cut(Receiving, u, w, k0)
  BY <1>7
<1>9. PICK k \in Nat : Cut(r, u, w, k)
  BY <1>c, <1>7, <1>8, <1>r, ProcessedCut
<1>10. /\ r.data \in Seq(Unit) /\ n \in Nat
       /\ Receiving'.state = r.state /\ Receiving'.pdu = r.pdu /\ Receiving'.code = r.code
       /\ Receiving'.buf = r.buf /\ Receiving'.subsegs = r.subsegs /\ Receiving'.size = r.size
       /\ Receiving'.data = Conc!Rest(r.data, n)
  <2>1. r.data \in Seq(Unit)
    BY <1>6 DEF Receiver
  <2> QED
    BY <1>2, <2>1 DEF Receiving
<1>11. ASSUME NEW d, d = Receiving'.data, d \o w[k] = w[Len(packages) - Len(got')],
              k \in 0 .. Len(packages) - Len(got')
       PROVE \E i \in Nat : Cut(Receiving, u, w, i)'
  <2>1. Cut(Receiving, u, w, k)'
    BY <1>1, <1>9, <1>10, <1>11 DEF Cut
  <2> QED
    BY <2>1
<1>12. Units(u, packages)' /\ WordsOf(w, packages)'
  BY <1>1, <1>7 DEF Units, WordsOf, FromEnd
<1>13. SubSeq(r.data, 1, n) \in Seq(Unit) /\ current \o SubSeq(r.data, 1, n) = SubSeq(r.data, 1, n)
  <2>1. SubSeq(r.data, 1, n) \in Seq(Unit)
    BY <1>2, <1>10, Halves
  <2> QED
    BY <1>d, <2>1, ConcatEmptySeq, Zenon
<1>14. CASE n = 0
  <2>1. ~ends
    BY <1>5, <1>14
  <2>2. SubSeq(r.data, 1, 0) = <<>>
    BY SubSeqEmpty
  <2>3. current' = <<>> /\ got' = got
    BY <1>4, <1>13, <1>14, <2>1, <2>2
  <2>4. Conc!Rest(r.data, 0) = r.data
    <3>1. 0 + 1 = 1
      OBVIOUS
    <3> QED
      BY <1>10, <3>1, SubSeqFull, Zenon DEF Conc!Rest
  <2>5. \E i \in Nat : Cut(Receiving, u, w, i)'
    <3>1. /\ k \in 0 .. Len(packages) - Len(got)
          /\ r.data \o w[k] = w[Len(packages) - Len(got)]
      BY <1>9 DEF Cut
    <3>2. Receiving'.data = r.data
      BY <1>10, <1>14, <2>4
    <3> QED
      BY <1>11, <2>3, <3>1, <3>2
  <2>6. /\ input'.active = input.active /\ input'.done = input.done
        /\ input'.left = input.left
    <3>1. /\ input'.active = (input.active /\ ~ends) /\ input'.done = (input.done \/ ends)
          /\ input'.left = input.left - n
      BY <1>2
    <3> QED
      BY <1>c, <1>3, <1>14, <2>1, <3>1
  <2>7. AllGot => subsegs' = subsegs
    <3> SUFFICES ASSUME AllGot PROVE subsegs' = subsegs
      OBVIOUS
    <3>1. r = Receiving
      BY <1>c, <1>7, <1>8, <1>r, AllRead DEF AllGot
    <3> QED
      BY <1>2, <3>1 DEF Receiving
  <2>8. Programs'
    BY <1>1, <1>d, <2>3, <2>6, <2>7, ProgramsSame
  <2> QED
    BY <1>1, <1>d, <1>12, <2>3, <2>5, <2>8 DEF Connected
<1>15. CASE n # 0
  <2>1. input.active /\ (n = Len(r.data) \/ ends) /\ \A i \in 1 .. n - 1 : ~Conc!EndsWith(r, i)
    BY <1>2, <1>15
  <2>2. /\ concGuest.at \in {"await", "read"} /\ ~input.done
        /\ concGuest.at = "await" <=> got = <<>> \/ Len(got) = Len(packages)
        /\ IF concGuest.at = "await" THEN input.left = LcpWords ELSE input.left = SegWords
    BY <1>a, <1>b, <2>1, Expecting
  <2>3. Len(packages) \in Nat /\ Len(got) \in Nat /\ Len(<<>>) = 0
    BY <1>c DEF IsMessage
  <2>4. k < Len(packages) - Len(got) =>
          IF got = <<>> THEN input.left = LcpWords ELSE input.left = SegWords
    BY <2>2, <2>3
  <2>5. IF k < Len(packages) - Len(got)
        THEN /\ ends /\ SubSeq(r.data, 1, n) = packages[Len(got) + 1]
             /\ Conc!Rest(r.data, n) \o w[k] = w[Len(packages) - (Len(got) + 1)]
        ELSE n = 0 /\ r.data = <<>>
    <3>1. /\ IsMessage(packages) /\ got \in Seq(Seq(Unit)) /\ WordsOf(w, packages)
          /\ r \in Receiver /\ Cut(r, u, w, k) /\ input.left \in Int
      BY <1>c, <1>6, <1>7, <1>9
    <3>2. Moves(r, n, ends)
      BY <1>3, <2>1 DEF Moves
    <3>3. Asks(k)
      BY <2>4 DEF Asks
    <3> QED
      BY <3>1, <3>2, <3>3, PackageMoved, Zenon
  <2>6. /\ k < Len(packages) - Len(got) /\ ends
        /\ SubSeq(r.data, 1, n) = packages[Len(got) + 1]
        /\ Conc!Rest(r.data, n) \o w[k] = w[Len(packages) - (Len(got) + 1)]
    BY <1>15, <2>5
  <2> DEFINE P == packages[Len(got) + 1]
  <2>7. P \in Seq(Unit) /\ got' = Append(got, P) /\ current' = <<>>
    BY <1>4, <1>13, <2>6
  <2> HIDE DEF P
  <2>8. /\ Len(got') = Len(got) + 1 /\ got' # <<>> /\ got'[Len(got) + 1] = P
        /\ \A p \in 1 .. Len(got) : got'[p] = got[p]
    <3>1. got \in Seq(Seq(Unit)) /\ P \in Seq(Unit)
      BY <1>c, <2>7
    <3>2. /\ Append(got, P) # <<>> /\ Len(Append(got, P)) = Len(got) + 1
          /\ \A p \in 1 .. Len(got) : Append(got, P)[p] = got[p]
          /\ Append(got, P)[Len(got) + 1] = P
      BY <3>1, Appended1
    <3> QED
      BY <2>7, <3>2, Zenon
  <2>9. \A p \in 1 .. Len(got') : got'[p] = packages[p]
    <3>1. ASSUME NEW p \in 1 .. Len(got) + 1 PROVE got'[p] = packages[p]
      <4>1. p \in 1 .. Len(got) \/ p = Len(got) + 1
        BY <2>3
      <4> QED
        BY <1>d, <2>8, <4>1 DEF P
    <3> QED
      BY <2>8, <3>1
  <2>10. \E i \in Nat : Cut(Receiving, u, w, i)'
    <3>1. k \in 0 .. Len(packages) - Len(got')
      BY <2>3, <2>6, <2>8
    <3>2. Receiving'.data \o w[k] = w[Len(packages) - Len(got')]
      BY <1>10, <2>6, <2>8
    <3> QED
      BY <1>11, <3>1, <3>2
  <2>11. ~input'.active /\ input'.done
    BY <1>2, <2>6
  <2>12. Programs'
    <3>1. CASE concGuest.at = "await"
      <4>1. got = <<>>
        <5>1. ~(Len(got) = Len(packages))
          BY <2>3, <2>6
        <5> QED
          BY <2>2, <3>1, <5>1
      <4>2. xmt.state = "lcpStart" /\ down = <<>>
        BY <1>d, <2>2, <3>1, <4>1 DEF Programs, Awaits
      <4>3. Len(got') = 1
        BY <2>8, <4>1
      <4>4. Awaits'
        BY <1>1, <2>11, <4>2, <4>3 DEF Awaits
      <4> QED
        BY <1>1, <3>1, <4>4 DEF Programs
    <3>2. CASE concGuest.at = "read"
      <4>1. Reading
        BY <1>d, <3>2 DEF Programs
      <4>2. /\ Fresh /\ output = Conc!Idle /\ concGuest.todo = Len(packages) - Len(got)
        BY <2>2, <4>1 DEF Reading
      <4>3. concGuest.todo = Len(packages) - Len(got') + 1
        BY <2>3, <2>8, <4>2
      <4>4. Reading'
        BY <1>1, <2>8, <2>11, <4>2, <4>3 DEF Reading, Fresh, Conc!Idle
      <4> QED
        BY <1>1, <3>2, <4>4 DEF Programs
    <3> QED
      BY <2>2, <3>1, <3>2
  <2> QED
    BY <1>1, <1>12, <2>7, <2>9, <2>10, <2>12 DEF Connected
<1> QED
  BY <1>14, <1>15

-----------------------------------------------------------------------------
(* The connection *)

(* What the types and a connection depend on *)
LEMMA ConcTypesSame ==
  ASSUME ConcTypes, concConn' \in {"none", "open", "broken"}, garbled' \in BOOLEAN, msgs' \in Nat,
         UNCHANGED <<rcv, rbuf, subsegs, segSize, current, input, xmt, concGuest, got>>,
         stream' \in Seq(Unit), IsMessage(packages')
  PROVE ConcTypes'
<1>1. Receiving' = Receiving
  BY DEF Receiving
<1> QED
  BY <1>1 DEF ConcTypes

(* What a connection depends on *)
LEMMA ConnectedSame ==
  ASSUME ConcTypes, Connected,
         UNCHANGED <<rcv, rbuf, subsegs, segSize, current, input, xmt, concGuest, got, stream,
                     packages, down, output, fromCray>>
  PROVE Connected'
<1>1. Receiving' = Receiving
  BY DEF Receiving
<1>2. PICK u, w : /\ Units(u, packages) /\ WordsOf(w, packages)
                  /\ \E n \in Nat : Cut(Receiving, u, w, n)
  BY DEF Connected
<1>3. PICK n \in Nat : Cut(Receiving, u, w, n)
  BY <1>2
<1>4. Cut(Receiving, u, w, n)'
  BY <1>1, <1>3 DEF Cut
<1>5. Units(u, packages)' /\ WordsOf(w, packages)'
  BY <1>2 DEF Units, WordsOf, FromEnd
<1>6. Programs'
  BY ProgramsSame DEF Connected
<1> QED
  BY <1>4, <1>5, <1>6 DEF Connected

(* No message *)
LEMMA NoMessage == <<>> \in Seq(Unit) /\ IsMessage(<<>>)
BY DEF IsMessage

(* A connection is closed, or there was none. *)
LEMMA Closed ==
  ASSUME ConcInv, concConn' = "none",
         UNCHANGED <<rcv, rbuf, subsegs, segSize, current, input, xmt, concGuest, got, output,
                     garbled, msgs>>,
         \/ stream' = <<>> /\ packages' = <<>>
         \/ concConn = "none" /\ stream' = stream /\ packages' = packages
  PROVE ConcInv'
<1>1. ConcTypes /\ Between
  BY DEF ConcInv
<1>2. stream' \in Seq(Unit) /\ IsMessage(packages')
  BY <1>1, NoMessage DEF ConcTypes
<1>3. ConcTypes'
  BY <1>1, <1>2, ConcTypesSame DEF ConcTypes
<1>4. Between'
  BY <1>1 DEF Between, Conc!Idle
<1> QED
  BY <1>3, <1>4 DEF ConcInv

(* CloseConnSocket keeps the invariant, whoever calls it. *)
LEMMA CloseStep ==
  ASSUME ConcInv, Conc!AcceptFails \/ Conc!ReadFails \/ Conc!FailedHandler PROVE ConcInv'
<1>1. /\ concConn' = "none"
      /\ UNCHANGED <<rcv, rbuf, subsegs, segSize, current, input, xmt, concGuest, got, output,
                     garbled, msgs>>
      /\ \/ stream' = <<>> /\ packages' = <<>>
         \/ concConn = "none" /\ stream' = stream /\ packages' = packages
  BY DEF Conc!AcceptFails, Conc!ReadFails, Conc!FailedHandler, Conc!CloseConnSocket,
         Conc!machine, Conc!channels, Conc!history, Conc!bounds
<1> QED
  BY <1>1, Closed

(* Connect and Disconnect *)
LEMMA PeerStep == ASSUME ConcInv, Conc!Connect \/ Conc!Disconnect PROVE ConcInv'
<1>1. ConcTypes /\ Between
  BY DEF ConcInv
<1>2. /\ UNCHANGED <<rcv, rbuf, subsegs, segSize, current, input, xmt, concGuest, got, stream,
                     packages, down, output, fromCray, garbled, msgs>>
      /\ concConn' = concConn \/ (concConn = "open" /\ concConn' = "broken")
  BY DEF Conc!Connect, Conc!Disconnect,
         Conc!machine, Conc!channels, Conc!history, Conc!bounds
<1>3. ConcTypes'
  BY <1>1, <1>2, ConcTypesSame DEF ConcTypes
<1>4. Between'
  BY <1>1, <1>2 DEF Between, Conc!Idle
<1>5. ~garbled' /\ concConn' # "none" => Connected'
  BY <1>1, <1>2, ConnectedSame DEF ConcInv
<1> QED
  BY <1>3, <1>4, <1>5 DEF ConcInv

(* A part of the stream arrives. *)
LEMMA Arrival ==
  ASSUME NEW n \in 1 .. Len(stream), rbuf \in Seq(Unit), stream \in Seq(Unit)
  PROVE /\ rbuf \o SubSeq(stream, 1, n) \in Seq(Unit)
        /\ SubSeq(stream, n + 1, Len(stream)) \in Seq(Unit)
        /\ (rbuf \o SubSeq(stream, 1, n)) \o SubSeq(stream, n + 1, Len(stream)) = rbuf \o stream
<1> DEFINE x == SubSeq(stream, 1, n)
           y == Conc!Rest(stream, n)
<1>1. x \in Seq(Unit) /\ y \in Seq(Unit) /\ x \o y = stream
  <2>1. n \in 0 .. Len(stream)
    OBVIOUS
  <2> QED
    BY <2>1, Halves
<1> HIDE DEF x, y
<1>2. rbuf \o x \in Seq(Unit) /\ (rbuf \o x) \o y = rbuf \o (x \o y)
  <2>1. x \in Seq(Unit) /\ y \in Seq(Unit) /\ rbuf \in Seq(Unit)
    BY <1>1, Zenon
  <2> QED
    <3>1. (rbuf \o x) \o y = rbuf \o (x \o y)
      BY <2>1
    <3>2. rbuf \o x \in Seq(Unit)
      BY <2>1, ConcatProperties, Zenon
    <3> QED
      BY <3>1, <3>2
<1> QED
  BY <1>1, <1>2, Zenon DEF x, y, Conc!Rest

(* ReadHandler keeps the invariant, whatever part of the stream it gets. *)
LEMMA ReadStep == ASSUME ConcInv, Conc!ReadHandler PROVE ConcInv'
<1>1. ConcTypes /\ Between
  BY DEF ConcInv
<1>2. PICK n \in 1 .. Len(stream) : /\ rbuf' = rbuf \o SubSeq(stream, 1, n)
                                    /\ stream' = SubSeq(stream, n + 1, Len(stream))
  BY DEF Conc!ReadHandler
<1>3. /\ UNCHANGED <<rcv, subsegs, segSize, current, input, xmt, concGuest, got,
                     packages, down, output, fromCray, garbled, msgs, concConn>>
      /\ concConn # "none"
  BY DEF Conc!ReadHandler, Conc!channels, Conc!history, Conc!bounds
<1>4. rbuf \in Seq(Unit) /\ stream \in Seq(Unit)
  BY <1>1 DEF ConcTypes, Receiver, Receiving
<1>5. rbuf' \in Seq(Unit) /\ stream' \in Seq(Unit) /\ rbuf' \o stream' = rbuf \o stream
  BY <1>2, <1>4, Arrival
<1>6. /\ Receiving'.state = Receiving.state /\ Receiving'.pdu = Receiving.pdu
      /\ Receiving'.code = Receiving.code /\ Receiving'.buf = rbuf' /\ Receiving.buf = rbuf
      /\ Receiving'.subsegs = Receiving.subsegs /\ Receiving'.size = Receiving.size
      /\ Receiving'.data = Receiving.data
  BY <1>3 DEF Receiving
<1>7. ConcTypes'
  <2>1. Receiving' \in Receiver
    <3>1. Receiving \in Receiver
      BY <1>1 DEF ConcTypes
    <3> QED
      BY <1>3, <1>5, <3>1 DEF Receiver, Receiving
  <2> QED
    BY <1>1, <1>3, <1>5, <2>1 DEF ConcTypes
<1>8. Between'
  BY <1>1, <1>3 DEF Between, Conc!Idle
<1>9. ASSUME Connected PROVE Connected'
  <2>1. PICK u, w : /\ Units(u, packages) /\ WordsOf(w, packages)
                    /\ \E k \in Nat : Cut(Receiving, u, w, k)
    BY <1>9 DEF Connected
  <2>2. PICK k \in Nat : Cut(Receiving, u, w, k)
    BY <2>1
  <2>3. Cut(Receiving, u, w, k)'
    <3>1. Receiving'.buf \o stream' = Receiving.buf \o stream
      BY <1>5, <1>6
    <3> HIDE DEF Receiving
    <3> QED
      BY <1>3, <1>6, <2>2, <3>1 DEF Cut
  <2>4. Units(u, packages)' /\ WordsOf(w, packages)'
    BY <1>3, <2>1 DEF Units, WordsOf, FromEnd
  <2>5. Programs'
    BY <1>3, <1>9, ProgramsSame DEF Connected
  <2> QED
    BY <1>3, <1>9, <2>3, <2>4, <2>5 DEF Connected
<1> QED
  BY <1>3, <1>7, <1>8, <1>9 DEF ConcInv

(* A new connection: all of the logon message is still to come. *)
LEMMA NewlyAccepted ==
  ASSUME ConcTypes', Between', rbuf' = <<>>, rcv'.state = "lcpLength", rcv'.data = <<>>,
         xmt'.state = "lcpStart", concGuest'.at = "await", ~input'.done,
         current' = <<>>, got' = <<>>, down' = <<>>,
         IF packages' = <<>> THEN stream' = <<>>
         ELSE packages'[1][1].code = "logon" /\ stream' = Conc!Stream(packages')
  PROVE Connected'
<1>1. packages' \in Seq(Seq(Unit)) /\ Len(packages') \in Nat /\ stream' \in Seq(Unit)
  BY DEF ConcTypes, IsMessage
<1>2. PICK u : Units(u, packages') /\ Conc!Stream(packages') = u[Len(packages')]
  BY <1>1, StreamUnits
<1>3. PICK w : WordsOf(w, packages')
  BY <1>1, MessageWords
<1>4. stream' = u[Len(packages')]
  <2>1. packages' = <<>> => Len(packages') = 0 /\ u[0] = <<>>
    BY <1>2 DEF Units
  <2> QED
    BY <1>2, <2>1
<1>5. /\ Receiving'.state = "lcpLength" /\ Receiving'.buf = <<>> /\ Receiving'.data = <<>>
  BY DEF Receiving
<1>6. Cut(Receiving, u, w, Len(packages))'
  <2>1. <<>> \o stream' = stream'
    BY <1>1, ConcatEmptySeq, Zenon
  <2>2. Len(packages') - Len(got') = Len(packages')
    BY <1>1
  <2>3. w[Len(packages')] \in Seq(Unit) /\ <<>> \o w[Len(packages')] = w[Len(packages')]
    <3>1. w[Len(packages')] \in Seq(Unit)
      BY <1>1, <1>3 DEF WordsOf
    <3> QED
      BY <3>1, ConcatEmptySeq, Zenon
  <2>4. packages' # <<>> => Len(packages') # 0
    BY <1>1
  <2> HIDE DEF Receiving
  <2> QED
    BY <1>1, <1>4, <1>5, <2>1, <2>2, <2>3, <2>4 DEF Cut
<1>7. Programs'
  BY DEF Programs, Awaits
<1> QED
  BY <1>1, <1>2, <1>3, <1>6, <1>7 DEF Connected

(* AcceptHandler keeps the invariant. *)
LEMMA AcceptStep == ASSUME ConcInv, Conc!AcceptHandler PROVE ConcInv'
<1>1. ConcTypes /\ Between
  BY DEF ConcInv
<1>2. /\ concConn = "none" /\ concConn' = "open"
      /\ rcv' = [rcv EXCEPT !.data = <<>>] /\ rbuf' = <<>>
      /\ got' = <<>> /\ down' = <<>>
      /\ garbled' = (garbled \/ ~Conc!BetweenMessages)
      /\ UNCHANGED <<subsegs, segSize, current, input, output, xmt, concGuest, stream, packages,
                     msgs>>
  BY DEF Conc!AcceptHandler, Conc!channels, Conc!bounds
<1>3. rcv' = [state |-> rcv.state, pdu |-> rcv.pdu, code |-> rcv.code, data |-> <<>>]
  <2>1. rcv = [state |-> rcv.state, pdu |-> rcv.pdu, code |-> rcv.code, data |-> rcv.data]
    BY <1>1 DEF ConcTypes
  <2> QED
    BY <1>2, <2>1
<1>4. ConcTypes'
  <2>1. Receiving' \in Receiver
    <3>1. Receiving \in Receiver /\ <<>> \in Seq(Unit)
      BY <1>1 DEF ConcTypes
    <3> QED
      BY <1>2, <1>3, <3>1 DEF Receiver, Receiving
  <2>2. garbled' \in BOOLEAN
    BY <1>1, <1>2 DEF ConcTypes
  <2>3. got' \in Seq(Seq(Unit))
    BY <1>2
  <2> QED
    BY <1>1, <1>2, <1>3, <2>1, <2>2, <2>3 DEF ConcTypes
<1>5. Between'
  BY <1>1, <1>2 DEF Between, Conc!Idle
<1>6. ASSUME ~garbled' PROVE Connected'
  <2>1. Conc!BetweenMessages
    BY <1>2, <1>6
  <2> QED
    BY <1>1, <1>2, <1>3, <1>4, <1>5, <2>1, NewlyAccepted DEF Between, Conc!BetweenMessages
<1> QED
  BY <1>4, <1>5, <1>6 DEF ConcInv

(* MasterClear keeps the invariant. *)
LEMMA MasterClearStep == ASSUME PackageSizes, ConcInv, Conc!MasterClear PROVE ConcInv'
<1>1. ConcTypes /\ Between
  BY DEF ConcInv
<1>2. /\ rcv' = [rcv EXCEPT !.state = "lcpLength", !.pdu = 0, !.data = <<>>]
      /\ xmt' = [xmt EXCEPT !.state = "lcpStart", !.words = 0]
      /\ rbuf' = <<>> /\ segSize' = 0 /\ input' = Conc!Started(LcpWords)
      /\ output' = Conc!Idle /\ concGuest' = Conc!Awaiting
      /\ got' = <<>> /\ current' = <<>> /\ down' = <<>> /\ subsegs' = subsegs /\ msgs' = msgs
  BY DEF Conc!MasterClear
<1>3. /\ rcv' = [state |-> "lcpLength", pdu |-> 0, code |-> rcv.code, data |-> <<>>]
      /\ xmt' = [state |-> "lcpStart", words |-> 0, code |-> xmt.code]
  <2>1. /\ rcv = [state |-> rcv.state, pdu |-> rcv.pdu, code |-> rcv.code, data |-> rcv.data]
        /\ xmt = [state |-> xmt.state, words |-> xmt.words, code |-> xmt.code]
    BY <1>1 DEF ConcTypes
  <2> QED
    BY <1>2, <2>1
<1> DEFINE waits == IF concConn = "none" THEN stream ELSE <<>>
           message == IF concConn = "none" THEN packages ELSE <<>>
<1>4. /\ waits \in Seq(Unit) /\ IsMessage(message)
      /\ IF message = <<>> THEN waits = <<>>
         ELSE message[1][1].code = "logon" /\ waits = Conc!Stream(message)
  BY <1>1, NoMessage DEF ConcTypes, Between
<1>5. /\ packages' = message
      /\ \/ concConn' = "none" /\ garbled' = FALSE /\ stream' = waits
         \/ /\ concConn' = "open"
            /\ \E n \in 0 .. Len(waits) :
                 stream' = SubSeq(waits, n + 1, Len(waits)) /\ garbled' = (n > 0)
  BY DEF Conc!MasterClear, Conc!CloseConnSocket
<1> HIDE DEF waits, message
<1>6. /\ stream' \in Seq(Unit) /\ garbled' \in BOOLEAN /\ concConn' \in {"none", "open"}
      /\ concConn' = "none" \/ ~garbled' => stream' = waits
  <2>1. CASE concConn' = "none" /\ garbled' = FALSE /\ stream' = waits
    BY <1>4, <2>1
  <2>2. CASE /\ concConn' = "open"
             /\ \E n \in 0 .. Len(waits) :
                  stream' = SubSeq(waits, n + 1, Len(waits)) /\ garbled' = (n > 0)
    <3>1. PICK n \in 0 .. Len(waits) :
            stream' = Conc!Rest(waits, n) /\ garbled' = (n > 0)
      BY <2>2 DEF Conc!Rest
    <3>2. Conc!Rest(waits, n) \in Seq(Unit)
      BY <1>4, Halves
    <3>3. ASSUME ~garbled' PROVE stream' = waits
      <4>1. n = 0 /\ n + 1 = 1
        <5>1. ~(n > 0)
          BY <3>1, <3>3, Zenon
        <5>2. Len(waits) \in Nat
          BY <1>4
        <5> QED
          BY <5>1, <5>2
      <4> QED
        BY <1>4, <3>1, <4>1, SubSeqFull, Zenon DEF Conc!Rest
    <3> QED
      BY <2>2, <3>1, <3>2, <3>3
  <2> QED
    BY <1>5, <2>1, <2>2
<1>7. ConcTypes'
  <2>1. Receiving' \in Receiver
    <3>1. Receiving \in Receiver /\ <<>> \in Seq(Unit)
      BY <1>1 DEF ConcTypes
    <3> QED
      BY <1>2, <1>3, <3>1 DEF Receiver, Receiving
  <2>2. input' \in [active : BOOLEAN, done : BOOLEAN, left : Int]
    BY <1>2 DEF PackageSizes, Conc!Started
  <2>3. <<>> \in Seq(Seq(Unit)) /\ <<>> \in Seq(Unit)
    OBVIOUS
  <2> QED
    BY <1>1, <1>2, <1>3, <1>4, <1>5, <1>6, <2>1, <2>2, <2>3 DEF ConcTypes, Conc!Awaiting
<1>8. Between'
  <2>1. input'.active /\ ~input'.done /\ input'.left = LcpWords
    BY <1>2 DEF Conc!Started
  <2>2. LcpWords + Len(<<>>) = LcpWords
    BY DEF PackageSizes
  <2>3. input'.left + Len(current') = LcpWords
    BY <1>2, <2>1, <2>2
  <2>4. concConn' = "none" =>
          IF packages' = <<>> THEN stream' = <<>>
          ELSE packages'[1][1].code = "logon" /\ stream' = Conc!Stream(packages')
    BY <1>4, <1>5, <1>6
  <2>5. output' = Conc!Idle' /\ input'.active = ~input'.done
    BY <1>2 DEF Conc!Idle, Conc!Started
  <2>6. concGuest'.at = "await"
    BY <1>2 DEF Conc!Awaiting
  <2> QED
    BY <2>1, <2>3, <2>4, <2>5, <2>6 DEF Between
<1>9. ASSUME ~garbled', concConn' # "none" PROVE Connected'
  <2>1. IF packages' = <<>> THEN stream' = <<>>
        ELSE packages'[1][1].code = "logon" /\ stream' = Conc!Stream(packages')
    BY <1>4, <1>5, <1>6, <1>9
  <2> QED
    BY <1>2, <1>3, <1>7, <1>8, <2>1, NewlyAccepted DEF Conc!Awaiting, Conc!Started
<1> QED
  BY <1>7, <1>8, <1>9 DEF ConcInv

(* The state that the constructor leaves *)
LEMMA ConcStart == ASSUME PackageSizes, Conc!Init PROVE ConcInv
<1>1. Receiving \in Receiver
  BY DEF Conc!Init, Conc!RcvStart, Receiver, Receiving
<1>2. input \in [active : BOOLEAN, done : BOOLEAN, left : Int]
  BY DEF PackageSizes, Conc!Started, Conc!Init
<1>3. ConcTypes
  <2>1. IsMessage(packages) /\ got \in Seq(Seq(Unit)) /\ stream \in Seq(Unit)
        /\ current \in Seq(Unit)
    BY NoMessage DEF Conc!Init
  <2> QED
    BY <1>1, <1>2, <2>1
    DEF ConcTypes, Conc!Init, Conc!RcvStart, Conc!XmtStart, Conc!Awaiting
<1>4. Between
  <2>1. LcpWords + Len(<<>>) = LcpWords
    BY DEF PackageSizes
  <2>2. /\ input = Conc!Started(LcpWords) /\ output = Conc!Idle /\ concGuest = Conc!Awaiting
        /\ current = <<>> /\ packages = <<>> /\ stream = <<>>
    BY DEF Conc!Init
  <2>3. input.active /\ ~input.done /\ input.left = LcpWords /\ concGuest.at = "await"
    BY <2>2 DEF Conc!Started, Conc!Awaiting
  <2> QED
    BY <2>1, <2>2, <2>3 DEF Between
<1> QED
  BY <1>3, <1>4 DEF ConcInv, Conc!Init

-----------------------------------------------------------------------------
(* The IOP's program *)

(* When the station's message has been read, what has been cut off does    *)
(* not depend on the subsegment count, which then is that of the reply.    *)
LEMMA StillCut ==
  ASSUME ConcTypes, Connected, subsegs' = subsegs \/ AllGot,
         UNCHANGED <<rcv, rbuf, segSize, current, got, stream, packages>>, Programs'
  PROVE Connected'
<1>1. PICK u, w : /\ Units(u, packages) /\ WordsOf(w, packages)
                  /\ \E n \in Nat : Cut(Receiving, u, w, n)
  BY DEF Connected
<1>2. PICK n \in Nat : Cut(Receiving, u, w, n)
  BY <1>1
<1>3. /\ Receiving'.state = Receiving.state /\ Receiving'.pdu = Receiving.pdu
      /\ Receiving'.code = Receiving.code /\ Receiving'.buf = Receiving.buf
      /\ Receiving'.size = Receiving.size /\ Receiving'.data = Receiving.data
      /\ Receiving.subsegs = subsegs /\ Receiving'.subsegs = subsegs'
      /\ Receiving.state = rcv.state
  BY DEF Receiving
<1>4. subsegs' = subsegs \/ Receiving.state = "lcpLength"
  <2>1. Receiving \in Receiver /\ stream \in Seq(Unit) /\ IsMessage(packages)
    BY DEF ConcTypes
  <2>2. AllGot => rcv.state = "lcpLength"
    BY <1>1, <1>2, <2>1, AllRead DEF AllGot
  <2> QED
    BY <1>3, <2>2
<1>5. Cut(Receiving, u, w, n)'
  <2> HIDE DEF Receiving
  <2> QED
    BY <1>2, <1>3, <1>4 DEF Cut
<1>6. Units(u, packages)' /\ WordsOf(w, packages)'
  BY <1>1 DEF Units, WordsOf, FromEnd
<1> QED
  BY <1>5, <1>6 DEF Connected

(* What a step of the program leaves alone *)
LEMMA ProgramTyped ==
  ASSUME ConcTypes,
         UNCHANGED <<concConn, rcv, rbuf, segSize, current, got, stream, packages, subsegs, xmt,
                     garbled, msgs>>,
         input' \in [active : BOOLEAN, done : BOOLEAN, left : Int],
         concGuest' = [at |-> concGuest'.at, todo |-> concGuest'.todo, words |-> concGuest'.words,
                       code |-> concGuest'.code],
         concGuest'.at \in {"await", "read", "reply", "write"}
  PROVE ConcTypes'
<1>1. Receiving' = Receiving
  BY DEF Receiving
<1> QED
  BY <1>1 DEF ConcTypes

(* The program's next transfer is of the next package. *)
LEMMA ReadNextStep == ASSUME PackageSizes, ConcInv, Conc!ReadNext PROVE ConcInv'
<1>1. ConcTypes /\ Between
  BY DEF ConcInv
<1>2. PICK left \in {IF concGuest.at = "await" THEN Conc!Last(got)[1].segs
                 ELSE concGuest.todo - 1} :
        IF left > 0
        THEN /\ concGuest' = [concGuest EXCEPT !.at = "read", !.todo = left]
             /\ input' = Conc!Started(SegWords)
        ELSE /\ concGuest' = [concGuest EXCEPT !.at = "reply", !.todo = 0]
             /\ input' = [input EXCEPT !.done = FALSE]
  BY Zenon DEF Conc!ReadNext
<1>3. /\ ~garbled /\ input.done /\ concGuest.at \in {"await", "read"}
      /\ UNCHANGED <<concConn, rcv, rbuf, segSize, current, got, stream, packages, subsegs, xmt,
                     garbled, msgs, fromCray, output, down>>
  BY DEF Conc!ReadNext, Conc!network, Conc!machine, Conc!history, Conc!bounds
<1>4. /\ concGuest = [at |-> concGuest.at, todo |-> concGuest.todo, words |-> concGuest.words,
                      code |-> concGuest.code]
      /\ input = [active |-> input.active, done |-> input.done, left |-> input.left]
      /\ input.active \in BOOLEAN /\ input.done \in BOOLEAN /\ input.left \in Int
  BY <1>1 DEF ConcTypes
<1>5. ~input.active /\ current = <<>>
  BY <1>1, <1>3, <1>4 DEF Between
<1>6. IF left > 0
      THEN /\ concGuest' = [at |-> "read", todo |-> left, words |-> concGuest.words,
                            code |-> concGuest.code]
           /\ input' = [active |-> TRUE, done |-> FALSE, left |-> SegWords]
      ELSE /\ concGuest' = [at |-> "reply", todo |-> 0, words |-> concGuest.words,
                            code |-> concGuest.code]
           /\ input' = [active |-> FALSE, done |-> FALSE, left |-> input.left]
  <2>1. input.active = FALSE
    BY <1>4, <1>5
  <2> QED
    BY <1>2, <1>4, <2>1 DEF Conc!Started
<1>7. ConcTypes'
  <2>1. SegWords \in Int
    BY DEF PackageSizes
  <2>2. input' \in [active : BOOLEAN, done : BOOLEAN, left : Int]
    <3>1. CASE left > 0
      <4>1. input' = [active |-> TRUE, done |-> FALSE, left |-> SegWords]
        BY <1>6, <3>1
      <4> QED
        BY <2>1, <4>1
    <3>2. CASE ~(left > 0)
      <4>1. input' = [active |-> FALSE, done |-> FALSE, left |-> input.left]
        BY <1>6, <3>2
      <4> QED
        BY <1>4, <4>1
    <3> QED
      BY <3>1, <3>2
  <2>3. /\ concGuest' = [at |-> concGuest'.at, todo |-> concGuest'.todo,
                         words |-> concGuest'.words, code |-> concGuest'.code]
        /\ concGuest'.at \in {"await", "read", "reply", "write"}
    BY <1>6
  <2> QED
    BY <1>1, <1>3, <2>2, <2>3, ProgramTyped
<1>8. Between'
  BY <1>1, <1>3, <1>5, <1>6 DEF Between
<1> SUFFICES ASSUME concConn # "none" PROVE Connected'
  BY <1>3, <1>7, <1>8 DEF ConcInv
<1>9. Connected
  BY <1>3 DEF ConcInv
<1>10. Programs /\ \A p \in 1 .. Len(got) : got[p] = packages[p]
  BY <1>9 DEF Connected
<1>11. /\ got \in Seq(Seq(Unit)) /\ Len(packages) \in Nat /\ Len(got) \in Nat
       /\ Len(got) <= Len(packages) /\ IsMessage(packages)
  <2>1. got \in Seq(Seq(Unit)) /\ IsMessage(packages) /\ Len(packages) \in Nat
    BY <1>1 DEF ConcTypes, IsMessage
  <2>2. PICK n \in Nat : n \in 0 .. Len(packages) - Len(got)
    BY <1>9 DEF Connected, Cut
  <2> QED
    BY <2>1, <2>2
<1>12. /\ Fresh /\ output = Conc!Idle /\ got # <<>> /\ left = Len(packages) - Len(got)
  <2>1. CASE concGuest.at = "await"
    <3>1. Awaits /\ output = Conc!Idle
      BY <1>1, <1>10, <2>1 DEF Programs, Between
    <3>2. Fresh /\ Len(got) = 1
      BY <1>3, <3>1 DEF Awaits, Fresh
    <3>3. got # <<>> /\ Conc!Last(got) = got[1] /\ got[1] = packages[1] /\ packages # <<>>
      BY <1>10, <1>11, <3>2 DEF Conc!Last
    <3>4. left = packages[1][1].segs
      BY <1>2, <2>1, <3>3
    <3>5. packages[1][1].segs = Len(packages) - 1
      BY <1>11, <3>3 DEF IsMessage
    <3> QED
      BY <3>1, <3>2, <3>3, <3>4, <3>5
  <2>2. CASE concGuest.at = "read"
    <3>1. Reading
      BY <1>10, <2>2 DEF Programs
    <3>2. /\ Fresh /\ output = Conc!Idle /\ got # <<>>
          /\ concGuest.todo = Len(packages) - Len(got) + 1
      BY <1>3, <3>1 DEF Reading
    <3>3. left = concGuest.todo - 1
      BY <1>2, <2>2
    <3> QED
      BY <1>11, <3>2, <3>3
  <2> QED
    BY <1>3, <2>1, <2>2
<1>13. Fresh' /\ output' = Conc!Idle' /\ got' # <<>>
  BY <1>3, <1>12 DEF Fresh, Conc!Idle
<1>14. Programs'
  <2>1. CASE left > 0
    <3>1. Reading'
      BY <1>3, <1>6, <1>12, <1>13, <2>1 DEF Reading
    <3> QED
      BY <1>6, <2>1, <3>1 DEF Programs
  <2>2. CASE ~(left > 0)
    <3>1. Len(got) = Len(packages)
      BY <1>11, <1>12, <2>2
    <3>2. AllGot'
      BY <1>3, <1>12, <3>1 DEF AllGot
    <3> QED
      BY <1>6, <1>13, <2>2, <3>2 DEF Programs
  <2> QED
    BY <2>1, <2>2
<1> QED
  BY <1>1, <1>3, <1>9, <1>14, StillCut

(* An LCP begins a reply when the message has been read. *)
LEMMA WriteLcpStep ==
  ASSUME PackageSizes, ConcInv, NEW code \in {"data", "start"}, NEW segs \in 0 .. MaxSegs,
         Conc!WriteLcp(code, segs)
  PROVE ConcInv'
<1>1. ConcTypes /\ Between
  BY DEF ConcInv
<1>2. /\ ~garbled /\ concGuest.at = "reply" /\ (code = "start" => segs > 0)
      /\ concGuest' = [at |-> "write", todo |-> segs, words |-> 0, code |-> code]
      /\ fromCray' = [n \in 1 .. LcpWords |-> [code |-> code, segs |-> segs]]
      /\ output' = [active |-> TRUE, done |-> FALSE, left |-> LcpWords]
      /\ UNCHANGED <<concConn, rcv, rbuf, segSize, current, got, stream, packages, subsegs, xmt,
                     garbled, msgs, input, down>>
  BY DEF Conc!WriteLcp, Conc!network, Conc!history, Conc!bounds, Conc!Started
<1>3. ConcTypes'
  <2>1. input' \in [active : BOOLEAN, done : BOOLEAN, left : Int]
    BY <1>1, <1>2 DEF ConcTypes
  <2> QED
    BY <1>1, <1>2, <2>1, ProgramTyped
<1>4. Between'
  BY <1>1, <1>2 DEF Between
<1> SUFFICES ASSUME concConn # "none" PROVE Connected'
  BY <1>2, <1>3, <1>4 DEF ConcInv
<1>5. Connected
  BY <1>2 DEF ConcInv
<1>6. AllGot /\ Fresh /\ ~input.active /\ ~input.done
  BY <1>2, <1>5 DEF Connected, Programs
<1>7. /\ fromCray' \in Seq([code : {"data", "start"}, segs : Nat]) /\ Len(fromCray') = LcpWords
      /\ fromCray'[1] = [code |-> code, segs |-> segs] /\ segs \in Nat
  <2>1. LcpWords \in Nat /\ LcpWords # 0 /\ MaxSegs \in Nat
    BY DEF PackageSizes
  <2>2. segs \in Nat
    BY <2>1
  <2> DEFINE first == [code |-> code, segs |-> segs]
  <2>3. first \in [code : {"data", "start"}, segs : Nat]
    BY <2>2
  <2>4. fromCray' = [n \in 1 .. LcpWords |-> first]
    BY <1>2
  <2>5. 1 \in 1 .. LcpWords
    BY <2>1
  <2> HIDE DEF first
  <2>6. /\ fromCray' \in Seq([code : {"data", "start"}, segs : Nat]) /\ Len(fromCray') = LcpWords
        /\ fromCray'[1] = first
    BY <2>1, <2>3, <2>4, <2>5
  <2> QED
    BY <2>2, <2>6 DEF first
<1>8. AllGot' /\ Fresh'
  BY <1>2, <1>6 DEF AllGot, Fresh
<1>9. LcpWritten'
  <2>1. /\ concGuest'.words = 0 /\ concGuest'.todo = segs /\ concGuest'.code = code
    BY <1>2
  <2> QED
    BY <1>2, <1>7, <1>8, <2>1 DEF LcpWritten
<1>10. Programs'
  BY <1>2, <1>6, <1>9 DEF Programs, Replying
<1> QED
  BY <1>1, <1>2, <1>5, <1>10, StillCut

(* Words of a segment are written when what was written before is sent. *)
LEMMA WriteSegmentStep ==
  ASSUME PackageSizes, ConcInv, NEW words \in 1 .. SegWords, Conc!WriteSegment(words)
  PROVE ConcInv'
<1>1. ConcTypes /\ Between
  BY DEF ConcInv
<1> DEFINE ends == concGuest.code = "start" \/ concGuest.words + words = SegWords
<1>2. concGuest = [at |-> concGuest.at, todo |-> concGuest.todo, words |-> concGuest.words,
                   code |-> concGuest.code]
  BY <1>1 DEF ConcTypes
<1>3. /\ ~garbled /\ concGuest.at = "write" /\ output.done /\ concGuest.todo > 0
      /\ concGuest.words + words <= SegWords
      /\ fromCray' = [n \in 1 .. words |-> [code |-> "none", segs |-> 0]]
      /\ output' = [active |-> TRUE, done |-> FALSE, left |-> words]
      /\ UNCHANGED <<concConn, rcv, rbuf, segSize, current, got, stream, packages, subsegs, xmt,
                     garbled, msgs, input, down>>
  BY DEF Conc!WriteSegment, Conc!network, Conc!history, Conc!bounds, Conc!Started
<1>4. /\ concGuest'.at = "write" /\ concGuest'.code = concGuest.code
      /\ concGuest'.todo = IF ends THEN concGuest.todo - 1 ELSE concGuest.todo
      /\ concGuest'.words = IF ends THEN 0 ELSE concGuest.words + words
      /\ concGuest' = [at |-> concGuest'.at, todo |-> concGuest'.todo, words |-> concGuest'.words,
                       code |-> concGuest'.code]
  <2>1. concGuest' = IF ends THEN [concGuest EXCEPT !.todo = @ - 1, !.words = 0]
                     ELSE [concGuest EXCEPT !.words = @ + words]
    BY DEF Conc!WriteSegment
  <2> HIDE DEF ends
  <2> QED
    BY <1>2, <1>3, <2>1
<1> HIDE DEF ends
<1>5. ConcTypes'
  <2>1. input' \in [active : BOOLEAN, done : BOOLEAN, left : Int]
    BY <1>1, <1>3 DEF ConcTypes
  <2> QED
    BY <1>1, <1>3, <1>4, <2>1, ProgramTyped
<1>6. Between'
  BY <1>1, <1>3, <1>4 DEF Between
<1> SUFFICES ASSUME concConn # "none" PROVE Connected'
  BY <1>3, <1>5, <1>6 DEF ConcInv
<1>7. Connected
  BY <1>3 DEF ConcInv
<1>8. Replying
  BY <1>3, <1>7 DEF Connected, Programs
<1>9. Transmitted /\ ~input.active /\ ~input.done
  BY <1>3, <1>8 DEF Replying, Asked
<1>10. PICK n \in 0 .. SegWords - 1 : n = concGuest.words
  BY <1>9 DEF Transmitted, ReplyOf
<1>11. /\ AllGot /\ ReplyOf(subsegs, n) /\ subsegs = concGuest.todo /\ subsegs > 0
       /\ subsegs \in Nat
  BY <1>3, <1>9, <1>10 DEF Transmitted, ReplyOf
<1>12. AllGot' /\ ReplyOf(subsegs, n)'
  <2>1. ReplyOf(subsegs, n)' <=> ReplyOf(subsegs, n)
    BY <1>3 DEF ReplyOf
  <2> QED
    BY <1>3, <1>11, <2>1 DEF AllGot
<1>13. fromCray' \in Seq([code : {"none"}, segs : Nat]) /\ Len(fromCray') = words
  <2> DEFINE word == [code |-> "none", segs |-> 0]
  <2>1. word \in [code : {"none"}, segs : Nat]
    OBVIOUS
  <2>2. words \in Nat /\ fromCray' = [i \in 1 .. words |-> word]
    BY <1>3 DEF PackageSizes
  <2> HIDE DEF word
  <2> QED
    BY <2>1, <2>2
<1>14. /\ words \in Nat /\ words > 0 /\ SegWords \in Nat /\ n + words <= SegWords
       /\ ends <=> concGuest.code = "start" \/ n + words = SegWords
  BY <1>3, <1>10 DEF PackageSizes, ends
<1>15. SegmentWritten'
  <2>1. /\ xmt'.code = concGuest'.code
        /\ IF n = 0 THEN xmt'.state = "segStart"
           ELSE xmt'.state = "seg" /\ xmt'.words = n /\ concGuest'.code # "start"
    BY <1>3, <1>4, <1>9, <1>10, <1>11 DEF Transmitted
  <2>2. IF concGuest'.code = "start" \/ n + Len(fromCray') = SegWords
        THEN concGuest'.words = 0 /\ concGuest'.todo = subsegs' - 1
        ELSE /\ concGuest'.words = n + Len(fromCray') /\ concGuest'.words < SegWords
             /\ concGuest'.todo = subsegs'
    <3>1. CASE ends
      <4>1. concGuest'.words = 0 /\ concGuest'.todo = subsegs' - 1
        BY <1>3, <1>4, <1>11, <3>1
      <4>2. concGuest'.code = "start" \/ n + Len(fromCray') = SegWords
        BY <1>4, <1>13, <1>14, <3>1
      <4> QED
        BY <4>1, <4>2
    <3>2. CASE ~ends
      <4>1. concGuest'.words = n + words /\ concGuest'.todo = subsegs'
        BY <1>3, <1>4, <1>10, <1>11, <3>2
      <4>2. ~(concGuest'.code = "start" \/ n + Len(fromCray') = SegWords)
        BY <1>4, <1>13, <1>14, <3>2
      <4>3. n + words < SegWords
        BY <1>14, <3>2
      <4> QED
        BY <1>13, <4>1, <4>2, <4>3
    <3> QED
      BY <3>1, <3>2
  <2>3. Len(fromCray') > 0 /\ subsegs' > 0
    BY <1>3, <1>11, <1>13, <1>14
  <2> QED
    BY <1>12, <1>13, <2>1, <2>2, <2>3 DEF SegmentWritten
<1>16. Programs'
  BY <1>3, <1>4, <1>9, <1>15 DEF Programs, Replying
<1> QED
  BY <1>1, <1>3, <1>7, <1>16, StillCut

(* The program awaits an LCP when its reply is complete. *)
LEMMA AwaitLcpStep == ASSUME PackageSizes, ConcInv, Conc!AwaitLcp PROVE ConcInv'
<1>1. ConcTypes /\ Between
  BY DEF ConcInv
<1>2. /\ ~garbled /\ concGuest.at = "write" /\ output.done /\ concGuest.todo = 0
      /\ concGuest' = Conc!Awaiting /\ output' = Conc!Idle
      /\ input' = [active |-> TRUE, done |-> FALSE, left |-> LcpWords]
      /\ UNCHANGED <<concConn, rcv, rbuf, segSize, current, got, stream, packages, subsegs, xmt,
                     garbled, msgs, fromCray, down>>
  BY DEF Conc!AwaitLcp, Conc!network, Conc!machine, Conc!history, Conc!bounds, Conc!Started
<1>3. LcpWords \in Int
  BY DEF PackageSizes
<1>4. ConcTypes'
  <2>1. input' \in [active : BOOLEAN, done : BOOLEAN, left : Int]
    BY <1>2, <1>3
  <2>2. /\ concGuest' = [at |-> concGuest'.at, todo |-> concGuest'.todo,
                         words |-> concGuest'.words, code |-> concGuest'.code]
        /\ concGuest'.at = "await"
    BY <1>2 DEF Conc!Awaiting
  <2> QED
    BY <1>1, <1>2, <2>1, <2>2, ProgramTyped
<1>5. current = <<>>
  BY <1>1, <1>2 DEF Between
<1>6. Between'
  <2>1. input'.left + Len(current') = LcpWords
    <3>1. LcpWords + Len(<<>>) = LcpWords
      BY <1>3
    <3> QED
      BY <1>2, <1>5, <3>1
  <2>2. concGuest'.at = "await"
    BY <1>2 DEF Conc!Awaiting
  <2>3. input'.active = ~input'.done
    BY <1>2
  <2>4. output' = Conc!Idle'
    BY <1>2 DEF Conc!Idle
  <2> QED
    BY <1>1, <1>2, <2>1, <2>2, <2>3, <2>4 DEF Between
<1> SUFFICES ASSUME concConn # "none" PROVE Connected'
  BY <1>2, <1>4, <1>6 DEF ConcInv
<1>7. Connected
  BY <1>2 DEF ConcInv
<1>8. Transmitted \/ Asked
  <2>1. Replying
    BY <1>2, <1>7 DEF Connected, Programs
  <2> QED
    BY <1>2, <2>1 DEF Replying
<1>9. Awaits'
  <2>1. CASE Transmitted
    <3>1. AllGot /\ ReplyOf(0, concGuest.words)
      BY <1>2, <2>1 DEF Transmitted
    <3>2. concGuest.words = 0
      BY <3>1 DEF ReplyOf, PackageSizes
    <3>3. ReplyOf(0, 0) /\ xmt.state = "lcpStart"
      BY <1>2, <2>1, <3>1, <3>2 DEF Transmitted
    <3>4. ReplyOf(0, 0)' /\ AllGot'
      BY <1>2, <3>1, <3>3 DEF ReplyOf, AllGot
    <3>5. got' # <<>>
      BY <3>4 DEF AllGot
    <3> QED
      BY <1>2, <3>3, <3>4, <3>5 DEF Awaits
  <2>2. CASE Asked
    BY <1>2, <2>2 DEF Asked, Fresh, Awaits
  <2> QED
    BY <1>8, <2>1, <2>2
<1>10. Programs'
  BY <1>2, <1>9 DEF Programs, Conc!Awaiting
<1> QED
  BY <1>1, <1>2, <1>7, <1>10, StillCut

-----------------------------------------------------------------------------
(* Transfers from the IOP *)

(* What StartTransmit does of an LCP ... *)
LEMMA LcpTransmit ==
  ASSUME Conc!StartTransmit, xmt.state = "lcpStart"
  PROVE /\ subsegs' = fromCray[1].segs
        /\ xmt' = [state |-> IF fromCray[1].segs > 0 THEN "segStart" ELSE "lcpStart",
                   words |-> xmt.words, code |-> fromCray[1].code]
        /\ down' = Append(down, [lcp |-> TRUE, n |-> LcpWords, words |-> Len(fromCray),
                                 segs |-> fromCray[1].segs])
BY DEF Conc!StartTransmit

(* ... and of words of a segment *)
Transmits(words, ends) ==
  /\ subsegs' = IF ends THEN subsegs - 1 ELSE subsegs
  /\ xmt' = [state |-> IF ~ends THEN "seg" ELSE IF subsegs - 1 > 0 THEN "segStart" ELSE "lcpStart",
             words |-> words, code |-> xmt.code]

(* Its words may end the segment. *)
LEMMA SegmentTransmit ==
  ASSUME Conc!StartTransmit, xmt.state \in {"segStart", "seg"}
  PROVE /\ \E words, ends :
             /\ words = IF xmt.state = "segStart" THEN Len(fromCray) ELSE xmt.words + Len(fromCray)
             /\ ends \in BOOLEAN
             /\ ends <=> words >= segSize \/ xmt.code = "start"
             /\ Transmits(words, ends)
        /\ xmt.state = "segStart" =>
             down' = Append(down,
                    [lcp |-> FALSE, n |-> IF xmt.code = "start" THEN Len(fromCray) ELSE segSize,
                     words |-> Len(fromCray), segs |-> 0])
        /\ xmt.state = "seg" => down' = [down EXCEPT ![Len(down)].words = @ + Len(fromCray)]
<1> DEFINE words == IF xmt.state = "segStart" THEN Len(fromCray) ELSE xmt.words + Len(fromCray)
           ends == words >= segSize \/ xmt.code = "start"
<1>1. Transmits(words, ends)
  <2>1. CASE xmt.state = "segStart"
    BY <2>1 DEF Conc!StartTransmit, Conc!SegmentEnds, Transmits
  <2>2. CASE xmt.state = "seg"
    BY <2>2 DEF Conc!StartTransmit, Conc!SegmentEnds, Transmits
  <2> QED
    BY <2>1, <2>2
<1>2. xmt.state = "segStart" =>
        down' = Append(down,
               [lcp |-> FALSE, n |-> IF xmt.code = "start" THEN Len(fromCray) ELSE segSize,
                words |-> Len(fromCray), segs |-> 0])
  BY DEF Conc!StartTransmit
<1>3. xmt.state = "seg" => down' = [down EXCEPT ![Len(down)].words = @ + Len(fromCray)]
  BY DEF Conc!StartTransmit
<1>4. ends \in BOOLEAN
  OBVIOUS
<1> HIDE DEF ends
<1>5. \E v, e : /\ v = IF xmt.state = "segStart" THEN Len(fromCray) ELSE xmt.words + Len(fromCray)
                /\ e \in BOOLEAN
                /\ e <=> v >= segSize \/ xmt.code = "start"
                /\ Transmits(v, e)
  <2>1. ends <=> words >= segSize \/ xmt.code = "start"
    BY DEF ends
  <2>2. words = IF xmt.state = "segStart" THEN Len(fromCray) ELSE xmt.words + Len(fromCray)
    OBVIOUS
  <2> HIDE DEF words
  <2> QED
    BY <1>1, <1>4, <2>1, <2>2, Zenon
<1> QED
  BY <1>2, <1>3, <1>5, Zenon

(* A segment begins. *)
LEMMA Begun ==
  ASSUME PackageSizes, NEW t \in Nat, ReplyOf(t, 0), t > 0, NEW n \in Nat, NEW f \in Nat, f > 0,
         down' = Append(down, [lcp |-> FALSE, n |-> n, words |-> f, segs |-> 0])
  PROVE /\ f = n => ReplyOf(t - 1, 0)'
        /\ f < SegWords /\ n = SegWords => ReplyOf(t, f)'
<1> DEFINE p == [lcp |-> FALSE, n |-> n, words |-> f, segs |-> 0]
<1>1. p \in DownPackage /\ p.lcp = FALSE /\ p.n = n /\ p.words = f
  <2>1. FALSE \in BOOLEAN
    OBVIOUS
  <2> QED
    BY <2>1 DEF DownPackage
<1>2. down' = Append(down, p)
  OBVIOUS
<1> HIDE DEF p
<1>3. /\ down \in Seq(DownPackage) /\ down # <<>> /\ Len(down) \in Nat /\ Len(down) > 0
      /\ \A i \in 1 .. Len(down) : down[i].lcp <=> i = 1
      /\ \A i \in 1 .. Len(down) : down[i].words = down[i].n
      /\ Len(down) - 1 + t = down[1].segs
  BY DEF ReplyOf
<1>4. /\ down' # <<>> /\ Len(down') = Len(down) + 1 /\ down' \in Seq(DownPackage)
      /\ \A i \in 1 .. Len(down) : down'[i] = down[i]
      /\ down'[Len(down) + 1] = p
  <2>1. Append(down, p) \in Seq(DownPackage)
    BY <1>1, <1>3, AppendProperties, Zenon
  <2>2. /\ Append(down, p) # <<>> /\ Len(Append(down, p)) = Len(down) + 1
        /\ \A i \in 1 .. Len(down) : Append(down, p)[i] = down[i]
        /\ Append(down, p)[Len(down) + 1] = p
    <3>1. down \in Seq(DownPackage) /\ p \in DownPackage
      BY <1>1, <1>3
    <3> QED
      BY <3>1, Appended1
  <2> QED
    BY <1>2, <2>1, <2>2, Zenon
<1>5. ASSUME NEW i \in 1 .. Len(down')
      PROVE /\ down'[i].lcp <=> i = 1
            /\ i < Len(down') \/ f = n => down'[i].words = down'[i].n
  <2>1. i \in 1 .. Len(down) \/ i = Len(down) + 1
    BY <1>3, <1>4
  <2>2. CASE i \in 1 .. Len(down)
    BY <1>3, <1>4, <2>2
  <2>3. CASE i = Len(down) + 1
    <3>1. down'[i] = p /\ i # 1 /\ ~(i < Len(down'))
      BY <1>3, <1>4, <2>3
    <3> QED
      BY <1>1, <3>1
  <2> QED
    BY <2>1, <2>2, <2>3
<1>6. down'[1] = down[1]
  BY <1>3, <1>4
<1>7. SegWords \in Nat /\ SegWords > 0 /\ 0 \in 0 .. SegWords - 1
  BY DEF PackageSizes
<1>8. ASSUME f = n PROVE ReplyOf(t - 1, 0)'
  <2>1. t - 1 \in Nat /\ Len(down') - 1 + (t - 1) = down'[1].segs
    BY <1>3, <1>4, <1>6
  <2>2. \A i \in 1 .. Len(down') : down'[i].words = down'[i].n
    BY <1>5, <1>8
  <2>3. PICK m \in Nat : m = t - 1
    BY <2>1
  <2>4. Len(down') - 1 + m = down'[1].segs
    BY <2>1, <2>3
  <2>5. ReplyOf(m, 0)'
    BY <1>4, <1>5, <1>7, <2>2, <2>4 DEF ReplyOf
  <2> QED
    BY <2>3, <2>5
<1>9. ASSUME f < SegWords, n = SegWords PROVE ReplyOf(t, f)'
  <2>1. Len(down') > 1 /\ Len(down') - 2 + t = down'[1].segs /\ f \in 0 .. SegWords - 1
    BY <1>3, <1>4, <1>6, <1>7, <1>9
  <2>2. down'[Len(down')].words = f /\ down'[Len(down')].n = SegWords
    BY <1>1, <1>4, <1>9
  <2>3. \A i \in 1 .. Len(down') : i < Len(down') => down'[i].words = down'[i].n
    BY <1>5
  <2>4. f # 0
    OBVIOUS
  <2> QED
    BY <1>4, <1>5, <2>1, <2>2, <2>3, <2>4 DEF ReplyOf
<1> QED
  BY <1>8, <1>9

(* A segment goes on. *)
LEMMA Continued ==
  ASSUME PackageSizes, NEW t \in Nat, NEW k \in Nat, k > 0, ReplyOf(t, k), NEW f \in Nat, f > 0,
         k + f <= SegWords, down' = [down EXCEPT ![Len(down)].words = @ + f]
  PROVE IF k + f = SegWords THEN ReplyOf(t - 1, 0)' ELSE ReplyOf(t, k + f)'
<1> DEFINE L == Len(down)
<1>1. /\ down \in Seq(DownPackage) /\ down # <<>> /\ L \in Nat /\ L > 1 /\ t > 0
      /\ \A i \in 1 .. L : down[i].lcp <=> i = 1
      /\ \A i \in 1 .. L : i < L => down[i].words = down[i].n
      /\ L - 2 + t = down[1].segs /\ down[L].words = k /\ down[L].n = SegWords
  BY DEF ReplyOf
<1> DEFINE p == [down[L] EXCEPT !.words = k + f]
<1>2. /\ p \in DownPackage /\ p.lcp = down[L].lcp /\ p.n = SegWords /\ p.words = k + f
  <2>1. down[L] \in DownPackage
    BY <1>1
  <2>2. k + f \in Nat
    OBVIOUS
  <2> HIDE DEF L
  <2> QED
    BY <1>1, <2>1, <2>2 DEF DownPackage
<1>3. down' = [down EXCEPT ![L] = p]
  BY <1>1
<1> HIDE DEF p
<1>4. /\ down' \in Seq(DownPackage) /\ Len(down') = L /\ down' # <<>> /\ down'[L] = p
      /\ \A i \in 1 .. L : i < L => down'[i] = down[i]
  <2> HIDE DEF L
  <2>1. L \in 1 .. Len(down)
    BY <1>1 DEF L
  <2>2. /\ down' \in Seq(DownPackage) /\ Len(down') = Len(down)
        /\ \A i \in 1 .. Len(down) : down'[i] = IF i = L THEN p ELSE down[i]
    <3>1. DOMAIN down = 1 .. Len(down)
      BY <1>1
    <3>2. down' \in Seq(DownPackage) /\ Len(down') = Len(down)
      <4>1. down \in Seq(DownPackage) /\ p \in DownPackage
        BY <1>1, <1>2
      <4>2. /\ [down EXCEPT ![L] = p] \in Seq(DownPackage)
            /\ Len([down EXCEPT ![L] = p]) = Len(down)
        BY <2>1, <4>1, ExceptSeq
      <4> QED
        BY <1>3, <4>2, Zenon
    <3> QED
      BY <1>3, <3>1, <3>2
  <2> QED
    BY <1>1, <2>1, <2>2, SMTT(20) DEF L
<1> HIDE DEF L
<1>5. ASSUME NEW i \in 1 .. L
      PROVE /\ down'[i].lcp <=> i = 1
            /\ i < L \/ k + f = SegWords => down'[i].words = down'[i].n
  <2>1. CASE i < L
    BY <1>1, <1>4, <2>1
  <2>2. CASE i = L
    BY <1>1, <1>2, <1>4, <2>2
  <2> QED
    BY <1>1, <2>1, <2>2
<1>6. down'[1] = down[1]
  BY <1>1, <1>4
<1>7. SegWords \in Nat /\ SegWords > 0 /\ 0 \in 0 .. SegWords - 1
  BY DEF PackageSizes
<1>8. ASSUME k + f = SegWords PROVE ReplyOf(t - 1, 0)'
  <2>1. t - 1 \in Nat /\ Len(down') - 1 + (t - 1) = down'[1].segs
    BY <1>1, <1>4, <1>6, SMTT(20)
  <2>2. \A i \in 1 .. Len(down') : down'[i].words = down'[i].n
    BY <1>4, <1>5, <1>8
  <2>3. PICK m \in Nat : m = t - 1
    BY <2>1
  <2>4. Len(down') - 1 + m = down'[1].segs
    BY <2>1, <2>3
  <2>5. ReplyOf(m, 0)'
    BY <1>4, <1>5, <1>7, <2>2, <2>4, SMTT(20) DEF ReplyOf
  <2> QED
    BY <2>3, <2>5
<1>9. ASSUME k + f # SegWords PROVE ReplyOf(t, k + f)'
  <2>1. PICK m \in Nat : m = k + f
    OBVIOUS
  <2>2. Len(down') > 1 /\ Len(down') - 2 + t = down'[1].segs /\ m \in 0 .. SegWords - 1 /\ m > 0
    BY <1>1, <1>4, <1>6, <1>7, <1>9, <2>1, SMTT(20)
  <2>3. down'[Len(down')].words = m /\ down'[Len(down')].n = SegWords
    BY <1>1, <1>2, <1>4, <2>1
  <2>4. \A i \in 1 .. Len(down') : i < Len(down') => down'[i].words = down'[i].n
    BY <1>4, <1>5
  <2>5. ReplyOf(t, m)'
    BY <1>1, <1>4, <1>5, <2>2, <2>3, <2>4 DEF ReplyOf
  <2> QED
    BY <2>1, <2>5
<1> QED
  BY <1>8, <1>9

(* Tick of the output channel: the reply grows by what was written. *)
LEMMA LcpSent ==
  ASSUME PackageSizes, LcpWritten, Conc!StartTransmit, UNCHANGED <<concGuest, got, packages>>
  PROVE /\ Transmitted' /\ subsegs' \in Int
        /\ xmt' = [state |-> xmt'.state, words |-> xmt'.words, code |-> xmt'.code]
<1>1. /\ down = <<>> /\ xmt.state = "lcpStart" /\ AllGot /\ concGuest.words = 0
      /\ concGuest.todo \in Nat /\ Len(fromCray) = LcpWords
      /\ fromCray[1] = [code |-> concGuest.code, segs |-> concGuest.todo]
  BY DEF LcpWritten, Fresh
<1>2. PICK t \in Nat : t = concGuest.todo
  BY <1>1
<1>3. fromCray[1].segs = t /\ fromCray[1].code = concGuest.code
  BY <1>1, <1>2
<1>4. /\ subsegs' = t
      /\ xmt' = [state |-> IF t > 0 THEN "segStart" ELSE "lcpStart", words |-> xmt.words,
                 code |-> concGuest.code]
      /\ down' = Append(down, [lcp |-> TRUE, n |-> LcpWords, words |-> LcpWords, segs |-> t])
  BY <1>1, <1>3, LcpTransmit
<1> DEFINE p == [lcp |-> TRUE, n |-> LcpWords, words |-> LcpWords, segs |-> t]
<1>5. p \in DownPackage /\ p.lcp = TRUE /\ p.n = LcpWords /\ p.words = LcpWords /\ p.segs = t
  <2>1. TRUE \in BOOLEAN /\ LcpWords \in Nat
    BY DEF PackageSizes
  <2> QED
    BY <2>1 DEF DownPackage
<1> HIDE DEF p
<1>6. down' \in Seq(DownPackage) /\ Len(down') = 1 /\ down'[1] = p /\ down' # <<>>
  <2>1. down' = <<p>>
    <3>1. Append(<<>>, p) = <<p>>
      OBVIOUS
    <3> QED
      BY <1>1, <1>4, <3>1 DEF p
  <2> QED
    BY <1>5, <2>1
<1>7. ReplyOf(t, 0)'
  <2>1. 0 \in 0 .. SegWords - 1
    BY DEF PackageSizes
  <2>2. Len(down') - 1 + t = down'[1].segs
    BY <1>5, <1>6
  <2>3. \A i \in 1 .. Len(down') : (down'[i].lcp <=> i = 1) /\ down'[i].words = down'[i].n
    BY <1>5, <1>6
  <2> QED
    BY <1>6, <2>1, <2>2, <2>3 DEF ReplyOf
<1>8. ReplyOf(concGuest.todo, concGuest.words)'
  <2>1. concGuest'.todo = t /\ concGuest'.words = 0
    BY <1>1, <1>2
  <2> QED
    BY <1>7, <2>1
<1>9. AllGot'
  BY <1>1 DEF AllGot
<1>10. /\ xmt'.state = (IF t > 0 THEN "segStart" ELSE "lcpStart") /\ xmt'.code = concGuest.code
       /\ xmt' = [state |-> xmt'.state, words |-> xmt'.words, code |-> xmt'.code]
  BY <1>4
<1>11. Transmitted'
  BY <1>1, <1>2, <1>4, <1>8, <1>9, <1>10 DEF Transmitted
<1> QED
  BY <1>4, <1>10, <1>11

(* Words of a segment *)
LEMMA SegmentSent ==
  ASSUME PackageSizes, SegmentWritten, Conc!StartTransmit, UNCHANGED <<concGuest, got, packages>>,
         segSize = SegWords
  PROVE /\ Transmitted' /\ subsegs' \in Int
        /\ xmt' = [state |-> xmt'.state, words |-> xmt'.words, code |-> xmt'.code]
<1>1. PICK k \in 0 .. SegWords - 1 :
        /\ AllGot /\ ReplyOf(subsegs, k) /\ subsegs > 0
        /\ fromCray \in Seq([code : {"none"}, segs : Nat]) /\ Len(fromCray) > 0
        /\ xmt.code = concGuest.code
        /\ IF k = 0 THEN xmt.state = "segStart"
           ELSE xmt.state = "seg" /\ xmt.words = k /\ concGuest.code # "start"
        /\ IF concGuest.code = "start" \/ k + Len(fromCray) = SegWords
           THEN concGuest.words = 0 /\ concGuest.todo = subsegs - 1
           ELSE /\ concGuest.words = k + Len(fromCray) /\ concGuest.words < SegWords
                /\ concGuest.todo = subsegs
  BY DEF SegmentWritten
<1>2. PICK t \in Nat : t = subsegs
  BY <1>1 DEF ReplyOf
<1>3. PICK f \in Nat : f = Len(fromCray)
  BY <1>1
<1>4. /\ SegWords \in Nat /\ k \in Nat /\ t > 0 /\ f > 0 /\ ReplyOf(t, k)
  BY <1>1, <1>2, <1>3 DEF PackageSizes
<1> DEFINE start == concGuest.code = "start"
           fills == start \/ k + f = SegWords
<1>5. /\ k # 0 => ~start
      /\ IF fills THEN concGuest.words = 0 /\ concGuest.todo = t - 1
         ELSE concGuest.words = k + f /\ concGuest.todo = t /\ k + f < SegWords
  BY <1>1, <1>2, <1>3
<1>6. xmt.state = IF k = 0 THEN "segStart" ELSE "seg"
  BY <1>1
<1>7. PICK words, ends :
        /\ words = IF xmt.state = "segStart" THEN Len(fromCray) ELSE xmt.words + Len(fromCray)
        /\ ends \in BOOLEAN
        /\ ends <=> words >= segSize \/ xmt.code = "start"
        /\ Transmits(words, ends)
  BY <1>6, SegmentTransmit
<1>8. words = k + f
  BY <1>1, <1>3, <1>4, <1>6, <1>7, SMTT(20)
<1>9. ends <=> fills
  <2>1. ends <=> (k + f >= SegWords \/ start)
    BY <1>1, <1>7, <1>8
  <2>2. k + f >= SegWords \/ start <=> fills
    BY <1>4, <1>5
  <2> QED
    BY <2>1, <2>2
<1>10. /\ subsegs' = IF fills THEN t - 1 ELSE t
       /\ xmt' = [state |-> IF ~fills THEN "seg" ELSE IF t - 1 > 0 THEN "segStart" ELSE "lcpStart",
                  words |-> k + f, code |-> concGuest.code]
  <2> HIDE DEF fills
  <2> QED
    BY <1>1, <1>2, <1>7, <1>8, <1>9 DEF Transmits
<1>11. IF fills THEN ReplyOf(t - 1, 0)' ELSE ReplyOf(t, k + f)'
  <2>1. CASE k = 0
    <3>1. down' = Append(down, [lcp |-> FALSE, n |-> IF start THEN f ELSE SegWords,
                                words |-> f, segs |-> 0])
      BY <1>1, <1>3, <1>6, <2>1, SegmentTransmit
    <3>2. PICK n \in Nat : n = IF start THEN f ELSE SegWords
      BY <1>4
    <3>3. down' = Append(down, [lcp |-> FALSE, n |-> n, words |-> f, segs |-> 0])
      BY <3>1, <3>2
    <3>4. ReplyOf(t, 0)
      BY <1>4, <2>1
    <3>5. /\ f = n => ReplyOf(t - 1, 0)'
          /\ f < SegWords /\ n = SegWords => ReplyOf(t, f)'
      BY <1>4, <3>3, <3>4, Begun
    <3>6. CASE fills
      <4>1. f = n
        BY <1>4, <2>1, <3>2, <3>6
      <4> QED
        BY <3>5, <3>6, <4>1
    <3>7. CASE ~fills
      <4>1. f < SegWords /\ n = SegWords /\ k + f = f
        BY <1>4, <1>5, <2>1, <3>2, <3>7
      <4> QED
        BY <3>5, <3>7, <4>1
    <3> QED
      BY <3>6, <3>7
  <2>2. CASE k # 0
    <3>1. down' = [down EXCEPT ![Len(down)].words = @ + f]
      BY <1>3, <1>6, <2>2, SegmentTransmit
    <3>2. k > 0 /\ k + f <= SegWords /\ (fills <=> k + f = SegWords)
      BY <1>4, <1>5, <2>2
    <3>3. IF k + f = SegWords THEN ReplyOf(t - 1, 0)' ELSE ReplyOf(t, k + f)'
      BY <1>4, <3>1, <3>2, Continued
    <3> QED
      BY <3>2, <3>3
  <2> QED
    BY <2>1, <2>2
<1>12. ReplyOf(concGuest.todo, concGuest.words)'
  <2>1. CASE fills
    <3>1. concGuest'.todo = t - 1 /\ concGuest'.words = 0
      BY <1>5, <2>1
    <3> QED
      BY <1>11, <2>1, <3>1
  <2>2. CASE ~fills
    <3>1. concGuest'.todo = t /\ concGuest'.words = k + f
      BY <1>5, <2>2
    <3> QED
      BY <1>11, <2>2, <3>1
  <2> QED
    BY <2>1, <2>2
<1>13. AllGot'
  BY <1>1 DEF AllGot
<1>14. xmt' = [state |-> xmt'.state, words |-> xmt'.words, code |-> xmt'.code]
  BY <1>10
<1>15. Transmitted'
  <2>1. subsegs' = concGuest'.todo /\ xmt'.code = concGuest'.code
    BY <1>5, <1>10
  <2>2. CASE fills
    <3>1. concGuest'.words = 0 /\ concGuest'.todo = t - 1
      BY <1>5, <2>2
    <3>2. xmt'.state = IF t - 1 > 0 THEN "segStart" ELSE "lcpStart"
      BY <1>10, <2>2
    <3> QED
      BY <1>12, <1>13, <2>1, <3>1, <3>2 DEF Transmitted
  <2>3. CASE ~fills
    <3>1. concGuest'.words = k + f /\ concGuest'.words # 0 /\ concGuest'.code # "start"
      BY <1>4, <1>5, <2>3
    <3>2. xmt'.state = "seg" /\ xmt'.words = k + f
      BY <1>10, <2>3
    <3> QED
      BY <1>12, <1>13, <2>1, <3>1, <3>2 DEF Transmitted
  <2> QED
    BY <2>2, <2>3
<1> QED
  BY <1>4, <1>10, <1>14, <1>15

(* Tick of the output channel keeps the invariant. *)
LEMMA OutputStep == ASSUME PackageSizes, ConcInv, Conc!OutputTick PROVE ConcInv'
<1>1. ConcTypes /\ Between
  BY DEF ConcInv
<1>2. /\ ~garbled /\ output.active
      /\ output' = [active |-> FALSE, done |-> TRUE, left |-> 0]
      /\ IF concConn = "none" THEN UNCHANGED <<subsegs, xmt, down>> ELSE Conc!StartTransmit
      /\ UNCHANGED <<concConn, stream, packages, rbuf, rcv, segSize, input, concGuest, garbled,
                     got, current, msgs>>
  BY DEF Conc!OutputTick, Conc!bounds
<1>3. concGuest.at # "await"
  BY <1>1, <1>2 DEF Between, Conc!Idle
<1>4. Between'
  BY <1>1, <1>2, <1>3 DEF Between
<1>5. ASSUME subsegs' \in Int,
             xmt' = [state |-> xmt'.state, words |-> xmt'.words, code |-> xmt'.code]
      PROVE ConcTypes'
  <2>1. Receiving' \in Receiver
    <3>1. Receiving \in Receiver
      BY <1>1 DEF ConcTypes
    <3> QED
      BY <1>2, <1>5, <3>1 DEF Receiving, Receiver
  <2> QED
    BY <1>1, <1>2, <1>5, <2>1 DEF ConcTypes
<1>6. CASE concConn = "none"
  <2>1. subsegs \in Int /\ xmt = [state |-> xmt.state, words |-> xmt.words, code |-> xmt.code]
    BY <1>1 DEF ConcTypes, Receiving, Receiver
  <2> QED
    BY <1>2, <1>4, <1>5, <1>6, <2>1 DEF ConcInv
<1>7. CASE concConn # "none"
  <2>1. Connected
    BY <1>2, <1>7 DEF ConcInv
  <2>2. concGuest.at = "write" /\ Replying
    <3>1. concGuest.at \in {"await", "read", "reply", "write"}
      BY <1>1 DEF ConcTypes
    <3> QED
      BY <1>2, <1>3, <2>1, <3>1 DEF Connected, Programs, Reading, Conc!Idle
  <2>3. ~input.active /\ ~input.done /\ (LcpWritten \/ SegmentWritten)
    BY <1>2, <2>2 DEF Replying
  <2>4. AllGot
    BY <2>3 DEF LcpWritten, SegmentWritten
  <2>5. segSize = SegWords
    <3>1. PICK u, w : /\ Units(u, packages) /\ WordsOf(w, packages)
                      /\ \E n \in Nat : Cut(Receiving, u, w, n)
      BY <2>1 DEF Connected
    <3>2. PICK n \in Nat : Cut(Receiving, u, w, n)
      BY <3>1
    <3>3. Receiving \in Receiver /\ stream \in Seq(Unit) /\ IsMessage(packages)
      BY <1>1 DEF ConcTypes
    <3>4. n = 0
      BY <2>4, <3>1, <3>2, <3>3, AllRead DEF AllGot
    <3>5. packages # <<>>
      <4>1. got # <<>> /\ Len(got) = Len(packages) /\ got \in Seq(Seq(Unit))
        BY <1>1, <2>4 DEF AllGot, ConcTypes
      <4> QED
        BY <4>1
    <3>6. Receiving.size = SegWords
      BY <3>2, <3>4, <3>5 DEF Cut
    <3> QED
      BY <3>6 DEF Receiving
  <2>6. /\ Transmitted' /\ subsegs' \in Int
        /\ xmt' = [state |-> xmt'.state, words |-> xmt'.words, code |-> xmt'.code]
    BY <1>2, <1>7, <2>3, <2>5, LcpSent, SegmentSent
  <2>7. Programs'
    BY <1>2, <2>2, <2>3, <2>6 DEF Programs, Replying
  <2>8. Connected'
    BY <1>1, <1>2, <2>1, <2>4, <2>7, StillCut
  <2> QED
    BY <1>4, <1>5, <2>6, <2>8 DEF ConcInv
<1> QED
  BY <1>6, <1>7

-----------------------------------------------------------------------------
(* The station *)

(* What it sends is a message. *)
IsPackage(p, n, code, segs) ==
  /\ p \in Seq(Unit) /\ Len(p) = n
  /\ n > 0 => p[1].code = code /\ p[1].segs = segs

(* A package has the form that it needs. *)
LEMMA PackageSent ==
  ASSUME NEW m \in Nat, NEW place \in Nat, NEW n \in Nat, NEW code \in {"none", "data", "logon"},
         NEW segs \in Nat
  PROVE IsPackage(Conc!Package(m, place, n, code, segs), n, code, segs)
<1> DEFINE word(i) == [id |-> <<m, place, i>>, code |-> code, segs |-> segs, length |-> 0]
<1>1. ASSUME NEW i \in 1 .. n PROVE word(i) \in Unit /\ word(i).code = code /\ word(i).segs = segs
  <2>1. <<m, place, i>> \in Seq(Nat)
    OBVIOUS
  <2> QED
    BY <2>1 DEF Unit
<1>2. Conc!Package(m, place, n, code, segs) = [i \in 1 .. n |-> word(i)]
  BY DEF Conc!Package
<1> HIDE DEF word
<1>3. [i \in 1 .. n |-> word(i)] \in Seq(Unit) /\ Len([i \in 1 .. n |-> word(i)]) = n
  BY <1>1
<1>4. n > 0 => [i \in 1 .. n |-> word(i)][1] = word(1) /\ 1 \in 1 .. n
  OBVIOUS
<1> QED
  BY <1>1, <1>2, <1>3, <1>4 DEF IsPackage

(* So has a message. *)
LEMMA MessageSent ==
  ASSUME PackageSizes, NEW m \in Nat, NEW code \in {"data", "logon"}, NEW segs \in 0 .. MaxSegs,
         NEW short \in 1 .. SegWords, segs = 0 => code = "data"
  PROVE /\ IsMessage(Conc!Message(m, code, segs, short))
        /\ Conc!Message(m, code, segs, short) # <<>>
        /\ Conc!Message(m, code, segs, short)[1][1].code = code
<1>1. /\ LcpWords \in Nat /\ LcpWords > 0 /\ SegWords \in Nat /\ segs \in Nat /\ short \in Nat
  BY DEF PackageSizes
<1> DEFINE lcp == Conc!Package(m, 0, LcpWords, code, segs)
           seg(s) == Conc!Package(m, s, IF s = segs THEN short ELSE SegWords, "none", 0)
           all == Conc!Message(m, code, segs, short)
<1>2. lcp \in Seq(Unit) /\ Len(lcp) = LcpWords /\ lcp[1].code = code /\ lcp[1].segs = segs
  <2>1. 0 \in Nat /\ code \in {"none", "data", "logon"}
    OBVIOUS
  <2>2. IsPackage(lcp, LcpWords, code, segs)
    BY <1>1, <2>1, PackageSent, Zenon
  <2> HIDE DEF lcp
  <2> QED
    BY <1>1, <2>2 DEF IsPackage
<1>3. ASSUME NEW s \in 1 .. segs
      PROVE /\ seg(s) \in Seq(Unit) /\ Len(seg(s)) = IF s = segs THEN short ELSE SegWords
  <2>1. PICK n \in Nat : n = IF s = segs THEN short ELSE SegWords
    BY <1>1
  <2>2. IsPackage(Conc!Package(m, s, n, "none", 0), n, "none", 0)
    <3>1. s \in Nat /\ 0 \in Nat /\ "none" \in {"none", "data", "logon"}
      OBVIOUS
    <3> QED
      BY <2>1, <3>1, PackageSent, Zenon
  <2> QED
    BY <2>1, <2>2, Zenon DEF IsPackage
<1>4. all = <<lcp>> \o [s \in 1 .. segs |-> seg(s)]
  BY DEF Conc!Message
<1> HIDE DEF lcp, seg, all
<1>5. [s \in 1 .. segs |-> seg(s)] \in Seq(Seq(Unit)) /\ Len([s \in 1 .. segs |-> seg(s)]) = segs
  BY <1>1, <1>3
<1>6. /\ all \in Seq(Seq(Unit)) /\ Len(all) = segs + 1 /\ all[1] = lcp
      /\ \A p \in 2 .. segs + 1 : all[p] = seg(p - 1)
  <2> DEFINE rest == [s \in 1 .. segs |-> seg(s)]
  <2>1. rest \in Seq(Seq(Unit)) /\ Len(rest) = segs /\ \A s \in 1 .. segs : rest[s] = seg(s)
    BY <1>5
  <2>2. all = <<lcp>> \o rest
    BY <1>4
  <2> HIDE DEF rest
  <2>3. <<lcp>> \in Seq(Seq(Unit)) /\ Len(<<lcp>>) = 1 /\ <<lcp>>[1] = lcp
    BY <1>2
  <2>4. all \in Seq(Seq(Unit)) /\ Len(all) = segs + 1 /\ all[1] = lcp
    BY <1>1, <2>1, <2>2, <2>3
  <2>5. ASSUME NEW p \in 2 .. segs + 1 PROVE all[p] = seg(p - 1)
    <3>1. p - 1 \in 1 .. segs
      BY <1>1
    <3>2. all[p] = rest[p - 1]
      BY <1>1, <2>1, <2>2, <2>3
    <3> QED
      BY <2>1, <3>1, <3>2
  <2> QED
    BY <2>4, <2>5
<1>7. ASSUME NEW p \in 2 .. Len(all)
      PROVE Len(all[p]) \in 1 .. SegWords /\ (p <= Len(all) - 1 => Len(all[p]) = SegWords)
  <2>1. p - 1 \in 1 .. segs /\ all[p] = seg(p - 1) /\ (p <= Len(all) - 1 => p - 1 # segs)
    BY <1>1, <1>6
  <2>2. Len(seg(p - 1)) = IF p - 1 = segs THEN short ELSE SegWords
    BY <1>3, <2>1
  <2> QED
    BY <1>1, <2>1, <2>2
<1>8. all # <<>> /\ all[1][1].code = code /\ all[1][1].segs = Len(all) - 1
  BY <1>1, <1>2, <1>6
<1>9. code = "logon" => Len(all) > 1
  BY <1>1, <1>6
<1>10. IsMessage(all)
  <2>1. \A p \in 2 .. Len(all) - 1 : Len(all[p]) = SegWords
    <3>1. ASSUME NEW p \in 2 .. Len(all) - 1 PROVE Len(all[p]) = SegWords
      <4>1. p \in 2 .. Len(all) /\ p <= Len(all) - 1
        BY <1>1, <1>6
      <4> QED
        BY <1>7, <4>1
    <3> QED
      BY <3>1
  <2> QED
    BY <1>2, <1>6, <1>7, <1>8, <1>9, <2>1 DEF IsMessage
<1> QED
  BY <1>8, <1>10 DEF all

(* A reply that answers is complete. *)
LEMMA ReplyDone ==
  ASSUME PackageSizes, NEW t, NEW k, ReplyOf(t, k), packages # <<>>, Conc!Answered
  PROVE t = 0 /\ k = 0
<1>1. /\ down # <<>>
      /\ \A p \in DOMAIN down :
           down[p].words = down[p].n /\ (down[p].lcp => p + down[p].segs <= Len(down))
  BY DEF Conc!Answered
<1>2. /\ down \in Seq(DownPackage) /\ t \in Nat /\ k \in 0 .. SegWords - 1 /\ SegWords \in Nat
      /\ Len(down) \in Nat /\ Len(down) > 0
  BY <1>1 DEF ReplyOf, PackageSizes
<1>3. DOMAIN down = 1 .. Len(down) /\ down[1].lcp
  BY <1>2 DEF ReplyOf
<1>4. 1 + down[1].segs <= Len(down) /\ down[Len(down)].words = down[Len(down)].n
  BY <1>1, <1>2, <1>3
<1>5. k = 0
  <2> SUFFICES ASSUME k > 0 PROVE FALSE
    BY <1>2
  <2>1. down[Len(down)].words = k /\ down[Len(down)].n = SegWords
    BY DEF ReplyOf
  <2>2. k = SegWords
    BY <1>4, <2>1
  <2> QED
    BY <1>2, <2>2
<1>6. t = 0
  <2>1. Len(down) - 1 + t = down[1].segs
    BY <1>5 DEF ReplyOf
  <2> QED
    BY <1>2, <1>4, <2>1
<1> QED
  BY <1>5, <1>6

(* Where the IOP can be when the station sends *)
LEMMA SendWhen ==
  ASSUME PackageSizes, ConcTypes, Between, Connected, Conc!Answered
  PROVE /\ ~input.done /\ concGuest.at \in {"await", "write"} /\ xmt.state = "lcpStart"
        /\ Len(got) = Len(packages) /\ (packages = <<>> => concGuest.at = "await")
        /\ concGuest.at = "write" => /\ ~input.active /\ ~output.active /\ output.done
                                     /\ concGuest.todo = 0 /\ concGuest.words = 0
<1>1. /\ concGuest.at \in {"await", "read", "reply", "write"} /\ Programs
      /\ got \in Seq(Seq(Unit)) /\ packages \in Seq(Seq(Unit))
  BY DEF ConcTypes, Connected, IsMessage
<1>2. Len(got) <= Len(packages)
  <2>1. PICK n \in Nat : n \in 0 .. Len(packages) - Len(got)
    BY DEF Connected, Cut
  <2> QED
    BY <1>1, <2>1
<1>3. CASE packages = <<>>
  <2>1. got = <<>> /\ Len(got) = Len(packages) /\ ~AllGot
    BY <1>1, <1>2, <1>3 DEF AllGot
  <2>2. concGuest.at # "read" /\ concGuest.at # "reply"
    BY <1>1, <2>1 DEF Programs, Reading
  <2>3. concGuest.at # "write"
    BY <1>1, <1>3, <2>1
    DEF Programs, Replying, LcpWritten, SegmentWritten, Transmitted, Asked
  <2>4. Awaits /\ concGuest.at = "await"
    BY <1>1, <2>2, <2>3 DEF Programs
  <2>5. xmt.state = "lcpStart" /\ ~input.done
    BY <2>1, <2>4 DEF Awaits
  <2> QED
    BY <2>1, <2>4, <2>5
<1>4. CASE packages # <<>>
  <2>1. down # <<>> /\ ~Fresh
    BY <1>4 DEF Conc!Answered, Fresh
  <2>2. concGuest.at # "read" /\ concGuest.at # "reply"
    BY <1>1, <2>1 DEF Programs, Reading
  <2>3. CASE concGuest.at = "await"
    <3>1. Awaits
      BY <1>1, <2>3 DEF Programs
    <3> QED
      BY <1>4, <2>1, <2>3, <3>1 DEF Awaits, AllGot
  <2>4. CASE concGuest.at = "write"
    <3>1. Replying
      BY <1>1, <2>4 DEF Programs
    <3>2. ~LcpWritten /\ ~Asked
      BY <2>1 DEF LcpWritten, Asked
    <3>3. ~SegmentWritten
      <4> SUFFICES ASSUME SegmentWritten PROVE FALSE
        OBVIOUS
      <4>1. PICK k \in 0 .. SegWords - 1 : ReplyOf(subsegs, k) /\ subsegs > 0
        BY DEF SegmentWritten
      <4>2. subsegs = 0
        BY <1>4, <4>1, ReplyDone
      <4> QED
        BY <4>1, <4>2
    <3>4. Transmitted /\ ~input.active /\ ~input.done /\ ~output.active /\ output.done
      BY <3>1, <3>2, <3>3 DEF Replying
    <3>5. concGuest.todo = 0 /\ concGuest.words = 0
      <4>1. ReplyOf(concGuest.todo, concGuest.words)
        BY <3>4 DEF Transmitted
      <4> QED
        BY <1>4, <4>1, ReplyDone
    <3>6. xmt.state = "lcpStart" /\ Len(got) = Len(packages)
      BY <3>4, <3>5 DEF Transmitted, AllGot
    <3> QED
      BY <1>4, <2>4, <3>4, <3>5, <3>6
  <2> QED
    BY <1>1, <2>2, <2>3, <2>4
<1> QED
  BY <1>3, <1>4

(* The station's next message keeps the invariant. *)
LEMMA SendStep ==
  ASSUME PackageSizes, ConcInv, NEW code \in {"data", "logon"}, NEW segs \in 0 .. MaxSegs,
         NEW short \in 1 .. SegWords, Conc!Send(code, segs, short)
  PROVE ConcInv'
<1>1. ConcTypes /\ Between
  BY DEF ConcInv
<1>2. /\ msgs' = msgs + 1 /\ (code = "logon" <=> packages = <<>>)
      /\ segs = 0 => code = "data"
      /\ (concConn = "open" /\ Conc!Answered) \/ (concConn = "none" /\ packages = <<>>)
      /\ packages' = Conc!Message(msgs, code, segs, short)
      /\ stream' = stream \o Conc!Stream(packages')
      /\ IF concConn = "open" THEN got' = <<>> /\ down' = <<>> ELSE UNCHANGED <<got, down>>
      /\ UNCHANGED <<concConn, rbuf, rcv, subsegs, segSize, xmt, fromCray, input, output, concGuest,
                     garbled, current>>
  BY DEF Conc!Send, Conc!machine, Conc!channels
<1>3. IsMessage(packages') /\ packages' # <<>> /\ packages'[1][1].code = code
  <2>1. msgs \in Nat
    BY <1>1 DEF ConcTypes
  <2> QED
    BY <1>2, <2>1, MessageSent
<1>4. packages' \in Seq(Seq(Unit)) /\ Len(packages') \in Nat /\ Len(packages') > 0
  <2>1. packages' \in Seq(Seq(Unit))
    BY <1>3 DEF IsMessage
  <2> QED
    BY <1>3, <2>1
<1>5. PICK u : Units(u, packages') /\ Conc!Stream(packages') = u[Len(packages')]
  BY <1>4, StreamUnits
<1>6. Conc!Stream(packages') \in Seq(Unit)
  BY <1>4, <1>5 DEF Units
<1>7. stream \in Seq(Unit) /\ stream' \in Seq(Unit)
  <2>1. stream \in Seq(Unit)
    BY <1>1 DEF ConcTypes
  <2> QED
    BY <1>2, <1>6, <2>1, ConcatProperties, Zenon
<1>8. ConcTypes'
  <2>1. Receiving' = Receiving
    BY <1>2 DEF Receiving
  <2>2. got' \in Seq(Seq(Unit)) /\ msgs' \in Nat
    <3>1. got \in Seq(Seq(Unit)) /\ msgs \in Nat /\ <<>> \in Seq(Seq(Unit))
      BY <1>1 DEF ConcTypes
    <3>2. msgs' \in Nat
      BY <1>2, <3>1
    <3>3. got' = <<>> \/ got' = got
      BY <1>2
    <3> QED
      BY <3>1, <3>2, <3>3
  <2> QED
    BY <1>1, <1>2, <1>3, <1>7, <2>1, <2>2 DEF ConcTypes
<1>9. Between'
  <2>1. ASSUME concConn' = "none"
        PROVE packages'[1][1].code = "logon" /\ stream' = Conc!Stream(packages')
    <3>1. packages = <<>> /\ stream = <<>> /\ code = "logon"
      BY <1>1, <1>2, <2>1 DEF Between
    <3>2. <<>> \o Conc!Stream(packages') = Conc!Stream(packages')
      BY <1>6, ConcatEmptySeq, Zenon
    <3> QED
      BY <1>2, <1>3, <3>1, <3>2
  <2> QED
    BY <1>1, <1>2, <1>3, <2>1 DEF Between, Conc!Idle
<1> SUFFICES ASSUME ~garbled, concConn # "none" PROVE Connected'
  BY <1>2, <1>8, <1>9 DEF ConcInv
<1>10. Connected /\ concConn = "open" /\ Conc!Answered /\ got' = <<>> /\ down' = <<>>
  BY <1>2 DEF ConcInv
<1>11. /\ ~input.done /\ concGuest.at \in {"await", "write"} /\ xmt.state = "lcpStart"
       /\ Len(got) = Len(packages) /\ (packages = <<>> => concGuest.at = "await")
       /\ concGuest.at = "write" => /\ ~input.active /\ ~output.active /\ output.done
                                    /\ concGuest.todo = 0 /\ concGuest.words = 0
  BY <1>1, <1>10, SendWhen
<1>12. /\ rbuf = <<>> /\ stream = <<>> /\ rcv.state = "lcpLength" /\ rcv.data = <<>>
       /\ packages # <<>> => segSize = SegWords
  <2>1. PICK v, w : /\ Units(v, packages) /\ WordsOf(w, packages)
                    /\ \E n \in Nat : Cut(Receiving, v, w, n)
    BY <1>10 DEF Connected
  <2>2. PICK n \in Nat : Cut(Receiving, v, w, n)
    BY <2>1
  <2>3. Receiving \in Receiver /\ IsMessage(packages)
    BY <1>1 DEF ConcTypes
  <2>4. /\ n = 0 /\ rbuf = <<>> /\ stream = <<>> /\ rcv.state = "lcpLength" /\ rcv.data = <<>>
    BY <1>7, <1>11, <2>1, <2>2, <2>3, AllRead
  <2>5. packages # <<>> => Receiving.size = SegWords
    BY <2>2, <2>4 DEF Cut
  <2> QED
    BY <2>4, <2>5 DEF Receiving
<1>13. PICK w : WordsOf(w, packages')
  BY <1>4, MessageWords
<1>14. Cut(Receiving, u, w, Len(packages))'
  <2>1. stream' = u[Len(packages')] /\ <<>> \o stream' = stream'
    <3>1. <<>> \o Conc!Stream(packages') = Conc!Stream(packages') /\ <<>> \o stream' = stream'
      BY <1>6, <1>7, ConcatEmptySeq, Zenon
    <3> QED
      BY <1>2, <1>5, <1>12, <3>1
  <2>2. Len(packages') - Len(got') = Len(packages')
    BY <1>4, <1>10
  <2>3. <<>> \o w[Len(packages')] = w[Len(packages')]
    <3>1. w[Len(packages')] \in Seq(Unit)
      <4>1. w \in [0 .. Len(packages') -> Seq(Unit)] /\ Len(packages') \in 0 .. Len(packages')
        BY <1>4, <1>13 DEF WordsOf
      <4> QED
        BY <4>1, Zenon
    <3> QED
      BY <3>1, ConcatEmptySeq, Zenon
  <2>4. /\ Receiving'.state = "lcpLength" /\ Receiving'.buf = <<>> /\ Receiving'.data = <<>>
        /\ Receiving'.size = segSize
    BY <1>2, <1>12 DEF Receiving
  <2>5. packages'[1][1].code # "logon" => Receiving'.size = SegWords
    BY <1>2, <1>3, <1>12, <2>4
  <2> HIDE DEF Receiving
  <2> QED
    BY <1>4, <2>1, <2>2, <2>3, <2>4, <2>5 DEF Cut
<1>15. Programs'
  <2>1. concGuest.at = "write" => Asked'
    BY <1>2, <1>3, <1>10, <1>11 DEF Asked, Fresh
  <2>2. Awaits'
    BY <1>2, <1>10, <1>11 DEF Awaits
  <2> QED
    BY <1>2, <1>11, <2>1, <2>2 DEF Programs, Replying
<1>16. current' = <<>> /\ \A p \in 1 .. Len(got') : got'[p] = packages'[p]
  BY <1>2, <1>10 DEF Connected
<1> QED
  BY <1>5, <1>13, <1>14, <1>15, <1>16, <1>4 DEF Connected

-----------------------------------------------------------------------------

(* Every step of the concentrator keeps the invariant. *)
LEMMA ConcStep == ASSUME PackageSizes, ConcInv, [Conc!Next]_(Conc!vars) PROVE ConcInv'
<1>1. CASE Conc!AcceptHandler
  BY <1>1, AcceptStep
<1>2. CASE Conc!AcceptFails \/ Conc!ReadFails \/ Conc!FailedHandler
  BY <1>2, CloseStep
<1>3. CASE Conc!ReadHandler
  BY <1>3, ReadStep
<1>4. CASE Conc!MasterClear
  BY <1>4, MasterClearStep
<1>5. CASE Conc!InputTick
  BY <1>5, InputStep
<1>6. CASE Conc!ReadNext
  BY <1>6, ReadNextStep
<1>7. CASE Conc!AwaitLcp
  BY <1>7, AwaitLcpStep
<1>8. CASE Conc!OutputTick
  BY <1>8, OutputStep
<1>9. CASE Conc!Connect \/ Conc!Disconnect
  BY <1>9, PeerStep
<1>10. CASE \E code \in {"data", "start"}, segs \in 0 .. MaxSegs : Conc!WriteLcp(code, segs)
  BY <1>10, WriteLcpStep
<1>11. CASE \E words \in 1 .. SegWords : Conc!WriteSegment(words)
  BY <1>11, WriteSegmentStep
<1>12. CASE \E code \in {"data", "logon"}, segs \in 0 .. MaxSegs, short \in 1 .. SegWords :
              Conc!Send(code, segs, short)
  BY <1>12, SendStep
<1>13. CASE UNCHANGED Conc!vars
  <2>1. /\ UNCHANGED <<rcv, rbuf, subsegs, segSize, current, input, xmt, concGuest, got, stream,
                       packages, down, output, fromCray, garbled, msgs, concConn>>
    BY <1>13 DEF Conc!vars, Conc!network, Conc!machine, Conc!channels, Conc!history, Conc!bounds
  <2>2. ConcTypes /\ Between
    BY DEF ConcInv
  <2>3. ConcTypes'
    BY <2>1, <2>2, ConcTypesSame DEF ConcTypes
  <2>4. Between'
    BY <2>1, <2>2 DEF Between, Conc!Idle
  <2>5. Connected => Connected'
    BY <2>1, <2>2, ConnectedSame
  <2> QED
    BY <2>1, <2>3, <2>4, <2>5 DEF ConcInv
<1> QED
  BY <1>1, <1>2, <1>3, <1>4, <1>5, <1>6, <1>7, <1>8, <1>9, <1>10, <1>11, <1>12, <1>13
  DEF Conc!Next

(* The invariant says that the IOP gets the packages in order ... *)
LEMMA GotInOrder == ASSUME ConcInv PROVE Conc!PduPerTransfer
<1> SUFFICES ASSUME ~garbled, concConn # "none" PROVE Conc!PduPerTransfer
  BY DEF Conc!PduPerTransfer
<1>1. Connected /\ got \in Seq(Seq(Unit)) /\ packages \in Seq(Seq(Unit))
  BY DEF ConcInv, ConcTypes, IsMessage
<1>2. Len(got) <= Len(packages)
  <2>1. PICK n \in Nat : n \in 0 .. Len(packages) - Len(got)
    BY <1>1 DEF Connected, Cut
  <2> QED
    BY <1>1, <2>1
<1>3. current = <<>> /\ \A p \in DOMAIN got : got[p] = packages[p]
  <2>1. DOMAIN got = 1 .. Len(got)
    BY <1>1
  <2> QED
    BY <1>1, <2>1 DEF Connected
<1> QED
  BY <1>2, <1>3 DEF Conc!PduPerTransfer

(* A reply in which each segment is complete, or the last one is not, can *)
(* be followed.                                                            *)
LEMMA ReplyFramed ==
  ASSUME PackageSizes, NEW t, NEW k, ReplyOf(t, k), k = 0 \/ xmt.state = "seg"
  PROVE Conc!DownlineFramed
<1>1. /\ down \in Seq(DownPackage) /\ t \in Nat /\ k \in Nat /\ k < SegWords /\ SegWords \in Nat
      /\ Len(down) \in Nat /\ Len(down) > 0
  BY DEF ReplyOf, PackageSizes
<1>2. /\ \A p \in 1 .. Len(down) : down[p].lcp <=> p = 1
      /\ \A p \in 1 .. Len(down) : p < Len(down) \/ k = 0 => down[p].words = down[p].n
      /\ k > 0 => down[Len(down)].words = k /\ down[Len(down)].n = SegWords
  BY DEF ReplyOf
<1>3. down[1].segs \in Nat /\ down[1].segs + 2 > Len(down)
  <2>1. down[1].segs \in Nat
    <3>1. down[1] \in DownPackage
      BY <1>1
    <3> QED
      BY <3>1 DEF DownPackage
  <2>2. k = 0 => Len(down) - 1 + t = down[1].segs
    BY DEF ReplyOf
  <2>3. k > 0 => Len(down) - 2 + t = down[1].segs /\ t > 0
    BY DEF ReplyOf
  <2> QED
    BY <1>1, <2>1, <2>2, <2>3
<1>4. ASSUME NEW p \in 1 .. Len(down)
      PROVE /\ down[p].words <= down[p].n
            /\ p < Len(down) \/ xmt.state # "seg" => down[p].words = down[p].n
            /\ p = 1 => down[p].lcp
            /\ down[p].lcp =>
                 \A q \in p + 1 .. Len(down) : q <= p + down[p].segs + 1 =>
                   (down[q].lcp <=> q = p + down[p].segs + 1)
  <2>1. down[p].n \in Nat /\ down[p].words \in Nat
    <3>1. down[p] \in DownPackage
      BY <1>1
    <3> QED
      BY <3>1 DEF DownPackage
  <2>2. CASE p < Len(down) \/ k = 0
    <3>1. down[p].words = down[p].n /\ down[p].words <= down[p].n
      BY <1>2, <2>1, <2>2
    <3>2. ASSUME down[p].lcp, NEW q \in p + 1 .. Len(down)
          PROVE ~down[q].lcp /\ q # p + down[p].segs + 1
      <4>1. p = 1 /\ q \in 1 .. Len(down) /\ q # 1
        BY <1>1, <1>2, <3>2
      <4> QED
        BY <1>1, <1>2, <1>3, <4>1
    <3> QED
      BY <1>2, <3>1, <3>2
  <2>3. CASE p = Len(down) /\ k > 0
    <3>1. down[p].words = k /\ down[p].n = SegWords /\ k <= SegWords /\ xmt.state = "seg"
      BY <1>1, <1>2, <2>3
    <3>2. p + 1 .. Len(down) = {}
      BY <1>1, <2>3
    <3> QED
      BY <1>2, <2>3, <3>1, <3>2
  <2> QED
    BY <1>1, <2>2, <2>3
<1>5. DOMAIN down = 1 .. Len(down)
  BY <1>1
<1> QED
  BY <1>4, <1>5 DEF Conc!DownlineFramed

(* ... and that the station can follow the reply. *)
LEMMA RepliesInOrder == ASSUME PackageSizes, ConcInv PROVE Conc!DownlineFramed
<1> SUFFICES ASSUME ~garbled, concConn # "none", down # <<>> PROVE Conc!DownlineFramed
  BY DEF Conc!DownlineFramed
<1>1. Programs /\ concGuest.at \in {"await", "read", "reply", "write"} /\ ~Fresh
  BY DEF ConcInv, ConcTypes, Connected, Fresh
<1>2. \E t, k : ReplyOf(t, k) /\ (k = 0 \/ xmt.state = "seg")
  <2>1. CASE concGuest.at = "await"
    <3>1. ReplyOf(0, 0)
      BY <1>1, <2>1 DEF Programs, Awaits
    <3> QED
      BY <3>1
  <2>2. concGuest.at # "read" /\ concGuest.at # "reply"
    BY <1>1 DEF Programs, Reading
  <2>3. CASE concGuest.at = "write"
    <3>1. SegmentWritten \/ Transmitted
      BY <1>1, <2>3 DEF Programs, Replying, LcpWritten, Asked
    <3>2. CASE SegmentWritten
      <4>1. PICK n \in 0 .. SegWords - 1 : ReplyOf(subsegs, n) /\ (n = 0 \/ xmt.state = "seg")
        BY <3>2 DEF SegmentWritten
      <4> QED
        BY <4>1
    <3>3. CASE Transmitted
      <4>1. /\ ReplyOf(concGuest.todo, concGuest.words)
            /\ concGuest.words = 0 \/ xmt.state = "seg"
        BY <3>3 DEF Transmitted
      <4> QED
        BY <4>1
    <3> QED
      BY <3>1, <3>2, <3>3
  <2> QED
    BY <1>1, <2>1, <2>2, <2>3
<1> QED
  BY <1>2, ReplyFramed

(* IopConcentratorChannel_c: each transfer of the IOP gets one package, in *)
(* order, and the station gets every length right, for any sizes of the    *)
(* packages, any number of connections and any order of the handlers.      *)
THEOREM ConcentratorKeeps ==
  ASSUME PackageSizes
  PROVE Conc!Spec => []Conc!PduPerTransfer /\ []Conc!DownlineFramed
<1>1. Conc!Init => ConcInv
  BY ConcStart
<1>2. ConcInv /\ [Conc!Next]_(Conc!vars) => ConcInv'
  BY ConcStep
<1>3. ConcInv => Conc!PduPerTransfer /\ Conc!DownlineFramed
  BY GotInOrder, RepliesInOrder
<1> QED
  BY <1>1, <1>2, <1>3, PTL DEF Conc!Spec

-----------------------------------------------------------------------------
(* The concentrator among all peripherals *)

(* A transfer of the IOP gets one package of the station, whole and in     *)
(* order: the transfer size and IsReceptionComplete end it where the       *)
(* package does.                                                           *)
THEOREM PackagesDelivered == ASSUME PackageSizes PROVE IopSpec => []PduPerTransfer
<1>1. Conc!PduPerTransfer => PduPerTransfer
  BY DEF PduPerTransfer
<1> QED
  BY <1>1, PartsApart, ConcentratorKeeps, PTL

(* ProcessFromCrayData gives the station the length of each package that   *)
(* follows, and as many segments as the LCP announced.                     *)
THEOREM RepliesFramed == ASSUME PackageSizes PROVE IopSpec => []DownlineFramed
<1>1. Conc!DownlineFramed => DownlineFramed
  BY DEF DownlineFramed
<1> QED
  BY <1>1, PartsApart, ConcentratorKeeps, PTL
=============================================================================

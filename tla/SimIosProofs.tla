---------------------------- MODULE SimIosProofs ----------------------------
(***************************************************************************)
(* Proofs about a simulated I/O subsystem, for every set of drives and     *)
(* requests, every size of a buffer and every number of requests.          *)
(***************************************************************************)
EXTENDS SimIos, FiniteSetTheorems, WellFoundedInduction, TLAPS

-----------------------------------------------------------------------------
(* Induction over the natural numbers, for a set in place of a predicate   *)

(* A set of natural numbers has a least one. *)
LEMMA LeastNumber ==
  ASSUME NEW T, T \subseteq Nat, T # {} PROVE \E n \in T : \A m \in T : n <= m
<1> DEFINE Below == {0 .. n : n \in T}
<1>1. Below \subseteq FiniteSubsetsOf(Nat) /\ Below # {}
  <2>1. ASSUME NEW n \in T PROVE 0 .. n \in FiniteSubsetsOf(Nat)
    <3>1. IsFiniteSet(0 .. n)
      BY FS_Interval
    <3>2. 0 .. n \subseteq Nat
      OBVIOUS
    <3> QED
      BY <3>1, <3>2 DEF FiniteSubsetsOf
  <2>2. PICK n \in T : TRUE
    OBVIOUS
  <2>3. 0 .. n \in Below
    OBVIOUS
  <2> QED
    BY <2>1, <2>3
<1>2. PICK x \in Below : \A y \in Below : ~(<<y, x>> \in StrictSubsetOrdering(Nat))
  BY <1>1, FS_StrictSubsetOrderingWellFounded, WFMin
<1>3. PICK n \in T : x = 0 .. n
  OBVIOUS
<1>4. ASSUME NEW m \in T, m < n PROVE FALSE
  <2>1. 0 .. m \in Below
    OBVIOUS
  <2>2. 0 .. m \subseteq 0 .. n /\ 0 .. m # 0 .. n
    BY <1>4
  <2>3. <<0 .. m, 0 .. n>> \in StrictSubsetOrdering(Nat)
    BY <2>2 DEF StrictSubsetOrdering
  <2> QED
    BY <1>2, <1>3, <2>1, <2>3
<1> QED
  BY <1>4

LEMMA SetInduction ==
  ASSUME NEW S, 0 \in S, \A n \in Nat : n \in S => n + 1 \in S PROVE Nat \subseteq S
<1> SUFFICES ASSUME Nat \ S # {} PROVE FALSE
  OBVIOUS
<1>1. PICK n \in Nat \ S : \A m \in Nat \ S : n <= m
  BY LeastNumber
<1>2. n - 1 \in Nat /\ n - 1 \in S
  BY <1>1
<1> QED
  BY <1>1, <1>2

-----------------------------------------------------------------------------
(* The invariants *)

Reply == [type |-> "reply"]

(* What the mainframe's output channel carries: requests of an IOSD,       *)
(* numbered requests of an IOSE, replies of the handshake.                 *)
Words ==
  DRequests \cup {Reply}
  \cup [type : RequestTypes, drive : {r.drive : r \in ERequests}, seq : Numbers, ini : BOOLEAN]

TypeInv ==
  /\ config \in Configs
  /\ state \in {"Reset", "WaitTimeSent", "WaitISent", "WaitJSent",
                "RunningYEL", "RunningJ90", "KernelPanic"}
  /\ seqSent \in Numbers /\ seqReceived \in Numbers
  /\ packet \in Seq(AllPackets) /\ Len(packet) <= 1
  /\ queue \in Seq(AllPackets) /\ got \in Seq(AllPackets)
  /\ inbox \in Seq(Words) /\ outbox \in Seq(Words)
  /\ consoles \in Nat /\ unsent \in Nat /\ handled \in Nat
  /\ batches \in Nat /\ nsent \in Nat /\ asked \in Nat

(* A packet before another on the way to the mainframe: no two have the    *)
(* same identity, and those of a batch come in the order they were sent.   *)
Before(p, q) == p.id # q.id /\ (p.batch = q.batch => p.id < q.id)
Ordered(s) == \A i, j \in 1 .. Len(s) : i < j => Before(s[i], s[j])
Cross(s, t) == \A i \in 1 .. Len(s) : \A j \in 1 .. Len(t) : Before(s[i], t[j])

OrderInv ==
  /\ Ordered(got) /\ Ordered(queue)
  /\ Cross(got, packet) /\ Cross(got, queue) /\ Cross(packet, queue)

(* What is true of every packet sent so far. *)
Sent(p) ==
  /\ p.id <= nsent /\ p.batch <= batches
  /\ IOSE /\ p.req > 0 => p.ack = p.req % SeqRange
  /\ p.kind = "C" => state \in {"RunningYEL", "KernelPanic"}
AllSent(s) == \A i \in 1 .. Len(s) : Sent(s[i])
SentInv == AllSent(got) /\ AllSent(packet) /\ AllSent(queue)

(* A running cluster gets requests and no reply, the handshake waits for   *)
(* one word at a time, and before it nothing was received.                 *)
Known(s) == \A i \in 1 .. Len(s) : s[i].type \in RequestTypes
HandshakeInv ==
  /\ IOSE => state \in {"Reset", "RunningJ90", "KernelPanic"}
  /\ ~IOSE => state # "RunningJ90"
  /\ state \in {"Reset", "WaitTimeSent"} => inbox = <<>> /\ outbox = <<>>
  /\ state \in {"WaitISent", "WaitJSent"} => inbox = <<>> \/ outbox = <<>>
  /\ state \in {"RunningYEL", "RunningJ90", "KernelPanic"} => Known(inbox) /\ Known(outbox)

(* The requests under way to an IOSE are numbered from the last handled. *)
NumberInv ==
  /\ IOSE /\ state = "Reset" => asked = 0 /\ handled = 0
  /\ IOSE /\ state = "RunningJ90" =>
       /\ asked = handled + Len(inbox) + Len(outbox)
       /\ \A i \in 1 .. Len(inbox) : inbox[i].seq = (handled + i) % SeqRange
       /\ \A i \in 1 .. Len(outbox) : outbox[i].seq = (handled + Len(inbox) + i) % SeqRange

ClusterInv == TypeInv /\ OrderInv /\ SentInv /\ HandshakeInv /\ NumberInv

-----------------------------------------------------------------------------
(* What the handlers send *)

(* A packet channel or a queue under the two relations. *)
LEMMA ConcatParts ==
  ASSUME NEW s \in Seq(AllPackets), NEW t \in Seq(AllPackets)
  PROVE /\ s \o t \in Seq(AllPackets) /\ Len(s \o t) = Len(s) + Len(t)
        /\ Len(s) \in Nat /\ Len(t) \in Nat
        /\ \A i \in 1 .. Len(s) : (s \o t)[i] = s[i]
        /\ \A i \in 1 .. Len(t) : (s \o t)[Len(s) + i] = t[i]
        /\ \A i \in 1 .. Len(s) + Len(t) :
             \/ i \in 1 .. Len(s)
             \/ i - Len(s) \in 1 .. Len(t) /\ (s \o t)[i] = t[i - Len(s)]
OBVIOUS

LEMMA OrderedConcat ==
  ASSUME NEW s \in Seq(AllPackets), NEW t \in Seq(AllPackets), Ordered(s), Ordered(t), Cross(s, t)
  PROVE Ordered(s \o t)
<1> SUFFICES ASSUME NEW i \in 1 .. Len(s) + Len(t), NEW j \in 1 .. Len(s) + Len(t), i < j
             PROVE Before((s \o t)[i], (s \o t)[j])
  BY ConcatParts DEF Ordered
<1>1. Len(s) \in Nat /\ Len(t) \in Nat
  OBVIOUS
<1>2. CASE j \in 1 .. Len(s)
  <2>1. i \in 1 .. Len(s)
    BY <1>1, <1>2
  <2> QED
    BY <1>2, <2>1, ConcatParts DEF Ordered
<1>3. CASE j \notin 1 .. Len(s)
  <2>1. j - Len(s) \in 1 .. Len(t) /\ (s \o t)[j] = t[j - Len(s)]
    BY <1>3, ConcatParts
  <2>2. CASE i \in 1 .. Len(s)
    BY <2>1, <2>2, ConcatParts DEF Cross
  <2>3. CASE i \notin 1 .. Len(s)
    <3>1. i - Len(s) \in 1 .. Len(t) /\ (s \o t)[i] = t[i - Len(s)]
      BY <2>3, ConcatParts
    <3>2. i - Len(s) < j - Len(s)
      BY <1>1
    <3> QED
      BY <2>1, <3>1, <3>2 DEF Ordered
  <2> QED
    BY <2>2, <2>3
<1> QED
  BY <1>2, <1>3

LEMMA CrossConcat ==
  ASSUME NEW r \in Seq(AllPackets), NEW s \in Seq(AllPackets), NEW t \in Seq(AllPackets)
  PROVE /\ Cross(r, s) /\ Cross(r, t) => Cross(r, s \o t)
        /\ Cross(r, t) /\ Cross(s, t) => Cross(r \o s, t)
<1>1. ASSUME Cross(r, s), Cross(r, t) PROVE Cross(r, s \o t)
  <2> SUFFICES ASSUME NEW i \in 1 .. Len(r), NEW j \in 1 .. Len(s) + Len(t)
               PROVE Before(r[i], (s \o t)[j])
    BY ConcatParts DEF Cross
  <2>1. CASE j \in 1 .. Len(s)
    BY <1>1, <2>1, ConcatParts DEF Cross
  <2>2. CASE j \notin 1 .. Len(s)
    <3>1. j - Len(s) \in 1 .. Len(t) /\ (s \o t)[j] = t[j - Len(s)]
      BY <2>2, ConcatParts
    <3> QED
      BY <1>1, <3>1 DEF Cross
  <2> QED
    BY <2>1, <2>2
<1>2. ASSUME Cross(r, t), Cross(s, t) PROVE Cross(r \o s, t)
  <2> SUFFICES ASSUME NEW i \in 1 .. Len(r) + Len(s), NEW j \in 1 .. Len(t)
               PROVE Before((r \o s)[i], t[j])
    BY ConcatParts DEF Cross
  <2>1. CASE i \in 1 .. Len(r)
    BY <1>2, <2>1, ConcatParts DEF Cross
  <2>2. CASE i \notin 1 .. Len(r)
    <3>1. i - Len(r) \in 1 .. Len(s) /\ (r \o s)[i] = s[i - Len(r)]
      BY <2>2, ConcatParts
    <3> QED
      BY <1>2, <3>1 DEF Cross
  <2> QED
    BY <2>1, <2>2
<1> QED
  BY <1>1, <1>2

(* The first of a queue and the rest. *)
LEMMA SplitParts ==
  ASSUME NEW s \in Seq(AllPackets), s # <<>>
  PROVE /\ <<Head(s)>> \in Seq(AllPackets) /\ Tail(s) \in Seq(AllPackets)
        /\ Len(<<Head(s)>>) = 1 /\ Len(Tail(s)) = Len(s) - 1 /\ Len(s) \in Nat \ {0}
        /\ Head(s) = s[1] /\ <<Head(s)>>[1] = s[1]
        /\ \A i \in 1 .. Len(s) - 1 : Tail(s)[i] = s[i + 1] /\ i + 1 \in 1 .. Len(s)
        /\ 1 \in 1 .. Len(s)
<1>1. Len(s) \in Nat \ {0} /\ Head(s) = s[1] /\ Head(s) \in AllPackets
  OBVIOUS
<1>2. Tail(s) \in Seq(AllPackets) /\ Len(Tail(s)) = Len(s) - 1
      /\ \A i \in 1 .. Len(s) - 1 : Tail(s)[i] = s[i + 1]
  BY <1>1
<1> QED
  BY <1>1, <1>2

LEMMA SplitOrdered ==
  ASSUME NEW s \in Seq(AllPackets), s # <<>>, NEW r \in Seq(AllPackets)
  PROVE /\ Ordered(s) => Ordered(Tail(s)) /\ Cross(<<Head(s)>>, Tail(s))
        /\ Cross(r, s) => Cross(r, <<Head(s)>>) /\ Cross(r, Tail(s))
<1> DEFINE h == <<Head(s)>>
           u == Tail(s)
<1>1. /\ Len(h) = 1 /\ Len(u) = Len(s) - 1 /\ Len(s) \in Nat \ {0} /\ h[1] = s[1]
      /\ \A i \in 1 .. Len(s) - 1 : u[i] = s[i + 1] /\ i + 1 \in 1 .. Len(s)
      /\ 1 \in 1 .. Len(s)
  BY SplitParts
<1> HIDE DEF h, u
<1>2. ASSUME Ordered(s) PROVE Ordered(u)
  <2>1. ASSUME NEW i \in 1 .. Len(u), NEW j \in 1 .. Len(u), i < j PROVE Before(u[i], u[j])
    <3>1. /\ u[i] = s[i + 1] /\ i + 1 \in 1 .. Len(s) /\ u[j] = s[j + 1] /\ j + 1 \in 1 .. Len(s)
          /\ i + 1 < j + 1
      BY <1>1, <2>1
    <3> QED
      BY <1>2, <3>1 DEF Ordered
  <2> QED
    BY <2>1 DEF Ordered
<1>3. ASSUME Ordered(s) PROVE Cross(h, u)
  <2>1. ASSUME NEW j \in 1 .. Len(u) PROVE Before(h[1], u[j])
    <3>1. u[j] = s[j + 1] /\ j + 1 \in 1 .. Len(s) /\ 1 < j + 1
      BY <1>1
    <3> QED
      BY <1>1, <1>3, <3>1 DEF Ordered
  <2> QED
    BY <1>1, <2>1 DEF Cross
<1>4. ASSUME Cross(r, s) PROVE Cross(r, h) /\ Cross(r, u)
  BY <1>1, <1>4 DEF Cross
<1> QED
  BY <1>2, <1>3, <1>4 DEF h, u

(* What the handling of a buffer has accumulated: its packets are numbered *)
(* on from the last one, belong to a batch of their own, acknowledge what  *)
(* they answer, and are of the given kinds.                                *)
Accs == [sent : Numbers, received : Numbers, out : Seq(AllPackets),
         unsent : Nat, consoles : Nat, done : Nat]

AccOK(a, kinds) ==
  /\ a \in Accs
  /\ \A i \in 1 .. Len(a.out) :
       /\ a.out[i].id = nsent + i /\ a.out[i].batch = batches + 1
       /\ IOSE /\ a.out[i].req > 0 => a.out[i].ack = a.out[i].req % SeqRange
       /\ a.out[i].kind \in kinds

LEMMA NumberRange ==
  /\ SeqRange \in Nat \ {0, 1} /\ 0 \in Numbers /\ 1 \in Numbers
  /\ \A n \in Nat : n % SeqRange \in Numbers
<1>1. SeqRange \in Nat \ {0, 1}
  BY SimIosConstants
<1> QED
  BY <1>1 DEF Numbers

LEMMA AccInit == ASSUME TypeInv, NEW kinds PROVE AccOK(Acc, kinds)
BY DEF AccOK, Accs, Acc, TypeInv

LEMMA SendCopiesOK ==
  ASSUME TypeInv, NEW kinds \in SUBSET Kinds, NEW a, AccOK(a, kinds), NEW kind \in kinds,
         NEW req \in Nat, NEW n \in Nat, IOSE /\ req > 0 => a.received = req % SeqRange
  PROVE /\ AccOK(SendCopies(a, kind, req, n), kinds)
        /\ SendCopies(a, kind, req, n).received = a.received
        /\ SendCopies(a, kind, req, n).done = a.done
<1> DEFINE new == [i \in 1 .. n |-> [id |-> nsent + Len(a.out) + i, kind |-> kind, req |-> req,
                                     batch |-> batches + 1,
                                     seq |-> IF IOSE THEN (a.sent + i - 1) % SeqRange ELSE 0,
                                     ack |-> IF IOSE THEN a.received ELSE 0]]
           s == IF IOSE THEN (a.sent + n) % SeqRange ELSE a.sent
           b == [a EXCEPT !.out = @ \o new, !.sent = s]
<1>1. b = SendCopies(a, kind, req, n)
  BY DEF SendCopies
<1>2. a \in Accs /\ a.out \in Seq(AllPackets) /\ Len(a.out) \in Nat /\ a.sent \in Nat
      /\ a.sent \in Numbers /\ a.received \in Numbers
  BY DEF AccOK, Accs, Numbers
<1>3. s \in Numbers
  <2>1. a.sent + n \in Nat
    BY <1>2
  <2> QED
    BY <1>2, <2>1, NumberRange
<1>4. \A i \in 1 .. n : (a.sent + i - 1) % SeqRange \in Numbers
  <2>1. \A i \in 1 .. n : a.sent + i - 1 \in Nat
    BY <1>2
  <2> QED
    BY <2>1, NumberRange
<1>5. ASSUME NEW i \in 1 .. n PROVE new[i] \in AllPackets
  <2>1. nsent + Len(a.out) + i \in Nat /\ batches + 1 \in Nat /\ kind \in Kinds
    BY <1>2 DEF TypeInv
  <2>2. /\ (IF IOSE THEN (a.sent + i - 1) % SeqRange ELSE 0) \in Numbers
        /\ (IF IOSE THEN a.received ELSE 0) \in Numbers
    BY <1>2, <1>4, NumberRange
  <2> QED
    BY <2>1, <2>2 DEF AllPackets
<1>6. new \in Seq(AllPackets) /\ Len(new) = n
  <2>1. new \in [1 .. n -> AllPackets]
    BY <1>5
  <2> QED
    BY <2>1
<1>7. \A i \in 1 .. n :
        /\ new[i].id = nsent + (Len(a.out) + i) /\ new[i].batch = batches + 1
        /\ IOSE /\ new[i].req > 0 => new[i].ack = new[i].req % SeqRange
        /\ new[i].kind \in kinds
  BY <1>2 DEF TypeInv
<1> HIDE DEF new, s
<1>8. b \in Accs /\ b.out = a.out \o new /\ b.received = a.received /\ b.done = a.done
  <2>1. a.out \o new \in Seq(AllPackets)
    BY <1>2, <1>6
  <2> QED
    BY <1>2, <1>3, <2>1 DEF Accs
<1> HIDE DEF b
<1>9. ASSUME NEW i \in 1 .. Len(b.out)
      PROVE /\ b.out[i].id = nsent + i /\ b.out[i].batch = batches + 1
            /\ IOSE /\ b.out[i].req > 0 => b.out[i].ack = b.out[i].req % SeqRange
            /\ b.out[i].kind \in kinds
  <2>1. CASE i \in 1 .. Len(a.out)
    <3>1. b.out[i] = a.out[i]
      BY <1>2, <1>6, <1>8, <2>1, ConcatParts
    <3> QED
      BY <2>1, <3>1 DEF AccOK
  <2>2. CASE i \notin 1 .. Len(a.out)
    <3>1. i \in 1 .. Len(a.out) + n
      BY <1>2, <1>6, <1>8, ConcatParts
    <3>2. i - Len(a.out) \in 1 .. n /\ b.out[i] = new[i - Len(a.out)]
      BY <1>2, <1>6, <1>8, <2>2, <3>1, ConcatParts
    <3>3. nsent + (Len(a.out) + (i - Len(a.out))) = nsent + i
      BY <1>2 DEF TypeInv
    <3> QED
      BY <1>7, <3>2, <3>3
  <2> QED
    BY <2>1, <2>2
<1> QED
  BY <1>1, <1>8, <1>9 DEF AccOK

(* The handlers send every kind of packet but the last of the handshake. *)
Answers == Kinds \ {"C"}

LEMMA MakeConsolesOK ==
  ASSUME NEW a, AccOK(a, Answers)
  PROVE /\ AccOK(MakeConsoles(a, 0), Answers)
        /\ MakeConsoles(a, 0).received = a.received /\ MakeConsoles(a, 0).done = a.done
        /\ MakeConsoles(a, 0).unsent = a.unsent
<1> DEFINE n == IF a.consoles > 0 THEN a.consoles ELSE 0 + 1
           b == [a EXCEPT !.consoles = n]
<1>1. b = MakeConsoles(a, 0)
  BY DEF MakeConsoles
<1>2. n \in Nat
  BY DEF AccOK, Accs
<1> HIDE DEF n
<1>3. b \in Accs /\ b.out = a.out /\ b.received = a.received /\ b.done = a.done
      /\ b.unsent = a.unsent
  BY <1>2 DEF AccOK, Accs
<1> HIDE DEF b
<1> QED
  BY <1>1, <1>3 DEF AccOK

LEMMA UnsentOK ==
  ASSUME NEW a, NEW kinds, AccOK(a, kinds), NEW n \in Nat
  PROVE /\ AccOK([a EXCEPT !.unsent = n], kinds)
        /\ [a EXCEPT !.unsent = n].received = a.received /\ [a EXCEPT !.unsent = n].done = a.done
<1> DEFINE b == [a EXCEPT !.unsent = n]
<1>1. b \in Accs /\ b.out = a.out /\ b.received = a.received /\ b.done = a.done
  BY DEF AccOK, Accs
<1> HIDE DEF b
<1>2. AccOK(b, kinds) /\ b.received = a.received /\ b.done = a.done
  BY <1>1 DEF AccOK
<1> QED
  BY <1>2 DEF b

LEMMA PutStringsOK ==
  ASSUME TypeInv, NEW a, AccOK(a, Answers), NEW n \in Nat, NEW ready \in BOOLEAN
  PROVE /\ AccOK(PutStrings(a, n, ready), Answers)
        /\ PutStrings(a, n, ready).received = a.received
        /\ PutStrings(a, n, ready).done = a.done
<1> DEFINE b == MakeConsoles(a, 0)
<1>1. AccOK(b, Answers) /\ b.received = a.received /\ b.done = a.done
  BY MakeConsolesOK
<1>2. PutStrings(a, n, ready) = IF ~ready \/ a.unsent > 0 THEN [b EXCEPT !.unsent = b.unsent + n]
                                ELSE IF IOSE /\ config.auto THEN SendCopies(b, "written", 0, n)
                                ELSE b
  BY DEF PutStrings
<1> HIDE DEF b
<1>3. b.unsent + n \in Nat
  BY <1>1 DEF AccOK, Accs
<1>4. CASE ~ready \/ a.unsent > 0
  BY <1>1, <1>2, <1>3, <1>4, UnsentOK
<1>5. CASE ~(~ready \/ a.unsent > 0) /\ IOSE /\ config.auto
  <2>1. "written" \in Answers /\ Answers \in SUBSET Kinds
    BY DEF Answers, Kinds
  <2> QED
    BY <1>1, <1>2, <1>5, <2>1, SendCopiesOK
<1>6. CASE ~(~ready \/ a.unsent > 0) /\ ~(IOSE /\ config.auto)
  BY <1>1, <1>2, <1>6
<1> QED
  BY <1>4, <1>5, <1>6

(* One request, after its header, sends only answers to it. *)
LEMMA HandleOK ==
  ASSUME TypeInv, NEW a, AccOK(a, Answers), NEW r, r.type \in RequestTypes, NEW k \in Nat,
         IOSE => a.received = k % SeqRange, NEW ready \in BOOLEAN
  PROVE AccOK(Handle(a, r, k, ready), Answers) /\ Handle(a, r, k, ready).done = k
<1> DEFINE c == PutStrings(a, 1, ready)
           b == CASE r.type \in {"read", "write"} ->
                       SendCopies(a, r.type, k, Cardinality(Drives(r)))
                  [] r.type \in {"clock", "control", "atm"} -> SendPacket(a, r.type, k)
                  [] r.type = "connect" -> SendPacket(MakeConsoles(a, 0), r.type, k)
                  [] r.type = "string" ->
                       IF IOSE /\ config.auto THEN c ELSE SendPacket(c, r.type, k)
                  [] r.type = "panic" -> PutStrings(a, 3, ready)
                  [] r.type \in {"empty", "K"} -> a
<1>1. Handle(a, r, k, ready) = [b EXCEPT !.done = k]
  BY DEF Handle
<1>2. /\ {"read", "write", "clock", "control", "atm", "connect", "string"} \subseteq Answers
      /\ Answers \in SUBSET Kinds
  BY DEF Answers, Kinds
<1>3. AccOK(b, Answers)
  <2>1. CASE r.type \in {"read", "write"}
    <3>1. Cardinality(Drives(r)) \in Nat
      <4>1. IsFiniteSet(Disks)
        BY SimIosConstants
      <4>2. Drives(r) \in SUBSET Disks
        BY DEF Drives
      <4> QED
        BY <4>1, <4>2, FS_Subset, FS_CardinalityType
    <3>2. b = SendCopies(a, r.type, k, Cardinality(Drives(r)))
      BY <2>1
    <3> HIDE DEF b
    <3> QED
      BY <1>2, <2>1, <3>1, <3>2, SendCopiesOK
  <2>2. CASE r.type \in {"clock", "control", "atm"}
    <3>1. b = SendCopies(a, r.type, k, 1)
      BY <2>2 DEF SendPacket
    <3> HIDE DEF b
    <3> QED
      BY <1>2, <2>2, <3>1, SendCopiesOK
  <2>3. CASE r.type = "connect"
    <3> DEFINE d == MakeConsoles(a, 0)
    <3>1. b = SendCopies(d, r.type, k, 1)
      BY <2>3 DEF SendPacket
    <3>2. AccOK(d, Answers) /\ d.received = a.received
      BY MakeConsolesOK
    <3> HIDE DEF b, d
    <3> QED
      BY <1>2, <2>3, <3>1, <3>2, SendCopiesOK
  <2>4. CASE r.type = "string"
    <3>1. AccOK(c, Answers) /\ c.received = a.received
      BY PutStringsOK
    <3>2. b = IF IOSE /\ config.auto THEN c ELSE SendCopies(c, r.type, k, 1)
      BY <2>4 DEF SendPacket
    <3> HIDE DEF b, c
    <3>3. AccOK(SendCopies(c, r.type, k, 1), Answers)
      BY <1>2, <2>4, <3>1, SendCopiesOK
    <3> QED
      BY <3>1, <3>2, <3>3
  <2>5. CASE r.type = "panic"
    <3>1. b = PutStrings(a, 3, ready)
      BY <2>5
    <3> HIDE DEF b
    <3> QED
      BY <3>1, PutStringsOK
  <2>6. CASE r.type \in {"empty", "K"}
    <3>1. b = a
      BY <2>6
    <3> HIDE DEF b
    <3> QED
      BY <3>1
  <2> QED
    BY <2>1, <2>2, <2>3, <2>4, <2>5, <2>6 DEF RequestTypes
<1> HIDE DEF b
<1>4. [b EXCEPT !.done = k] \in Accs /\ [b EXCEPT !.done = k].out = b.out
      /\ [b EXCEPT !.done = k].done = k
  BY <1>3 DEF AccOK, Accs
<1> DEFINE d == [b EXCEPT !.done = k]
<1> HIDE DEF d
<1>5. d \in Accs /\ d.out = b.out /\ d.done = k
  BY <1>4 DEF d
<1>6. AccOK(d, Answers)
  BY <1>3, <1>5 DEF AccOK
<1> QED
  BY <1>1, <1>5, <1>6 DEF d

(* Handling a buffer, one request after the other. *)
LEMMA HandleBufferOK ==
  ASSUME TypeInv, NEW ready \in BOOLEAN, Known(inbox),
         IOSE => \A i \in 1 .. Len(inbox) : inbox[i].seq = (handled + i) % SeqRange
  PROVE /\ AccOK(HandleBuffer(inbox, ready), Answers)
        /\ HandleBuffer(inbox, ready).done = handled + Len(inbox)
<1> DEFINE L == Len(inbox)
           then(a, i) == LET b == TakeHeader(a, inbox[i])
                         IN  Handle(b, inbox[i], b.done + 1, ready)
           Good(a, i) == AccOK(a, Answers) /\ a.done = handled + i
<1>1. L \in Nat /\ handled \in Nat
  BY DEF TypeInv
<1>2. Good(Acc, 0)
  BY <1>1, AccInit DEF Acc
<1>3. ASSUME NEW a, NEW n \in Nat, n < L, Good(a, n) PROVE Good(then(a, n + 1), n + 1)
  <2> DEFINE r == inbox[n + 1]
             b == TakeHeader(a, r)
  <2>1. r.type \in RequestTypes /\ (IOSE => r.seq = (handled + (n + 1)) % SeqRange)
    BY <1>1, <1>3 DEF Known
  <2>2. handled + (n + 1) \in Nat /\ b.done = a.done
    BY <1>1, <1>3 DEF TakeHeader, AccOK, Accs
  <2>3. b.done + 1 = handled + (n + 1)
    BY <1>1, <1>3, <2>2
  <2>4. AccOK(b, Answers) /\ (IOSE => b.received = (handled + (n + 1)) % SeqRange)
    <3>1. CASE IOSE
      <4> DEFINE q == r.seq
                 s == IF r.ini THEN 1 ELSE a.sent
      <4>1. b = [a EXCEPT !.received = q, !.sent = s]
        BY <3>1 DEF TakeHeader
      <4>2. q \in Numbers
        BY <2>1, <2>2, <3>1, NumberRange
      <4>3. s \in Numbers
        BY <1>3, NumberRange DEF AccOK, Accs
      <4>4. q = (handled + (n + 1)) % SeqRange
        BY <2>1, <3>1
      <4> HIDE DEF q, s, r, b
      <4>5. b \in Accs /\ b.out = a.out /\ b.received = q
        BY <1>3, <4>1, <4>2, <4>3 DEF AccOK, Accs
      <4> QED
        BY <1>3, <4>4, <4>5 DEF AccOK
    <3>2. CASE ~IOSE
      BY <1>3, <3>2 DEF TakeHeader
    <3> QED
      BY <3>1, <3>2
  <2>5. then(a, n + 1) = Handle(b, r, handled + (n + 1), ready)
    BY <2>3
  <2> HIDE DEF b, r, then
  <2> QED
    BY <2>1, <2>2, <2>4, <2>5, HandleOK
<1> DEFINE Run(g, n) == g = [m \in 0 .. n |-> IF m = 0 THEN Acc ELSE then(g[m - 1], m)]
<1>4. HandleBuffer(inbox, ready) = (CHOOSE g : Run(g, L))[L]
  BY DEF HandleBuffer
<1> HIDE DEF then, L
<1> DEFINE Runs == {n \in Nat : n <= L => \E g : Run(g, n)}
<1>5. 0 \in Runs
  <2>1. Run([m \in 0 .. 0 |-> Acc], 0)
    OBVIOUS
  <2> QED
    BY <2>1
<1>6. ASSUME NEW n \in Nat, n \in Runs PROVE n + 1 \in Runs
  <2> SUFFICES ASSUME n + 1 <= L PROVE \E g : Run(g, n + 1)
    OBVIOUS
  <2>1. PICK h : Run(h, n)
    BY <1>1, <1>6
  <2>2. \A m \in 0 .. n : h[m] = IF m = 0 THEN Acc ELSE then(h[m - 1], m)
    BY <2>1
  <2> DEFINE g == [m \in 0 .. n + 1 |-> IF m <= n THEN h[m] ELSE then(h[n], n + 1)]
  <2>3. (\A m \in 0 .. n : g[m] = h[m]) /\ g[n + 1] = then(h[n], n + 1)
    OBVIOUS
  <2>4. ASSUME NEW m \in 0 .. n + 1
        PROVE g[m] = IF m = 0 THEN Acc ELSE then(g[m - 1], m)
    <3> HIDE DEF g
    <3>1. CASE m \in 0 .. n
      <4>1. m # 0 => m - 1 \in 0 .. n
        BY <3>1
      <4> QED
        BY <2>2, <2>3, <3>1, <4>1
    <3>2. CASE m = n + 1
      <4>1. m - 1 = n /\ n \in 0 .. n /\ m # 0
        BY <3>2
      <4> QED
        BY <2>3, <3>2, <4>1
    <3> QED
      BY <3>1, <3>2
  <2>5. Run(g, n + 1)
    BY <2>4
  <2> QED
    BY <2>5
<1>7. L \in Runs
  <2> HIDE DEF Runs
  <2> QED
    BY <1>1, <1>5, <1>6, SetInduction
<1> DEFINE f == CHOOSE g : Run(g, L)
<1>8. Run(f, L)
  BY <1>1, <1>7
<1>9. f[0] = Acc /\ \A m \in 1 .. L : f[m] = then(f[m - 1], m)
  <2>1. \A m \in 0 .. L : f[m] = IF m = 0 THEN Acc ELSE then(f[m - 1], m)
    <3> HIDE DEF f
    <3> QED
      BY <1>8
  <2> HIDE DEF f
  <2> QED
    BY <1>1, <2>1
<1> DEFINE Goods == {n \in Nat : n <= L => Good(f[n], n)}
<1> HIDE DEF f, Good
<1>10. 0 \in Goods
  BY <1>1, <1>2, <1>9
<1>11. ASSUME NEW n \in Nat, n \in Goods PROVE n + 1 \in Goods
  <2> SUFFICES ASSUME n + 1 <= L PROVE Good(f[n + 1], n + 1)
    OBVIOUS
  <2>1. n < L /\ n + 1 \in 1 .. L /\ (n + 1) - 1 = n
    BY <1>1
  <2>2. Good(f[n], n)
    BY <1>1, <1>11, <2>1
  <2>3. f[n + 1] = then(f[n], n + 1)
    BY <1>9, <2>1
  <2> QED
    BY <1>3, <2>1, <2>2, <2>3
<1>12. L \in Goods
  <2> HIDE DEF Goods
  <2> QED
    BY <1>1, <1>10, <1>11, SetInduction
<1>13. Good(f[L], L)
  BY <1>1, <1>12
<1> QED
  BY <1>4, <1>13 DEF f, Good, L

-----------------------------------------------------------------------------
(* The packet channel *)

(* What a step of the channel promises: nothing is lost or doubled. *)
PoolStep == [Pool!Next]_(Pool!vars)

LEMMA InRange ==
  ASSUME NEW s \in Seq(AllPackets)
  PROVE /\ \A x \in Range(s) : \E i \in 1 .. Len(s) : x = s[i]
        /\ \A i \in 1 .. Len(s) : s[i] \in Range(s)
        /\ Range(s) \subseteq AllPackets
BY DEF Range

LEMMA RangeConcat ==
  ASSUME NEW s \in Seq(AllPackets), NEW t \in Seq(AllPackets)
  PROVE Range(s \o t) = Range(s) \cup Range(t)
<1>1. s \o t \in Seq(AllPackets) /\ Len(s \o t) = Len(s) + Len(t)
  BY ConcatParts
<1>2. ASSUME NEW x \in Range(s \o t) PROVE x \in Range(s) \cup Range(t)
  <2>1. PICK i \in 1 .. Len(s) + Len(t) : x = (s \o t)[i]
    BY <1>1, <1>2, InRange
  <2> QED
    BY <2>1, ConcatParts, InRange
<1>3. ASSUME NEW x \in Range(s) PROVE x \in Range(s \o t)
  <2>1. PICK i \in 1 .. Len(s) : x = s[i]
    BY InRange
  <2>2. i \in 1 .. Len(s \o t) /\ s[i] = (s \o t)[i]
    BY <1>1, ConcatParts
  <2> QED
    BY <1>1, <2>1, <2>2, InRange
<1>4. ASSUME NEW x \in Range(t) PROVE x \in Range(s \o t)
  <2>1. PICK i \in 1 .. Len(t) : x = t[i]
    BY InRange
  <2>2. Len(s) + i \in 1 .. Len(s \o t) /\ t[i] = (s \o t)[Len(s) + i]
    BY <1>1, ConcatParts
  <2> QED
    BY <1>1, <2>1, <2>2, InRange
<1> QED
  BY <1>2, <1>3, <1>4

LEMMA RangeSplit ==
  ASSUME NEW s \in Seq(AllPackets), s # <<>>
  PROVE Range(s) = Range(<<Head(s)>>) \cup Range(Tail(s))
<1> DEFINE h == <<Head(s)>>
           u == Tail(s)
<1>1. /\ h \in Seq(AllPackets) /\ u \in Seq(AllPackets)
      /\ Len(h) = 1 /\ Len(u) = Len(s) - 1 /\ Len(s) \in Nat \ {0} /\ h[1] = s[1]
      /\ \A i \in 1 .. Len(s) - 1 : u[i] = s[i + 1] /\ i + 1 \in 1 .. Len(s)
      /\ 1 \in 1 .. Len(s)
  BY SplitParts
<1> HIDE DEF h, u
<1>2. ASSUME NEW x \in Range(s) PROVE x \in Range(h) \cup Range(u)
  <2>1. PICK i \in 1 .. Len(s) : x = s[i]
    BY InRange
  <2>2. CASE i = 1
    <3>1. x = h[1] /\ 1 \in 1 .. Len(h)
      BY <1>1, <2>1, <2>2
    <3> QED
      BY <1>1, <3>1, InRange
  <2>3. CASE i # 1
    <3>1. i - 1 \in 1 .. Len(u) /\ u[i - 1] = s[i]
      BY <1>1, <2>3
    <3> QED
      BY <1>1, <2>1, <3>1, InRange
  <2> QED
    BY <2>2, <2>3
<1>3. ASSUME NEW x \in Range(h) PROVE x \in Range(s)
  BY <1>1, InRange
<1>4. ASSUME NEW x \in Range(u) PROVE x \in Range(s)
  <2>1. PICK i \in 1 .. Len(u) : x = u[i]
    BY <1>1, InRange
  <2> QED
    BY <1>1, <2>1, InRange
<1> QED
  BY <1>2, <1>3, <1>4 DEF h, u

(* Packets just made come after everything sent before them. *)
LEMMA FreshPackets ==
  ASSUME ClusterInv, NEW a, NEW kinds, AccOK(a, kinds)
  PROVE /\ a.out \in Seq(AllPackets) /\ Ordered(a.out)
        /\ \A s \in {got, packet, queue} : Cross(s, a.out) /\ Cross(a.out, s)
<1>1. a.out \in Seq(AllPackets) /\ Len(a.out) \in Nat
  BY DEF AccOK, Accs
<1>2. \A i \in 1 .. Len(a.out) : a.out[i].id = nsent + i /\ a.out[i].batch = batches + 1
  BY DEF AccOK
<1>3. nsent \in Nat /\ batches \in Nat
  BY DEF ClusterInv, TypeInv
<1>4. Ordered(a.out)
  BY <1>2, <1>3 DEF Ordered, Before
<1>5. ASSUME NEW s \in {got, packet, queue} PROVE Cross(s, a.out) /\ Cross(a.out, s)
  <2>1. ASSUME NEW i \in 1 .. Len(s)
        PROVE s[i].id \in Nat /\ s[i].batch \in Nat /\ s[i].id <= nsent /\ s[i].batch <= batches
    <3>1. Sent(s[i])
      BY DEF ClusterInv, SentInv, AllSent
    <3>2. s \in Seq(AllPackets)
      BY DEF ClusterInv, TypeInv
    <3>3. s[i] \in AllPackets
      BY <3>2
    <3> QED
      BY <3>1, <3>3 DEF Sent, AllPackets
  <2>2. ASSUME NEW i \in 1 .. Len(s), NEW j \in 1 .. Len(a.out)
        PROVE Before(s[i], a.out[j]) /\ Before(a.out[j], s[i])
    BY <1>2, <1>3, <2>1 DEF Before
  <2> QED
    BY <2>2 DEF Cross
<1> QED
  BY <1>1, <1>4, <1>5

(* Handing packets to the channel, in whatever state it is.                *)
LEMMA ApplyOK ==
  ASSUME ClusterInv, NEW kinds, NEW a, AccOK(a, kinds),
         QueuePackets(a.out), nsent' = nsent + Len(a.out),
         batches' = (IF a.out = <<>> THEN batches ELSE batches + 1),
         UNCHANGED <<config, got>>,
         "C" \in kinds => state' \in {"RunningYEL", "KernelPanic"},
         state \in {"RunningYEL", "KernelPanic"} => state' \in {"RunningYEL", "KernelPanic"}
  PROVE /\ nsent' \in Nat /\ batches' \in Nat
        /\ packet' \in Seq(AllPackets) /\ Len(packet') <= 1 /\ queue' \in Seq(AllPackets)
        /\ OrderInv' /\ SentInv' /\ PoolStep
<1> DEFINE ps == a.out
<1>1. /\ ps \in Seq(AllPackets) /\ Len(ps) \in Nat /\ Ordered(ps)
      /\ Cross(got, ps) /\ Cross(packet, ps) /\ Cross(ps, packet) /\ Cross(queue, ps)
      /\ Cross(ps, queue)
  BY FreshPackets
<1>2. /\ packet \in Seq(AllPackets) /\ queue \in Seq(AllPackets) /\ got \in Seq(AllPackets)
      /\ Len(packet) <= 1 /\ nsent \in Nat /\ batches \in Nat
      /\ Ordered(got) /\ Ordered(queue)
      /\ Cross(got, packet) /\ Cross(got, queue) /\ Cross(packet, queue)
  BY DEF ClusterInv, TypeInv, OrderInv
<1>3. nsent' \in Nat /\ batches' \in Nat /\ nsent' >= nsent /\ batches' >= batches
  BY <1>1, <1>2
<1>4. ASSUME NEW p \in Range(ps)
      PROVE /\ p \in AllPackets /\ p.id > nsent /\ p.id <= nsent' /\ p.batch <= batches'
            /\ IOSE /\ p.req > 0 => p.ack = p.req % SeqRange
            /\ p.kind \in kinds
  <2>1. PICK i \in 1 .. Len(ps) : p = ps[i]
    BY <1>1, InRange
  <2>2. ps # <<>>
    BY <1>1, <2>1
  <2>3. ps[i].id = nsent + i /\ ps[i].batch = batches + 1
    BY DEF AccOK
  <2>4. p.id > nsent /\ p.id <= nsent' /\ p.batch <= batches'
    BY <1>1, <1>2, <2>1, <2>2, <2>3
  <2>5. (IOSE /\ ps[i].req > 0 => ps[i].ack = ps[i].req % SeqRange) /\ ps[i].kind \in kinds
    BY DEF AccOK
  <2>6. p \in AllPackets
    BY <1>1, InRange
  <2> QED
    BY <2>1, <2>4, <2>5, <2>6
<1>5. QueuePackets(ps)
  OBVIOUS
<1> HIDE DEF ps
<1>6. \/ /\ packet = <<>> /\ ps # <<>>
         /\ packet' = <<Head(ps)>> /\ queue' = queue \o Tail(ps)
      \/ queue' = queue \o ps /\ packet' = packet
  BY <1>5 DEF QueuePackets
<1>7. /\ packet' \in Seq(AllPackets) /\ Len(packet') <= 1 /\ queue' \in Seq(AllPackets)
      /\ Ordered(queue') /\ Cross(got, packet') /\ Cross(got, queue') /\ Cross(packet', queue')
      /\ Range(packet') \cup Range(queue') = InTransit \cup Range(ps)
  <2>1. CASE /\ packet = <<>> /\ ps # <<>>
             /\ packet' = <<Head(ps)>> /\ queue' = queue \o Tail(ps)
    <3> DEFINE h == <<Head(ps)>>
               u == Tail(ps)
    <3>1. h \in Seq(AllPackets) /\ u \in Seq(AllPackets) /\ Len(h) = 1
          /\ Range(ps) = Range(h) \cup Range(u)
      BY <1>1, <2>1, SplitParts, RangeSplit
    <3>2. Ordered(u) /\ Cross(h, u) /\ Cross(got, h) /\ Cross(got, u) /\ Cross(queue, u)
      BY <1>1, <1>2, <2>1, SplitOrdered
    <3>3. Cross(h, queue)
      <4>1. h[1] = ps[1] /\ 1 \in 1 .. Len(ps)
        BY <1>1, <2>1, SplitParts
      <4> HIDE DEF h
      <4> QED
        BY <1>1, <3>1, <4>1 DEF Cross
    <3>4. packet' = h /\ queue' = queue \o u /\ Range(packet) = {}
      <4>1. Range(<<>>) = {}
        BY DEF Range
      <4> QED
        BY <2>1, <4>1
    <3> HIDE DEF h, u
    <3>5. queue \o u \in Seq(AllPackets) /\ Ordered(queue \o u) /\ Cross(got, queue \o u)
          /\ Cross(h, queue \o u) /\ Range(queue \o u) = Range(queue) \cup Range(u)
      BY <1>2, <3>1, <3>2, <3>3, ConcatParts, OrderedConcat, CrossConcat, RangeConcat
    <3> QED
      <4>1. Range(h) \cup Range(queue \o u) = InTransit \cup Range(ps)
        BY <3>1, <3>4, <3>5 DEF InTransit
      <4>2. Cross(got, packet') /\ Cross(got, queue') /\ Cross(packet', queue')
            /\ Ordered(queue')
        BY <3>2, <3>4, <3>5
      <4>3. packet' \in Seq(AllPackets) /\ Len(packet') <= 1 /\ queue' \in Seq(AllPackets)
        <5>1. Len(packet') = 1 /\ 1 <= 1
          BY <3>1, <3>4
        <5> QED
          BY <3>1, <3>4, <3>5, <5>1
      <4>4. Range(packet') \cup Range(queue') = InTransit \cup Range(ps)
        BY <3>4, <4>1
      <4> QED
        BY <4>2, <4>3, <4>4
  <2>2. CASE queue' = queue \o ps /\ packet' = packet
    <3>1. queue \o ps \in Seq(AllPackets) /\ Ordered(queue \o ps) /\ Cross(got, queue \o ps)
          /\ Cross(packet, queue \o ps) /\ Range(queue \o ps) = Range(queue) \cup Range(ps)
      BY <1>1, <1>2, ConcatParts, OrderedConcat, CrossConcat, RangeConcat
    <3> QED
      BY <1>2, <2>2, <3>1 DEF InTransit
  <2> QED
    BY <1>6, <2>1, <2>2
<1>8. OrderInv'
  BY <1>2, <1>7 DEF OrderInv
<1>9. SentInv'
  <2>1. ASSUME NEW p \in InTransit \cup Range(got) \cup Range(ps) PROVE Sent(p)'
    <3>1. CASE p \in Range(ps)
      BY <1>3, <1>4, <3>1 DEF Sent, IOSE
    <3>2. CASE p \in InTransit \cup Range(got)
      <4>1. Sent(p) /\ p \in AllPackets
        <5>1. AllSent(got) /\ AllSent(packet) /\ AllSent(queue)
          BY DEF ClusterInv, SentInv
        <5>2. PICK s \in {got, packet, queue} : p \in Range(s)
          BY <3>2 DEF InTransit
        <5>3. s \in Seq(AllPackets) /\ AllSent(s)
          BY <1>2, <5>1, <5>2
        <5> QED
          BY <5>2, <5>3, InRange DEF AllSent
      <4> QED
        BY <1>2, <1>3, <4>1 DEF Sent, IOSE, AllPackets
    <3> QED
      BY <2>1, <3>1, <3>2
  <2>2. /\ \A i \in 1 .. Len(packet') : packet'[i] \in Range(packet')
        /\ \A i \in 1 .. Len(queue') : queue'[i] \in Range(queue')
        /\ \A i \in 1 .. Len(got') : got'[i] \in Range(got)
    <3>1. PICK s1 \in Seq(AllPackets), s2 \in Seq(AllPackets) : s1 = packet' /\ s2 = queue'
      BY <1>7
    <3>2. /\ \A i \in 1 .. Len(s1) : s1[i] \in Range(s1)
          /\ \A i \in 1 .. Len(s2) : s2[i] \in Range(s2)
          /\ \A i \in 1 .. Len(got) : got[i] \in Range(got)
      BY <1>2, InRange
    <3> QED
      BY <3>1, <3>2
  <2>3. \A p \in InTransit \cup Range(got) \cup Range(ps) : Sent(p)'
    BY <2>1
  <2> QED
    BY <1>7, <2>2, <2>3 DEF SentInv, AllSent
<1>10. PoolStep
  <2>1. InTransit' = InTransit \cup Range(ps)
    BY <1>7 DEF InTransit
  <2>2. ASSUME NEW p \in Range(ps) PROVE p \in AllPackets \ Pool!Received
    <3>1. ASSUME NEW i \in 1 .. Len(got) PROVE got[i].id <= nsent /\ got[i].id \in Nat
      <4>1. Sent(got[i]) /\ got[i] \in AllPackets
        BY <1>2 DEF ClusterInv, SentInv, AllSent
      <4> QED
        BY <4>1 DEF Sent, AllPackets
    <3>2. p \in AllPackets /\ p.id > nsent /\ p.id \in Nat
      BY <1>4 DEF AllPackets
    <3> QED
      BY <1>2, <3>1, <3>2 DEF Pool!Received
  <2> QED
    BY <2>1, <2>2 DEF PoolStep, Pool!Next, Pool!Submit
<1> QED
  BY <1>3, <1>7, <1>8, <1>9, <1>10

(* What Apply does once the handlers' result is known. *)
Applied(a) ==
  /\ QueuePackets(a.out)
  /\ nsent' = nsent + Len(a.out)
  /\ batches' = (IF a.out = <<>> THEN batches ELSE batches + 1)
  /\ seqSent' = a.sent /\ seqReceived' = a.received
  /\ consoles' = a.consoles /\ unsent' = a.unsent /\ handled' = a.done

States == {"Reset", "WaitTimeSent", "WaitISent", "WaitJSent",
           "RunningYEL", "RunningJ90", "KernelPanic"}

(* Every step of the cluster: it sends what its handlers made and may take *)
(* the buffer that was received.                                           *)
LEMMA SendStep ==
  ASSUME ClusterInv, NEW kinds, NEW a, AccOK(a, kinds), Applied(a),
         UNCHANGED <<config, got, outbox, asked>>, inbox' = inbox \/ inbox' = <<>>,
         state' \in States,
         "C" \in kinds => state' \in {"RunningYEL", "KernelPanic"},
         state \in {"RunningYEL", "KernelPanic"} => state' \in {"RunningYEL", "KernelPanic"}
  PROVE TypeInv' /\ OrderInv' /\ SentInv' /\ PoolStep /\ handled' = a.done
<1>1. /\ nsent' \in Nat /\ batches' \in Nat
      /\ packet' \in Seq(AllPackets) /\ Len(packet') <= 1 /\ queue' \in Seq(AllPackets)
      /\ OrderInv' /\ SentInv' /\ PoolStep
  BY ApplyOK DEF Applied
<1>2. /\ seqSent' \in Numbers /\ seqReceived' \in Numbers
      /\ consoles' \in Nat /\ unsent' \in Nat /\ handled' \in Nat /\ handled' = a.done
  BY DEF Applied, AccOK, Accs
<1>3. config' \in Configs /\ got' \in Seq(AllPackets) /\ outbox' \in Seq(Words) /\ asked' \in Nat
  BY DEF ClusterInv, TypeInv
<1>4. inbox' \in Seq(Words)
  <2>1. inbox \in Seq(Words) /\ <<>> \in Seq(Words)
    BY DEF ClusterInv, TypeInv
  <2> QED
    BY <2>1
<1> QED
  BY <1>1, <1>2, <1>3, <1>4 DEF TypeInv, States

(* A step of the cluster that only sends. *)
LEMMA QuietStep ==
  ASSUME ClusterInv, NEW a, AccOK(a, Answers), Applied(a), a.done = handled,
         UNCHANGED <<config, state, inbox, got, outbox, asked>>
  PROVE ClusterInv' /\ PoolStep
<1>1. "C" \notin Answers /\ state' \in States
  BY DEF Answers, ClusterInv, TypeInv, States
<1>2. TypeInv' /\ OrderInv' /\ SentInv' /\ PoolStep /\ handled' = handled
  BY <1>1, SendStep
<1>3. HandshakeInv' /\ NumberInv'
  BY <1>2 DEF ClusterInv, HandshakeInv, NumberInv, Known, IOSE
<1> QED
  BY <1>2, <1>3 DEF ClusterInv

LEMMA SendPacketOK ==
  ASSUME TypeInv, NEW kinds \in SUBSET Kinds, NEW kind \in kinds, NEW a, AccOK(a, kinds)
  PROVE AccOK(SendPacket(a, kind, 0), kinds) /\ SendPacket(a, kind, 0).done = a.done
BY SendCopiesOK DEF SendPacket

LEMMA AnswerKinds ==
  /\ Answers \in SUBSET Kinds /\ Kinds \in SUBSET Kinds /\ "C" \in Kinds
  /\ {"time", "I", "J", "typed", "written"} \subseteq Answers
BY DEF Answers, Kinds

LEMMA AccDone == Acc.done = handled
BY DEF Acc

LEMMA ConsoleStep ==
  ASSUME ClusterInv, ConsoleTyped \/ ConsoleWritten \/ TickIdle PROVE ClusterInv' /\ PoolStep
<1>1. TypeInv /\ AccOK(Acc, Answers)
  BY AccInit DEF ClusterInv
<1>2. CASE ConsoleTyped
  <2>1. PICK a : a = SendPacket(Acc, "typed", 0) /\ Applied(a)
    BY <1>2 DEF ConsoleTyped, Apply, Applied
  <2>2. AccOK(a, Answers) /\ a.done = handled
    BY <1>1, <2>1, AnswerKinds, SendPacketOK, AccDone
  <2>3. UNCHANGED <<config, state, inbox, got, outbox, asked>>
    BY <1>2 DEF ConsoleTyped
  <2> QED
    BY <2>1, <2>2, <2>3, QuietStep
<1>3. CASE ConsoleWritten
  <2> DEFINE c(n) == [Acc EXCEPT !.unsent = @ - n]
  <2>1. PICK n \in 1 .. unsent, optionsLeft \in BOOLEAN :
          Apply(IF IOSE /\ config.auto /\ n = unsent /\ ~optionsLeft
                  THEN SendCopies(c(n), "written", 0, n) ELSE c(n))
    BY <1>3 DEF ConsoleWritten
  <2>2. n \in Nat /\ unsent - n \in Nat /\ c(n) = [Acc EXCEPT !.unsent = unsent - n]
    BY <1>1 DEF TypeInv, Acc
  <2>3. AccOK(c(n), Answers) /\ c(n).done = handled
    BY <1>1, <2>2, UnsentOK, AccDone
  <2> HIDE DEF c
  <2>4. PICK a : Applied(a) /\ (a = SendCopies(c(n), "written", 0, n) \/ a = c(n))
    <3>1. CASE IOSE /\ config.auto /\ n = unsent /\ ~optionsLeft
      BY <2>1, <3>1 DEF Apply, Applied
    <3>2. CASE ~(IOSE /\ config.auto /\ n = unsent /\ ~optionsLeft)
      BY <2>1, <3>2 DEF Apply, Applied
    <3> QED
      BY <3>1, <3>2
  <2>5. AccOK(a, Answers) /\ a.done = handled
    <3>1. "written" \in Answers /\ Answers \in SUBSET Kinds /\ 0 \in Nat /\ ~(0 > 0)
      BY AnswerKinds
    <3>2. PICK d : d = c(n)
      OBVIOUS
    <3>3. AccOK(d, Answers) /\ d.done = handled /\ n \in Nat
      BY <2>2, <2>3, <3>2
    <3>4. /\ AccOK(SendCopies(d, "written", 0, n), Answers)
          /\ SendCopies(d, "written", 0, n).done = d.done
      BY <1>1, <3>1, <3>3, SendCopiesOK
    <3> QED
      BY <2>4, <3>2, <3>3, <3>4
  <2>6. UNCHANGED <<config, state, inbox, got, outbox, asked>>
    BY <1>3 DEF ConsoleWritten
  <2> QED
    BY <2>4, <2>5, <2>6, QuietStep
<1>4. CASE TickIdle
  <2>1. PICK a : a = Acc /\ Applied(a)
    BY <1>4 DEF TickIdle, Apply, Applied
  <2>2. AccOK(a, Answers) /\ a.done = handled
    BY <1>1, <2>1, AccDone
  <2>3. UNCHANGED <<config, state, inbox, got, outbox, asked>>
    BY <1>4 DEF TickIdle, InTick
  <2> QED
    BY <2>1, <2>2, <2>3, QuietStep
<1> QED
  BY <1>2, <1>3, <1>4

LEMMA ResetStep == ASSUME ClusterInv, TickReset PROVE ClusterInv' /\ PoolStep
<1> DEFINE z == [Acc EXCEPT !.sent = 0, !.received = 0]
<1>1. AccOK(Acc, Answers) /\ AccOK(z, Answers) /\ Acc.done = handled /\ z.done = handled
  <2>1. z \in Accs /\ z.out = <<>> /\ z.done = handled
    <3>1. Acc \in Accs /\ Acc.out = <<>> /\ Acc.done = handled
      BY AccInit DEF ClusterInv, AccOK, Acc
    <3>2. 0 \in Numbers
      BY NumberRange
    <3> HIDE DEF Acc
    <3> QED
      BY <3>1, <3>2 DEF Accs
  <2> HIDE DEF z
  <2>2. AccOK(z, Answers)
    BY <2>1 DEF AccOK
  <2> QED
    BY <2>1, <2>2, AccInit, AccDone DEF ClusterInv
<1> HIDE DEF z
<1>2. PICK b : (b = z \/ b = Acc) /\ Apply(IF IOSE THEN b ELSE SendPacket(b, "time", 0))
  <2>1. CASE config.master
    BY <2>1 DEF TickReset, z
  <2>2. CASE ~config.master
    BY <2>2 DEF TickReset
  <2> QED
    BY <2>1, <2>2
<1>3. AccOK(b, Answers) /\ b.done = handled
  BY <1>1, <1>2
<1>4. PICK a : a = (IF IOSE THEN b ELSE SendPacket(b, "time", 0)) /\ Applied(a)
  BY <1>2 DEF Apply, Applied
<1>5. AccOK(a, Answers) /\ a.done = handled
  BY <1>3, <1>4, AnswerKinds, SendPacketOK DEF ClusterInv
<1>6. /\ UNCHANGED <<config, got, outbox, asked, inbox>> /\ state = "Reset"
      /\ state' = IF IOSE THEN "RunningJ90" ELSE "WaitTimeSent"
  BY DEF TickReset, InTick
<1>7. TypeInv' /\ OrderInv' /\ SentInv' /\ PoolStep /\ handled' = handled
  <2>1. "C" \notin Answers /\ state' \in States
    BY <1>6 DEF Answers, States
  <2> QED
    BY <1>4, <1>5, <1>6, <2>1, SendStep
<1>8. inbox = <<>> /\ outbox = <<>> /\ (IOSE => asked = 0 /\ handled = 0)
  BY <1>6 DEF ClusterInv, HandshakeInv, NumberInv
<1>9. HandshakeInv' /\ NumberInv'
  BY <1>6, <1>7, <1>8 DEF HandshakeInv, NumberInv, Known, IOSE
<1> QED
  BY <1>7, <1>9 DEF ClusterInv

LEMMA HandshakeStep ==
  ASSUME ClusterInv, TickTimeSent \/ TickISent \/ TickJSent PROVE ClusterInv' /\ PoolStep
<1>1. AccOK(Acc, Answers) /\ AccOK(Acc, Kinds) /\ Acc.done = handled /\ TypeInv
  BY AccInit, AccDone DEF ClusterInv
<1>2. ASSUME TickTimeSent \/ TickISent PROVE ClusterInv' /\ PoolStep
  <2>1. PICK kind \in {"I", "J"} : Apply(SendPacket(Acc, kind, 0))
    BY <1>2 DEF TickTimeSent, TickISent
  <2>2. PICK a : a = SendPacket(Acc, kind, 0) /\ Applied(a)
    BY <2>1 DEF Apply, Applied
  <2>3. AccOK(a, Answers) /\ a.done = handled
    BY <1>1, <2>2, AnswerKinds, SendPacketOK
  <2>4. /\ UNCHANGED <<config, got, outbox, asked>> /\ state' \in {"WaitISent", "WaitJSent"}
        /\ \/ state = "WaitTimeSent" /\ inbox' = inbox
           \/ state = "WaitISent" /\ inbox # <<>> /\ inbox' = <<>>
    BY <1>2 DEF TickTimeSent, TickISent, InTick
  <2>5. TypeInv' /\ OrderInv' /\ SentInv' /\ PoolStep
    <3>1. "C" \notin Answers /\ state' \in States
      BY <2>4 DEF Answers, States
    <3> QED
      BY <2>2, <2>3, <2>4, <3>1, SendStep
  <2>6. ~IOSE /\ (inbox' = <<>> \/ outbox' = <<>>)
    BY <2>4 DEF ClusterInv, HandshakeInv
  <2>7. HandshakeInv' /\ NumberInv'
    BY <2>4, <2>6 DEF HandshakeInv, NumberInv, Known, IOSE
  <2> QED
    BY <2>5, <2>7 DEF ClusterInv
<1>3. ASSUME TickJSent PROVE ClusterInv' /\ PoolStep
  <2>1. PICK a : a = SendPacket(Acc, "C", 0) /\ Applied(a)
    BY <1>3 DEF TickJSent, Apply, Applied
  <2>2. AccOK(a, Kinds) /\ a.done = handled
    BY <1>1, <2>1, AnswerKinds, SendPacketOK
  <2>3. /\ UNCHANGED <<config, got, outbox, asked>> /\ state' = "RunningYEL"
        /\ state = "WaitJSent" /\ inbox # <<>> /\ inbox' = <<>>
    BY <1>3 DEF TickJSent, InTick
  <2>4. TypeInv' /\ OrderInv' /\ SentInv' /\ PoolStep
    <3>1. state' \in States /\ state' \in {"RunningYEL", "KernelPanic"}
      BY <2>3 DEF States
    <3> QED
      BY <2>1, <2>2, <2>3, <3>1, SendStep
  <2>5. ~IOSE /\ outbox' = <<>>
    BY <2>3 DEF ClusterInv, HandshakeInv
  <2>6. HandshakeInv' /\ NumberInv'
    BY <2>3, <2>5 DEF HandshakeInv, NumberInv, Known, IOSE
  <2> QED
    BY <2>4, <2>6 DEF ClusterInv
<1> QED
  BY <1>2, <1>3

LEMMA RunningStep ==
  ASSUME ClusterInv, TickRunning \/ TickPanic PROVE ClusterInv' /\ PoolStep
<1>1. /\ UNCHANGED <<config, got, outbox, asked>> /\ inbox' = <<>>
      /\ state \in {"RunningYEL", "RunningJ90", "KernelPanic"}
      /\ state' = state \/ state' = "KernelPanic"
  BY DEF TickRunning, TickPanic, InTick
<1>2. PICK a : /\ AccOK(a, Answers) /\ Applied(a)
               /\ state = "RunningJ90" => a.done = handled + Len(inbox)
  <2>1. CASE TickRunning
    <3>1. PICK ready \in BOOLEAN : Apply(HandleBuffer(inbox, ready))
      BY <2>1 DEF TickRunning
    <3>2. PICK a : a = HandleBuffer(inbox, ready) /\ Applied(a)
      BY <3>1 DEF Apply, Applied
    <3>3. TypeInv /\ Known(inbox)
      BY <2>1 DEF TickRunning, ClusterInv, HandshakeInv
    <3>4. IOSE => \A i \in 1 .. Len(inbox) : inbox[i].seq = (handled + i) % SeqRange
      BY <2>1 DEF TickRunning, ClusterInv, HandshakeInv, NumberInv
    <3>5. /\ AccOK(HandleBuffer(inbox, ready), Answers)
          /\ HandleBuffer(inbox, ready).done = handled + Len(inbox)
      BY <3>3, <3>4, HandleBufferOK
    <3> QED
      BY <3>2, <3>5
  <2>2. CASE TickPanic
    <3>1. PICK a : a = PutStrings(Acc, 1, FALSE) /\ Applied(a)
      BY <2>2 DEF TickPanic, Apply, Applied
    <3>2. AccOK(Acc, Answers) /\ TypeInv
      BY AccInit DEF ClusterInv
    <3>3. AccOK(a, Answers)
      BY <3>1, <3>2, PutStringsOK
    <3> QED
      BY <2>2, <3>1, <3>3 DEF TickPanic
  <2> QED
    BY <2>1, <2>2
<1>3. TypeInv' /\ OrderInv' /\ SentInv' /\ PoolStep /\ handled' = a.done
  <2>1. "C" \notin Answers /\ state' \in States
    BY <1>1 DEF Answers, States
  <2>2. state \in {"RunningYEL", "KernelPanic"} => state' \in {"RunningYEL", "KernelPanic"}
    BY <1>1
  <2> QED
    BY <1>1, <1>2, <2>1, <2>2, SendStep
<1>4. HandshakeInv'
  BY <1>1 DEF ClusterInv, HandshakeInv, Known, IOSE
<1>5. NumberInv'
  <2>1. CASE IOSE /\ state' = "RunningJ90"
    <3>1. state = "RunningJ90" /\ handled' = handled + Len(inbox)
      BY <1>1, <1>2, <1>3, <2>1
    <3>2. /\ asked = handled + Len(inbox) + Len(outbox)
          /\ \A i \in 1 .. Len(outbox) : outbox[i].seq = (handled + Len(inbox) + i) % SeqRange
      BY <2>1, <3>1 DEF ClusterInv, NumberInv
    <3>3. handled' \in Nat /\ handled' + Len(inbox') = handled' /\ Len(inbox') = 0
          /\ Len(outbox) \in Nat
      BY <1>1, <1>3 DEF ClusterInv, TypeInv
    <3>4. asked' = handled' + Len(inbox') + Len(outbox')
      BY <1>1, <3>1, <3>2, <3>3
    <3>5. \A i \in 1 .. Len(outbox') : outbox'[i].seq = (handled' + Len(inbox') + i) % SeqRange
      BY <1>1, <3>1, <3>2, <3>3
    <3>6. \A i \in 1 .. Len(inbox') : FALSE
      BY <3>3
    <3> QED
      BY <2>1, <3>4, <3>5, <3>6 DEF NumberInv
  <2>2. CASE ~(IOSE /\ state' = "RunningJ90")
    BY <1>1, <2>2 DEF NumberInv, IOSE
  <2> QED
    BY <2>1, <2>2
<1> QED
  BY <1>3, <1>4, <1>5 DEF ClusterInv

(* The channel to the mainframe keeps the order and delivers one packet or *)
(* none.                                                                   *)
LEMMA ChannelSends ==
  ASSUME ClusterInv, IToCTick, UNCHANGED <<config, state, nsent, batches>>
  PROVE /\ packet' \in Seq(AllPackets) /\ Len(packet') <= 1
        /\ queue' \in Seq(AllPackets) /\ got' \in Seq(AllPackets)
        /\ OrderInv' /\ SentInv' /\ PoolStep
<1>1. /\ packet \in Seq(AllPackets) /\ queue \in Seq(AllPackets) /\ got \in Seq(AllPackets)
      /\ Len(packet) <= 1 /\ Ordered(got) /\ Ordered(queue)
      /\ Cross(got, packet) /\ Cross(got, queue) /\ Cross(packet, queue)
      /\ AllSent(got) /\ AllSent(packet) /\ AllSent(queue)
  BY DEF ClusterInv, TypeInv, OrderInv, SentInv
<1>2. \A p : Sent(p) => Sent(p)'
  BY DEF Sent, IOSE
<1>3. Range(<<>>) = {} /\ <<>> \in Seq(AllPackets) /\ Len(<<>>) = 0
  BY DEF Range
<1>4. CASE packet # <<>> /\ window
  <2>1. packet' = <<>> /\ got' = got \o packet /\ queue' = queue
    <3>1. Transmit
      BY <1>4 DEF IToCTick
    <3> QED
      BY <1>4, <3>1, Zenon DEF Transmit
  <2>2. Len(packet) = 1 /\ packet[1] \in AllPackets /\ 1 \in 1 .. Len(packet)
    <3>1. packet \in Seq(AllPackets) /\ Len(packet) <= 1
      BY <1>1
    <3>2. Len(packet) \in Nat /\ Len(packet) # 0
      BY <1>4, <3>1
    <3>3. Len(packet) = 1
      <4>1. \A n \in Nat : n <= 1 /\ n # 0 => n = 1
        OBVIOUS
      <4> QED
        BY <3>1, <3>2, <4>1
    <3>4. 1 \in 1 .. Len(packet)
      BY <3>3
    <3>5. packet[1] \in AllPackets
      BY <3>1, <3>4
    <3> QED
      BY <3>3, <3>4, <3>5
  <2>3. Ordered(packet)
    BY <2>2 DEF Ordered
  <2>4. /\ got \o packet \in Seq(AllPackets) /\ Ordered(got \o packet)
        /\ Cross(got \o packet, queue)
    BY <1>1, <2>3, ConcatParts, OrderedConcat, CrossConcat
  <2>5. Cross(got \o packet, <<>>) /\ Cross(<<>>, queue)
    BY <1>3 DEF Cross
  <2>6. OrderInv'
    BY <1>1, <2>1, <2>4, <2>5 DEF OrderInv
  <2>7. SentInv'
    <3>1. ASSUME NEW i \in 1 .. Len(got) + Len(packet) PROVE Sent((got \o packet)[i])
      BY <1>1, ConcatParts DEF AllSent
    <3>2. Len(got \o packet) = Len(got) + Len(packet)
      BY <1>1, ConcatParts
    <3> QED
      BY <1>1, <1>2, <1>3, <2>1, <3>1, <3>2 DEF SentInv, AllSent
  <2>8. PoolStep
    <3>1. Range(packet) = {packet[1]} /\ packet[1] \in InTransit
      BY <1>1, <2>2, InRange DEF Range, InTransit
    <3>2. packet[1] \notin Range(queue)
      <4>1. ASSUME NEW j \in 1 .. Len(queue) PROVE packet[1] # queue[j]
        BY <1>1, <2>2 DEF Cross, Before
      <4> QED
        BY <1>1, <4>1, InRange
    <3>3. InTransit' = InTransit \ {packet[1]}
      BY <1>3, <2>1, <3>1, <3>2 DEF InTransit
    <3>4. got' = Append(got, packet[1])
      <4>1. packet = <<packet[1]>>
        BY <1>1, <2>2
      <4>2. PICK p \in AllPackets : p = packet[1]
        BY <2>2
      <4>3. got \o <<p>> = Append(got, p)
        BY <1>1
      <4> QED
        BY <2>1, <4>1, <4>2, <4>3
    <3> QED
      BY <3>1, <3>3, <3>4 DEF PoolStep, Pool!Next, Pool!Deliver
  <2> QED
    BY <1>1, <1>3, <2>1, <2>4, <2>6, <2>7, <2>8
<1>5. CASE packet = <<>> /\ queue # <<>>
  <2> DEFINE h == <<Head(queue)>>
             u == Tail(queue)
  <2>1. packet' = h /\ queue' = u /\ got' = got
    BY <1>5 DEF IToCTick, FirstOf
  <2>2. /\ h \in Seq(AllPackets) /\ Len(h) = 1 /\ u \in Seq(AllPackets)
        /\ h[1] = queue[1] /\ Len(u) = Len(queue) - 1 /\ Len(queue) \in Nat \ {0}
        /\ \A i \in 1 .. Len(queue) - 1 : u[i] = queue[i + 1] /\ i + 1 \in 1 .. Len(queue)
        /\ 1 \in 1 .. Len(queue)
    BY <1>1, <1>5, SplitParts
  <2>3. Ordered(u) /\ Cross(h, u) /\ Cross(got, h) /\ Cross(got, u)
    BY <1>1, <1>5, SplitOrdered
  <2>4. Range(queue) = Range(h) \cup Range(u)
    BY <1>1, <1>5, RangeSplit
  <2> HIDE DEF h, u
  <2>5. OrderInv'
    <3>1. /\ Ordered(got') /\ Ordered(queue')
          /\ Cross(got', packet') /\ Cross(got', queue') /\ Cross(packet', queue')
      BY <1>1, <2>1, <2>3
    <3> QED
      BY <3>1 DEF OrderInv
  <2>6. SentInv'
    <3>1. AllSent(h)
      BY <1>1, <2>2 DEF AllSent
    <3>2. AllSent(u)
      <4>1. ASSUME NEW i \in 1 .. Len(u) PROVE Sent(u[i])
        <5>1. i \in 1 .. Len(queue) - 1
          BY <2>2
        <5>2. u[i] = queue[i + 1] /\ i + 1 \in 1 .. Len(queue)
          BY <2>2, <5>1
        <5> QED
          BY <1>1, <5>2 DEF AllSent
      <4> QED
        BY <4>1 DEF AllSent
    <3> QED
      BY <1>1, <1>2, <2>1, <3>1, <3>2 DEF SentInv, AllSent
  <2>7. PoolStep
    <3>1. InTransit' = InTransit /\ got' = got
      BY <1>3, <1>5, <2>1, <2>4 DEF InTransit
    <3> QED
      BY <3>1 DEF PoolStep, Pool!vars
  <2>8. packet' \in Seq(AllPackets) /\ Len(packet') <= 1
    <3>1. Len(packet') = 1 /\ 1 <= 1
      BY <2>1, <2>2
    <3> QED
      BY <2>1, <2>2, <3>1
  <2> QED
    BY <1>1, <2>1, <2>2, <2>5, <2>6, <2>7, <2>8
<1>6. CASE (packet = <<>> /\ queue = <<>>) \/ (packet # <<>> /\ ~window)
  <2>1. UNCHANGED <<packet, queue, got>>
    BY <1>6 DEF IToCTick, Transmit, FirstOf
  <2>2. OrderInv' /\ SentInv'
    BY <1>1, <1>2, <2>1 DEF OrderInv, SentInv, AllSent
  <2>3. PoolStep
    BY <2>1 DEF PoolStep, Pool!vars, InTransit
  <2> QED
    BY <1>1, <2>1, <2>2, <2>3
<1> QED
  BY <1>4, <1>5, <1>6, Zenon

LEMMA ChannelStep == ASSUME ClusterInv, ChannelTick PROVE ClusterInv' /\ PoolStep
<1>1. /\ IToCTick /\ CToITick
      /\ UNCHANGED <<config, state, seqSent, seqReceived, consoles, unsent, handled, batches,
                     nsent, asked>>
  BY DEF ChannelTick
<1>2. /\ packet' \in Seq(AllPackets) /\ Len(packet') <= 1
      /\ queue' \in Seq(AllPackets) /\ got' \in Seq(AllPackets)
      /\ OrderInv' /\ SentInv' /\ PoolStep
  BY <1>1, ChannelSends
<1>3. \/ inbox = <<>> /\ inbox' = outbox /\ outbox' = <<>>
      \/ inbox' = inbox /\ outbox' = outbox
  BY <1>1 DEF CToITick
<1>4. inbox \in Seq(Words) /\ outbox \in Seq(Words) /\ <<>> \in Seq(Words)
      /\ Len(<<>>) = 0 /\ Len(outbox) \in Nat /\ handled \in Nat
  BY DEF ClusterInv, TypeInv
<1>5. TypeInv'
  <2>1. inbox' \in Seq(Words) /\ outbox' \in Seq(Words)
    BY <1>3, <1>4
  <2>2. /\ config' \in Configs /\ state' \in States
        /\ seqSent' \in Numbers /\ seqReceived' \in Numbers
        /\ consoles' \in Nat /\ unsent' \in Nat /\ handled' \in Nat
        /\ batches' \in Nat /\ nsent' \in Nat /\ asked' \in Nat
    BY <1>1 DEF ClusterInv, TypeInv, States
  <2> QED
    BY <1>2, <2>1, <2>2 DEF TypeInv, States
<1>6. HandshakeInv'
  BY <1>1, <1>3, <1>4 DEF ClusterInv, HandshakeInv, Known, IOSE
<1>7. NumberInv'
  <2>1. CASE inbox = <<>> /\ inbox' = outbox /\ outbox' = <<>>
    <3>1. /\ handled + Len(inbox) + Len(outbox) = handled + Len(outbox) + Len(<<>>)
          /\ handled + Len(inbox) = handled
          /\ \A i \in 1 .. Len(<<>>) : FALSE
      BY <1>4, <2>1
    <3> QED
      BY <1>1, <2>1, <3>1 DEF ClusterInv, NumberInv, IOSE
  <2>2. CASE inbox' = inbox /\ outbox' = outbox
    BY <1>1, <2>2 DEF ClusterInv, NumberInv, IOSE
  <2> QED
    BY <1>3, <2>1, <2>2
<1> QED
  BY <1>2, <1>5, <1>6, <1>7 DEF ClusterInv

(* The mainframe and UNICOS leave the packets alone. *)
LEMMA MainframeStep ==
  ASSUME ClusterInv, PrimeInput \/ ClearInput \/ SendReply \/ SendRequests
  PROVE ClusterInv' /\ PoolStep
<1>1. UNCHANGED <<config, state, seqSent, seqReceived, packet, queue, inbox, consoles, unsent,
                  handled, got, batches, nsent>>
  BY DEF PrimeInput, ClearInput, SendReply, SendRequests, Mainframe
<1>2. OrderInv' /\ SentInv'
  BY <1>1 DEF ClusterInv, OrderInv, SentInv, AllSent, Sent, IOSE
<1>3. PoolStep
  BY <1>1 DEF PoolStep, Pool!vars, InTransit
<1>4. CASE PrimeInput \/ ClearInput
  <2>1. UNCHANGED <<outbox, asked>>
    BY <1>4 DEF PrimeInput, ClearInput
  <2>2. TypeInv' /\ HandshakeInv' /\ NumberInv'
    BY <1>1, <2>1 DEF ClusterInv, TypeInv, HandshakeInv, NumberInv, Known, IOSE
  <2> QED
    BY <1>2, <1>3, <2>2 DEF ClusterInv
<1>5. CASE SendReply
  <2>1. /\ ~IOSE /\ inbox = <<>> /\ outbox' = <<Reply>> /\ asked' = asked
        /\ state \in {"WaitISent", "WaitJSent"}
    BY <1>5 DEF SendReply, Reply
  <2>2. outbox' \in Seq(Words)
    <3>1. Reply \in Words
      BY DEF Words
    <3> HIDE DEF Reply
    <3> QED
      BY <2>1, <3>1
  <2>3. TypeInv'
    BY <1>1, <2>1, <2>2 DEF ClusterInv, TypeInv
  <2>4. HandshakeInv' /\ NumberInv'
    BY <1>1, <2>1 DEF ClusterInv, HandshakeInv, NumberInv, Known, IOSE
  <2> QED
    BY <1>2, <1>3, <2>3, <2>4 DEF ClusterInv
<1>6. CASE SendRequests
  <2>1. outbox = <<>>
    BY <1>6 DEF SendRequests
  <2>2. CASE ~IOSE
    <3>1. PICK r \in DRequests : outbox' = <<r>> /\ asked' = asked + 1 /\ Heard("C")
      BY <1>6, <2>2 DEF SendRequests
    <3>2. state \in {"RunningYEL", "KernelPanic"}
      <4>1. PICK i \in DOMAIN got : got[i].kind = "C"
        BY <3>1 DEF Heard
      <4>2. i \in 1 .. Len(got) /\ AllSent(got)
        BY <4>1 DEF ClusterInv, TypeInv, SentInv
      <4> QED
        BY <4>1, <4>2 DEF AllSent, Sent
    <3>3. r.type \in RequestTypes /\ r \in Words
      BY SimIosConstants DEF Words
    <3>4. outbox' \in Seq(Words) /\ Len(outbox') = 1 /\ outbox'[1] = r /\ asked' \in Nat
      BY <3>1, <3>3 DEF ClusterInv, TypeInv
    <3>5. TypeInv'
      BY <1>1, <3>4 DEF ClusterInv, TypeInv
    <3>6. HandshakeInv' /\ NumberInv'
      BY <1>1, <2>2, <3>2, <3>3, <3>4 DEF ClusterInv, HandshakeInv, NumberInv, Known, IOSE
    <3> QED
      BY <1>2, <1>3, <3>5, <3>6 DEF ClusterInv
  <2>3. CASE IOSE
    <3> DEFINE words(n, rs) == [i \in 1 .. n |-> [type |-> rs[i].type, drive |-> rs[i].drive,
                                                  seq |-> (asked + i) % SeqRange,
                                                  ini |-> asked + i = 1]]
    <3>a. PICK n \in 1 .. MaxBatch :
            \E rs \in [1 .. n -> ERequests] :
              state = "RunningJ90" /\ asked' = asked + n /\ outbox' = words(n, rs)
      BY <1>6, <2>3 DEF SendRequests
    <3>b. PICK rs \in [1 .. n -> ERequests] :
            state = "RunningJ90" /\ asked' = asked + n /\ outbox' = words(n, rs)
      BY <3>a
    <3>1. state = "RunningJ90" /\ asked' = asked + n /\ outbox' = words(n, rs)
      BY <3>b
    <3>2. n \in Nat /\ asked \in Nat /\ handled \in Nat /\ Len(inbox) \in Nat
      <4>1. MaxBatch \in Nat
        BY SimIosConstants
      <4> QED
        BY <4>1 DEF ClusterInv, TypeInv
    <3>3. ASSUME NEW i \in 1 .. n
          PROVE /\ outbox'[i] \in Words /\ outbox'[i].type \in RequestTypes
                /\ outbox'[i].seq = (asked + i) % SeqRange
      <4>1. rs[i] \in ERequests
        OBVIOUS
      <4>2. rs[i].type \in RequestTypes /\ rs[i].drive \in {r.drive : r \in ERequests}
        <5>1. rs[i].type \in RequestTypes
          BY <4>1, SimIosConstants
        <5> QED
          BY <4>1, <5>1
      <4>3. (asked + i) % SeqRange \in Numbers
        <5>1. asked + i \in Nat
          BY <3>2
        <5> QED
          BY <5>1, NumberRange
      <4>4. outbox'[i] = [type |-> rs[i].type, drive |-> rs[i].drive,
                          seq |-> (asked + i) % SeqRange, ini |-> asked + i = 1]
        BY <3>1
      <4>5. (asked + i = 1) \in BOOLEAN
        OBVIOUS
      <4> QED
        BY <4>2, <4>3, <4>4, <4>5 DEF Words
    <3>4. outbox' \in Seq(Words) /\ Len(outbox') = n
      <4>1. outbox' \in [1 .. n -> Words]
        BY <3>1, <3>3
      <4> QED
        BY <3>1, <3>2, <4>1
    <3>5. TypeInv'
      BY <1>1, <3>1, <3>2, <3>4 DEF ClusterInv, TypeInv
    <3>6. HandshakeInv'
      BY <1>1, <2>3, <3>1, <3>3, <3>4 DEF ClusterInv, HandshakeInv, Known, IOSE
    <3>7. NumberInv'
      <4>1. /\ asked = handled + Len(inbox)
            /\ \A i \in 1 .. Len(inbox) : inbox[i].seq = (handled + i) % SeqRange
        BY <2>1, <2>3, <3>1, <3>2 DEF ClusterInv, NumberInv
      <4> QED
        BY <1>1, <2>3, <3>1, <3>3, <3>4, <4>1 DEF NumberInv, IOSE
    <3> QED
      BY <1>2, <1>3, <3>5, <3>6, <3>7 DEF ClusterInv
  <2> QED
    BY <2>2, <2>3
<1> QED
  BY <1>4, <1>5, <1>6

-----------------------------------------------------------------------------
(* The specification *)

LEMMA ClusterInit == ASSUME Init PROVE ClusterInv /\ Pool!Init
<1>1. /\ packet = <<>> /\ queue = <<>> /\ got = <<>> /\ inbox = <<>> /\ outbox = <<>>
      /\ Len(<<>>) = 0 /\ \A i \in 1 .. Len(<<>>) : FALSE
  BY DEF Init
<1>2. TypeInv
  <2>1. seqSent \in Numbers /\ seqReceived \in Numbers
    BY NumberRange DEF Init, Numbers
  <2> QED
    BY <1>1, <2>1 DEF Init, TypeInv
<1>3. OrderInv /\ SentInv
  BY <1>1 DEF OrderInv, SentInv, Ordered, Cross, AllSent
<1>4. HandshakeInv /\ NumberInv
  BY <1>1 DEF Init, HandshakeInv, NumberInv
<1>5. Pool!Init
  BY <1>1 DEF Pool!Init, InTransit, Range
<1> QED
  BY <1>2, <1>3, <1>4, <1>5 DEF ClusterInv

LEMMA ClusterStep == ASSUME ClusterInv, [Next]_vars PROVE ClusterInv' /\ PoolStep
<1>1. CASE UNCHANGED vars
  <2>1. TypeInv' /\ OrderInv' /\ SentInv'
    BY <1>1 DEF vars, ClusterInv, TypeInv, OrderInv, SentInv, AllSent, Sent, IOSE
  <2>2. HandshakeInv' /\ NumberInv'
    BY <1>1 DEF vars, ClusterInv, HandshakeInv, NumberInv, Known, IOSE
  <2>3. PoolStep
    BY <1>1 DEF vars, PoolStep, Pool!vars, InTransit
  <2> QED
    BY <2>1, <2>2, <2>3 DEF ClusterInv
<1>2. CASE Tick
  BY <1>2, ConsoleStep, ResetStep, HandshakeStep, RunningStep DEF Tick
<1>3. CASE ConsoleTyped \/ ConsoleWritten
  BY <1>3, ConsoleStep
<1>4. CASE ChannelTick
  BY <1>4, ChannelStep
<1>5. CASE PrimeInput \/ ClearInput \/ SendReply \/ SendRequests
  BY <1>5, MainframeStep
<1> QED
  BY <1>1, <1>2, <1>3, <1>4, <1>5 DEF Next

LEMMA ClusterInvCorrect == Spec => []ClusterInv
<1>1. Init => ClusterInv
  BY ClusterInit
<1>2. ClusterInv /\ [Next]_vars => ClusterInv'
  BY ClusterStep
<1> QED
  BY <1>1, <1>2, PTL DEF Spec

(* The packet channel of an I/O subsystem implements the pool: QueuePacket *)
(* and ChannelTick (sim_iop.cpp), the handlers that send and a mainframe   *)
(* that clears its channel lose, double and invent no packet.              *)
THEOREM PacketsArriveOnce == Spec => ImplementsPool
<1>1. Init => Pool!Init
  BY ClusterInit
<1>2. ClusterInv /\ [Next]_vars => [Pool!Next]_(Pool!vars)
  BY ClusterStep DEF PoolStep
<1> QED
  BY <1>1, <1>2, ClusterInvCorrect, PTL DEF Spec, ImplementsPool, Pool!Spec

(* The answers to one buffer reach the mainframe in the order of its       *)
(* requests, although QueuePacket lets newer packets overtake the queue.   *)
THEOREM AnswersInOrder == Spec => []BufferInOrder
<1>1. ClusterInv => BufferInOrder
  <2> SUFFICES ASSUME ClusterInv, NEW i \in DOMAIN got, NEW j \in DOMAIN got,
                      i < j, got[i].batch = got[j].batch
               PROVE got[i].id < got[j].id
    BY DEF BufferInOrder
  <2>1. i \in 1 .. Len(got) /\ j \in 1 .. Len(got) /\ Ordered(got)
    BY DEF ClusterInv, TypeInv, OrderInv
  <2> QED
    BY <2>1 DEF Ordered, Before
<1> QED
  BY <1>1, ClusterInvCorrect, PTL

(* Every answer of an IOSE carries the number of the request it answers:   *)
(* the header of each packet of a buffer is taken before it is handled.    *)
THEOREM AnswersAcknowledge == Spec => []AnswerAcknowledges
<1>1. ClusterInv => AnswerAcknowledges
  <2> SUFFICES ASSUME ClusterInv, NEW p \in InTransit \cup Range(got), IOSE, p.req > 0
               PROVE p.ack = p.req % SeqRange
    BY DEF AnswerAcknowledges
  <2>1. PICK s \in {got, packet, queue} : p \in Range(s)
    BY DEF InTransit
  <2>2. s \in Seq(AllPackets) /\ AllSent(s)
    BY DEF ClusterInv, TypeInv, SentInv
  <2>3. PICK i \in 1 .. Len(s) : p = s[i]
    BY <2>1, <2>2, InRange
  <2> QED
    BY <2>2, <2>3 DEF AllSent, Sent
<1> QED
  BY <1>1, ClusterInvCorrect, PTL
=============================================================================

---------------------------- MODULE ConsoleProofs ----------------------------
(***************************************************************************)
(* Proofs about a console, for every number of characters, keys and broken *)
(* connections.                                                            *)
(***************************************************************************)
EXTENDS Console, SequenceTheorems, TLAPS

Bytes == {"k", "LF", "IAC", "DO", "ECHO", "NOP"}
Entries == [id : Nat, notify : BOOLEAN, action : {"", "DO", "DONT", "WILL", "WONT"},
            opt : Bytes \cup {"", "SGA", "LINEMODE"}]

TypeInv ==
  /\ txq \in Seq(Entries) /\ inflight \in Seq(Entries)
  /\ line \in Seq(Bytes) /\ telnet \in {"WaitIAC", "WaitAction"} \cup Actions
  /\ to \in [busy : BOOLEAN, done : BOOLEAN] /\ owed \in BOOLEAN
  /\ screen \in Seq(Nat) /\ printed \in Nat

(* Characters come in the order of their numbers; options have no place.   *)
Before(e, f) == e.notify /\ f.notify => e.id < f.id
Ordered(s) == \A i, j \in 1 .. Len(s) : i < j => Before(s[i], s[j])

(* The characters of s are yet to be shown. *)
ToShow(s) ==
  \A i \in 1 .. Len(s) :
    s[i].notify => s[i].id <= printed /\ \A n \in 1 .. Len(screen) : screen[n] < s[i].id

(* The last entry being written is the head of the queue; the ones before  *)
(* it left the queue already, when an entry was written twice.             *)
QueueInv ==
  /\ Ordered(txq) /\ Ordered(inflight) /\ ToShow(txq) /\ ToShow(inflight)
  /\ \A i \in 1 .. Len(inflight) - 1 : \A j \in 1 .. Len(txq) : Before(inflight[i], txq[j])
  /\ inflight # <<>> /\ txq # <<>> => inflight[Len(inflight)] = txq[1]
  /\ sock # "open" => inflight = <<>>
  /\ \A n \in 1 .. Len(screen) : screen[n] <= printed
  /\ \A m, n \in 1 .. Len(screen) : m < n => screen[m] < screen[n]

ConsoleInv == TypeInv /\ QueueInv /\ NoLostCompletion

-----------------------------------------------------------------------------
(* Queues *)

LEMMA ConcatParts ==
  ASSUME NEW s \in Seq(Entries), NEW t \in Seq(Entries)
  PROVE /\ s \o t \in Seq(Entries) /\ Len(s \o t) = Len(s) + Len(t)
        /\ Len(s) \in Nat /\ Len(t) \in Nat
        /\ \A i \in 1 .. Len(s) : (s \o t)[i] = s[i]
        /\ \A i \in 1 .. Len(s) + Len(t) :
             \/ i \in 1 .. Len(s) /\ (s \o t)[i] = s[i]
             \/ i - Len(s) \in 1 .. Len(t) /\ (s \o t)[i] = t[i - Len(s)]
OBVIOUS

LEMMA SingleParts ==
  ASSUME NEW e \in Entries
  PROVE <<e>> \in Seq(Entries) /\ Len(<<e>>) = 1 /\ <<e>>[1] = e
OBVIOUS

LEMMA AppendConcat ==
  ASSUME NEW s \in Seq(Entries), NEW e \in Entries PROVE Append(s, e) = s \o <<e>>
OBVIOUS

LEMMA EntryTypes ==
  ASSUME NEW s \in Seq(Entries), NEW i \in 1 .. Len(s)
  PROVE s[i] \in Entries /\ s[i].id \in Nat /\ s[i].notify \in BOOLEAN
<1>1. s[i] \in Entries
  OBVIOUS
<1> QED
  BY <1>1 DEF Entries

LEMMA TailParts ==
  ASSUME NEW s \in Seq(Entries), s # <<>>
  PROVE /\ Tail(s) \in Seq(Entries) /\ Len(Tail(s)) = Len(s) - 1 /\ Len(s) \in Nat \ {0}
        /\ Head(s) = s[1] /\ s[1] \in Entries /\ 1 \in 1 .. Len(s)
        /\ \A i \in 1 .. Len(s) - 1 : Tail(s)[i] = s[i + 1] /\ i + 1 \in 1 .. Len(s)
<1>1. Len(s) \in Nat \ {0} /\ Head(s) = s[1] /\ Head(s) \in Entries
  OBVIOUS
<1>2. Tail(s) \in Seq(Entries) /\ Len(Tail(s)) = Len(s) - 1
      /\ \A i \in 1 .. Len(s) - 1 : Tail(s)[i] = s[i + 1]
  BY <1>1
<1> QED
  BY <1>1, <1>2

(* New entries: options, or characters that were not printed before. *)
Fresh(more, last) ==
  /\ more \in Seq(Entries) /\ Ordered(more)
  /\ \A i \in 1 .. Len(more) : more[i].notify => more[i].id > printed /\ more[i].id <= last

(* A queue with new entries at its end. *)
LEMMA GrownOK ==
  ASSUME ConsoleInv, NEW s \in {txq, inflight}, NEW last \in Nat, printed <= last,
         NEW more, Fresh(more, last)
  PROVE /\ s \o more \in Seq(Entries) /\ Ordered(s \o more)
        /\ \A i \in 1 .. Len(s \o more) :
             (s \o more)[i].notify =>
               /\ (s \o more)[i].id <= last
               /\ \A n \in 1 .. Len(screen) : screen[n] < (s \o more)[i].id
<1>1. /\ s \in Seq(Entries) /\ more \in Seq(Entries) /\ Ordered(s) /\ ToShow(s) /\ Ordered(more)
      /\ printed \in Nat /\ screen \in Seq(Nat)
      /\ \A n \in 1 .. Len(screen) : screen[n] <= printed /\ screen[n] \in Nat
  <2>1. /\ s \in Seq(Entries) /\ more \in Seq(Entries) /\ Ordered(s) /\ ToShow(s)
        /\ Ordered(more) /\ printed \in Nat /\ screen \in Seq(Nat)
    BY DEF ConsoleInv, TypeInv, QueueInv, Fresh
  <2>2. \A n \in 1 .. Len(screen) : screen[n] \in Nat
    BY <2>1
  <2>3. \A n \in 1 .. Len(screen) : screen[n] <= printed
    BY DEF ConsoleInv, QueueInv
  <2> QED
    BY <2>1, <2>2, <2>3
<1>2. PICK t : t = s \o more
  OBVIOUS
<1>3. /\ t \in Seq(Entries) /\ Len(t) = Len(s) + Len(more) /\ Len(s) \in Nat /\ Len(more) \in Nat
      /\ \A i \in 1 .. Len(s) : t[i] = s[i]
      /\ \A i \in 1 .. Len(t) : \/ i \in 1 .. Len(s) /\ t[i] = s[i]
                                \/ i - Len(s) \in 1 .. Len(more) /\ t[i] = more[i - Len(s)]
  BY <1>1, <1>2, ConcatParts
<1>4. ASSUME NEW i \in 1 .. Len(t), t[i].notify
      PROVE t[i].id <= last /\ \A n \in 1 .. Len(screen) : screen[n] < t[i].id
  <2>1. t[i].id \in Nat
    BY <1>3, EntryTypes
  <2>2. CASE i \in 1 .. Len(s) /\ t[i] = s[i]
    BY <1>1, <1>4, <2>1, <2>2 DEF ToShow
  <2>3. CASE i - Len(s) \in 1 .. Len(more) /\ t[i] = more[i - Len(s)]
    <3>1. t[i].id > printed /\ t[i].id <= last
      BY <1>4, <2>3 DEF Fresh
    <3> QED
      BY <1>1, <2>1, <3>1
  <2> QED
    BY <1>3, <2>2, <2>3
<1>5. ASSUME NEW i \in 1 .. Len(t), NEW j \in 1 .. Len(t), i < j PROVE Before(t[i], t[j])
  <2>1. t[i].id \in Nat /\ t[j].id \in Nat
    BY <1>3, EntryTypes
  <2>2. CASE j \in 1 .. Len(s) /\ t[j] = s[j]
    <3>1. i \in 1 .. Len(s)
      BY <1>3, <1>5, <2>2
    <3> QED
      BY <1>1, <1>3, <1>5, <2>2, <3>1 DEF Ordered
  <2>3. CASE j - Len(s) \in 1 .. Len(more) /\ t[j] = more[j - Len(s)]
    <3>1. CASE i \in 1 .. Len(s) /\ t[i] = s[i]
      <4>1. t[j].notify => t[j].id > printed
        BY <2>3 DEF Fresh
      <4>2. t[i].notify => t[i].id <= printed
        BY <1>1, <3>1 DEF ToShow
      <4> QED
        BY <1>1, <2>1, <4>1, <4>2 DEF Before
    <3>2. CASE i - Len(s) \in 1 .. Len(more) /\ t[i] = more[i - Len(s)]
      <4>1. i - Len(s) < j - Len(s)
        BY <1>3, <1>5
      <4> QED
        BY <1>1, <2>3, <3>2, <4>1 DEF Ordered
    <3> QED
      BY <1>3, <3>1, <3>2
  <2> QED
    BY <1>3, <2>2, <2>3
<1> QED
  BY <1>2, <1>3, <1>4, <1>5 DEF Ordered

(* SendStringInternal with an option, or with a character just printed. *)
LEMMA StringSent ==
  ASSUME ConsoleInv, NEW e \in Entries, SendStringInternal(e), screen' = screen,
         printed' \in Nat, printed <= printed', e.notify => e.id > printed /\ e.id <= printed'
  PROVE /\ QueueInv' /\ txq' = txq \o <<e>>
        /\ txq' \in Seq(Entries) /\ inflight' \in Seq(Entries)
<1>1. /\ txq \in Seq(Entries) /\ inflight \in Seq(Entries) /\ screen \in Seq(Nat)
      /\ printed \in Nat
  BY DEF ConsoleInv, TypeInv
<1>2. <<e>> \in Seq(Entries) /\ Len(<<e>>) = 1 /\ <<e>>[1] = e
  BY SingleParts
<1>3. PICK more : more = <<e>>
  OBVIOUS
<1>4. PICK last \in Nat : last = printed'
  OBVIOUS
<1>5. Fresh(more, last)
  <2>1. Ordered(more)
    BY <1>2, <1>3 DEF Ordered
  <2> QED
    BY <1>2, <1>3, <1>4, <2>1 DEF Fresh
<1>6. txq' = txq \o more
  BY <1>1, <1>3, AppendConcat DEF SendStringInternal
<1>7. /\ txq \o more \in Seq(Entries) /\ Ordered(txq \o more)
      /\ \A i \in 1 .. Len(txq \o more) :
           (txq \o more)[i].notify =>
             /\ (txq \o more)[i].id <= last
             /\ \A n \in 1 .. Len(screen) : screen[n] < (txq \o more)[i].id
  BY <1>4, <1>5, GrownOK
<1>8. txq' \in Seq(Entries) /\ Ordered(txq') /\ ToShow(txq)'
  BY <1>4, <1>6, <1>7 DEF ToShow
<1>9. /\ \A n \in 1 .. Len(screen') : screen'[n] <= printed'
      /\ \A m, n \in 1 .. Len(screen') : m < n => screen'[m] < screen'[n]
  <2>1. \A n \in 1 .. Len(screen) : screen[n] \in Nat
    BY <1>1
  <2> QED
    BY <1>1, <2>1 DEF ConsoleInv, QueueInv
<1>10. CASE txq # <<>> \/ sock # "open"
  <2>1. inflight' = inflight /\ (txq # <<>> => sock' = sock)
    BY <1>10 DEF SendStringInternal, SendFromQueue
  <2>2. Ordered(inflight') /\ ToShow(inflight)' /\ inflight' \in Seq(Entries)
    <3>1. \A i \in 1 .. Len(inflight) : inflight[i].id \in Nat
      BY <1>1, EntryTypes
    <3> QED
      BY <1>1, <2>1, <3>1 DEF ConsoleInv, QueueInv, ToShow
  <2>3. CASE txq # <<>>
    <3>1. /\ Len(txq) \in Nat \ {0} /\ txq'[1] = txq[1]
          /\ \A j \in 1 .. Len(txq') : \/ j \in 1 .. Len(txq) /\ txq'[j] = txq[j]
                                       \/ txq'[j] = e
      <4>1. Len(txq) \in Nat \ {0} /\ 1 \in 1 .. Len(txq)
        BY <1>1, <2>3
      <4>2. /\ Len(txq \o more) = Len(txq) + 1
            /\ \A i \in 1 .. Len(txq) : (txq \o more)[i] = txq[i]
            /\ \A i \in 1 .. Len(txq) + 1 :
                 \/ i \in 1 .. Len(txq) /\ (txq \o more)[i] = txq[i]
                 \/ i - Len(txq) \in 1 .. 1 /\ (txq \o more)[i] = more[i - Len(txq)]
        BY <1>1, <1>2, <1>3, ConcatParts
      <4>3. \A i : i - Len(txq) \in 1 .. 1 => i - Len(txq) = 1
        OBVIOUS
      <4> QED
        BY <1>2, <1>3, <1>6, <4>1, <4>2, <4>3
    <3>2. \A i \in 1 .. Len(inflight') - 1 : \A j \in 1 .. Len(txq') : Before(inflight'[i], txq'[j])
      <4>1. ASSUME NEW i \in 1 .. Len(inflight) - 1 PROVE Before(inflight[i], e)
        <5>1. i \in 1 .. Len(inflight)
          BY <1>1
        <5>2. inflight[i].id \in Nat /\ e.id \in Nat
          BY <1>1, <5>1, EntryTypes DEF Entries
        <5>3. inflight[i].notify => inflight[i].id <= printed
          BY <5>1 DEF ConsoleInv, QueueInv, ToShow
        <5> QED
          BY <1>1, <5>2, <5>3 DEF Before
      <4> QED
        BY <2>1, <3>1, <4>1 DEF ConsoleInv, QueueInv
    <3>3. /\ inflight' # <<>> /\ txq' # <<>> => inflight'[Len(inflight')] = txq'[1]
          /\ sock' # "open" => inflight' = <<>>
      BY <2>1, <2>3, <3>1 DEF ConsoleInv, QueueInv
    <3> QED
      BY <1>3, <1>6, <1>8, <1>9, <2>2, <3>2, <3>3 DEF QueueInv
  <2>4. CASE txq = <<>> /\ sock # "open"
    <3>1. inflight' = <<>> /\ Len(<<>>) = 0 /\ \A i \in 1 .. Len(<<>>) - 1 : FALSE
      BY <2>1, <2>4 DEF ConsoleInv, QueueInv
    <3> QED
      BY <1>3, <1>6, <1>8, <1>9, <2>2, <3>1 DEF QueueInv
  <2> QED
    BY <1>10, <2>3, <2>4
<1>11. CASE txq = <<>> /\ sock = "open"
  <2>1. txq' = more
    BY <1>1, <1>2, <1>3, <1>6, <1>11
  <2>2. inflight' = inflight \o more /\ sock' = sock
    <3>1. Head(txq') = e
      BY <1>3, <2>1
    <3> QED
      BY <1>1, <1>3, <1>11, <3>1, AppendConcat DEF SendStringInternal, SendFromQueue
  <2>3. /\ inflight \o more \in Seq(Entries) /\ Ordered(inflight \o more)
        /\ \A i \in 1 .. Len(inflight \o more) :
             (inflight \o more)[i].notify =>
               /\ (inflight \o more)[i].id <= last
               /\ \A n \in 1 .. Len(screen) : screen[n] < (inflight \o more)[i].id
    BY <1>4, <1>5, GrownOK
  <2>4. inflight' \in Seq(Entries) /\ Ordered(inflight') /\ ToShow(inflight)'
    BY <1>4, <2>2, <2>3 DEF ToShow
  <2>5. /\ Len(inflight') = Len(inflight) + 1 /\ Len(inflight) \in Nat
        /\ inflight'[Len(inflight')] = e
        /\ \A i \in 1 .. Len(inflight) : inflight'[i] = inflight[i]
    <3>1. /\ Len(inflight \o more) = Len(inflight) + 1 /\ Len(inflight) \in Nat
          /\ \A i \in 1 .. Len(inflight) : (inflight \o more)[i] = inflight[i]
      BY <1>1, <1>2, <1>3, ConcatParts
    <3>2. (inflight \o more)[Len(inflight) + 1] = e
      BY <1>1, <1>2, <1>3
    <3> QED
      BY <2>2, <3>1, <3>2
  <2>6. \A i \in 1 .. Len(inflight') - 1 : \A j \in 1 .. Len(txq') : Before(inflight'[i], txq'[j])
    <3>1. ASSUME NEW i \in 1 .. Len(inflight) PROVE Before(inflight[i], e)
      <4>1. inflight[i].id \in Nat /\ e.id \in Nat
        BY <1>1, EntryTypes DEF Entries
      <4>2. inflight[i].notify => inflight[i].id <= printed
        BY DEF ConsoleInv, QueueInv, ToShow
      <4> QED
        BY <1>1, <4>1, <4>2 DEF Before
    <3>2. Len(inflight') - 1 = Len(inflight) /\ Len(txq') = 1 /\ txq'[1] = e
          /\ \A j \in 1 .. 1 : j = 1
      BY <1>2, <1>3, <2>1, <2>5
    <3> QED
      BY <2>5, <3>1, <3>2
  <2>7. inflight'[Len(inflight')] = txq'[1]
    BY <1>2, <1>3, <2>1, <2>5
  <2> QED
    BY <1>3, <1>6, <1>8, <1>9, <1>11, <2>2, <2>4, <2>6, <2>7 DEF QueueInv
<1> QED
  BY <1>10, <1>11

(* Steps that only give up what is being written, or print nothing new. *)
LEMMA QueueSame ==
  ASSUME ConsoleInv, txq' = txq, screen' = screen, inflight' = inflight \/ inflight' = <<>>,
         printed' \in Nat, printed <= printed', sock' # "open" => inflight' = <<>>
  PROVE QueueInv' /\ txq' \in Seq(Entries) /\ inflight' \in Seq(Entries)
<1>1. /\ txq \in Seq(Entries) /\ inflight \in Seq(Entries) /\ screen \in Seq(Nat)
      /\ printed \in Nat /\ QueueInv
  BY DEF ConsoleInv, TypeInv
<1>2. /\ \A n \in 1 .. Len(screen) : screen[n] \in Nat
      /\ \A i \in 1 .. Len(txq) : txq[i].id \in Nat
      /\ \A i \in 1 .. Len(inflight) : inflight[i].id \in Nat
  BY <1>1, EntryTypes
<1>3. Len(<<>>) = 0 /\ (\A i \in 1 .. Len(<<>>) : FALSE) /\ (\A i \in 1 .. Len(<<>>) - 1 : FALSE)
      /\ <<>> \in Seq(Entries)
  OBVIOUS
<1>4. ToShow(txq)' /\ (\A n \in 1 .. Len(screen') : screen'[n] <= printed')
      /\ (inflight' = inflight => ToShow(inflight)')
  BY <1>1, <1>2 DEF QueueInv, ToShow
<1>5. CASE inflight' = inflight
  BY <1>1, <1>4, <1>5 DEF QueueInv, Ordered
<1>6. CASE inflight' = <<>>
  <2>1. Ordered(inflight') /\ ToShow(inflight)'
    BY <1>3, <1>6 DEF Ordered, ToShow
  <2> QED
    BY <1>1, <1>3, <1>4, <1>6, <2>1 DEF QueueInv
<1> QED
  BY <1>5, <1>6

(* A write completes: its entry is shown and the next one is written. *)
LEMMA EntryWritten ==
  ASSUME ConsoleInv, WriteHandler PROVE QueueInv' /\ TypeInv'
<1>1. /\ txq \in Seq(Entries) /\ inflight \in Seq(Entries) /\ screen \in Seq(Nat)
      /\ printed \in Nat /\ QueueInv /\ inflight # <<>> /\ sock' = sock /\ printed' = printed
      /\ sock = "open" /\ Len(txq) \in Nat /\ Len(inflight) \in Nat
  BY DEF ConsoleInv, TypeInv, QueueInv, WriteHandler
<1>2. PICK h \in Entries, u \in Seq(Entries) :
        /\ h = inflight[1] /\ h = Head(inflight) /\ u = Tail(inflight)
        /\ Len(u) = Len(inflight) - 1 /\ 1 \in 1 .. Len(inflight)
        /\ \A i \in 1 .. Len(inflight) - 1 : u[i] = inflight[i + 1] /\ i + 1 \in 1 .. Len(inflight)
  BY <1>1, TailParts
<1>3. PICK v \in Seq(Entries) :
        /\ v = txq' /\ \A j \in 1 .. Len(v) : v[j] = txq[j + 1] /\ j + 1 \in 1 .. Len(txq)
        /\ v # <<>> => txq # <<>>
  <2>1. CASE txq = <<>>
    <3>1. txq' = <<>> /\ <<>> \in Seq(Entries) /\ \A j \in 1 .. Len(<<>>) : FALSE
      BY <2>1 DEF WriteHandler
    <3> QED
      BY <3>1
  <2>2. CASE txq # <<>>
    <3>1. txq' = Tail(txq)
      BY <2>2 DEF WriteHandler
    <3>2. /\ Tail(txq) \in Seq(Entries) /\ Len(Tail(txq)) = Len(txq) - 1
          /\ \A j \in 1 .. Len(txq) - 1 : Tail(txq)[j] = txq[j + 1] /\ j + 1 \in 1 .. Len(txq)
      BY <1>1, <2>2, TailParts
    <3> QED
      BY <2>2, <3>1, <3>2
  <2> QED
    BY <2>1, <2>2
<1>4. PICK w \in Seq(Entries) :
        /\ inflight' = u \o w /\ Len(w) <= 1
        /\ v = <<>> => w = <<>>
        /\ v # <<>> => w = <<v[1]>> /\ Len(w) = 1 /\ w[1] = v[1] /\ 1 \in 1 .. Len(v)
  <2>1. CASE v = <<>>
    <3>1. inflight' = u
      BY <1>2, <1>3, <2>1 DEF WriteHandler
    <3>2. u = u \o <<>> /\ <<>> \in Seq(Entries) /\ Len(<<>>) <= 1
      OBVIOUS
    <3> QED
      BY <2>1, <3>1, <3>2
  <2>2. CASE v # <<>>
    <3>1. Head(v) = v[1] /\ v[1] \in Entries /\ 1 \in 1 .. Len(v)
      BY <2>2, TailParts
    <3>2. PICK e \in Entries : e = v[1]
      BY <3>1
    <3>3. inflight' = Append(u, e)
      BY <1>2, <1>3, <2>2, <3>1, <3>2 DEF WriteHandler
    <3>4. inflight' = u \o <<e>> /\ <<e>> \in Seq(Entries) /\ Len(<<e>>) = 1 /\ <<e>>[1] = e
      BY <3>3, AppendConcat, SingleParts
    <3>5. PICK w \in Seq(Entries) : w = <<e>>
      BY <3>4
    <3>6. Len(w) = 1 /\ Len(w) <= 1 /\ w[1] = v[1] /\ w = <<v[1]>>
      BY <3>2, <3>4, <3>5
    <3> QED
      BY <2>2, <3>1, <3>4, <3>5, <3>6
  <2> QED
    BY <2>1, <2>2
<1>5. ASSUME NEW j \in 1 .. Len(v) PROVE Before(h, v[j])
  <2>1. v[j] = txq[j + 1] /\ j + 1 \in 1 .. Len(txq) /\ txq # <<>> /\ 1 \in 1 .. Len(txq)
        /\ 1 < j + 1
    BY <1>1, <1>3
  <2>2. CASE Len(inflight) = 1
    <3>1. h = txq[1]
      BY <1>1, <1>2, <2>1, <2>2 DEF QueueInv
    <3> QED
      BY <1>1, <2>1, <3>1 DEF QueueInv, Ordered
  <2>3. CASE Len(inflight) # 1
    <3>1. 1 \in 1 .. Len(inflight) - 1
      BY <1>1, <1>2, <2>3
    <3> QED
      BY <1>1, <1>2, <2>1, <3>1 DEF QueueInv
  <2> QED
    BY <2>2, <2>3
<1>6. ASSUME NEW i \in 1 .. Len(u), NEW j \in 1 .. Len(v) PROVE Before(u[i], v[j])
  <2>1. v[j] = txq[j + 1] /\ j + 1 \in 1 .. Len(txq) /\ txq # <<>> /\ 1 \in 1 .. Len(txq)
        /\ 1 < j + 1
    BY <1>1, <1>3
  <2>2. u[i] = inflight[i + 1] /\ i + 1 \in 1 .. Len(inflight)
    BY <1>2
  <2>3. CASE i + 1 = Len(inflight)
    <3>1. u[i] = txq[1]
      BY <1>1, <2>1, <2>2, <2>3 DEF QueueInv
    <3> QED
      BY <1>1, <2>1, <3>1 DEF QueueInv, Ordered
  <2>4. CASE i + 1 # Len(inflight)
    <3>1. i + 1 \in 1 .. Len(inflight) - 1
      BY <1>1, <2>2, <2>4
    <3> QED
      BY <1>1, <2>1, <2>2, <3>1 DEF QueueInv
  <2> QED
    BY <2>3, <2>4
<1>7. ASSUME NEW i \in 1 .. Len(u) PROVE Before(h, u[i])
  <2>1. u[i] = inflight[i + 1] /\ i + 1 \in 1 .. Len(inflight) /\ 1 < i + 1
    BY <1>2
  <2> QED
    BY <1>1, <1>2, <2>1 DEF QueueInv, Ordered
<1>8. Ordered(v)
  <2>1. ASSUME NEW i \in 1 .. Len(v), NEW j \in 1 .. Len(v), i < j PROVE Before(v[i], v[j])
    <3>1. /\ v[i] = txq[i + 1] /\ v[j] = txq[j + 1] /\ i + 1 < j + 1
          /\ i + 1 \in 1 .. Len(txq) /\ j + 1 \in 1 .. Len(txq)
      BY <1>3, <2>1
    <3> QED
      BY <1>1, <3>1 DEF QueueInv, Ordered
  <2> QED
    BY <2>1 DEF Ordered
<1>9. Ordered(u)
  <2>1. ASSUME NEW i \in 1 .. Len(u), NEW j \in 1 .. Len(u), i < j PROVE Before(u[i], u[j])
    <3>1. /\ u[i] = inflight[i + 1] /\ u[j] = inflight[j + 1] /\ i + 1 < j + 1
          /\ i + 1 \in 1 .. Len(inflight) /\ j + 1 \in 1 .. Len(inflight)
      BY <1>2, <2>1
    <3> QED
      BY <1>1, <3>1 DEF QueueInv, Ordered
  <2> QED
    BY <2>1 DEF Ordered
<1>10. PICK x \in Seq(Entries) :
         /\ x = inflight' /\ Len(x) = Len(u) + Len(w) /\ Len(u) \in Nat /\ Len(w) \in Nat
         /\ \A i \in 1 .. Len(u) : x[i] = u[i]
         /\ \A i \in 1 .. Len(u) + Len(w) :
              \/ i \in 1 .. Len(u) /\ x[i] = u[i]
              \/ i - Len(u) \in 1 .. Len(w) /\ x[i] = w[i - Len(u)]
  <2>1. PICK x : x = u \o w
    OBVIOUS
  <2>2. /\ x \in Seq(Entries) /\ Len(x) = Len(u) + Len(w) /\ Len(u) \in Nat /\ Len(w) \in Nat
        /\ \A i \in 1 .. Len(u) : x[i] = u[i]
        /\ \A i \in 1 .. Len(u) + Len(w) :
             \/ i \in 1 .. Len(u) /\ x[i] = u[i]
             \/ i - Len(u) \in 1 .. Len(w) /\ x[i] = w[i - Len(u)]
    BY <2>1, ConcatParts
  <2>3. x = inflight'
    BY <1>4, <2>1
  <2> QED
    BY <2>2, <2>3
<1>11. \A i \in 1 .. Len(x) : \/ i \in 1 .. Len(u) /\ x[i] = u[i]
                              \/ v # <<>> /\ i = Len(u) + 1 /\ i = Len(x) /\ x[i] = v[1]
  <2>1. ASSUME NEW i \in 1 .. Len(x), i - Len(u) \in 1 .. Len(w), x[i] = w[i - Len(u)]
        PROVE v # <<>> /\ i = Len(u) + 1 /\ i = Len(x) /\ x[i] = v[1]
    <3>1. Len(w) = 1 /\ i - Len(u) = 1
      BY <1>4, <1>10, <2>1
    <3>2. v # <<>>
      <4>1. Len(<<>>) # 1
        OBVIOUS
      <4> QED
        BY <1>4, <3>1, <4>1
    <3> QED
      BY <1>4, <1>10, <2>1, <3>1, <3>2
  <2> QED
    BY <1>10, <2>1
<1>12. ASSUME NEW i \in 1 .. Len(x), NEW j \in 1 .. Len(x), i < j PROVE Before(x[i], x[j])
  <2>1. i \in 1 .. Len(u) /\ x[i] = u[i]
    <3>1. i # Len(x)
      BY <1>10, <1>12
    <3> QED
      BY <1>11, <3>1
  <2> QED
    BY <1>4, <1>6, <1>9, <1>11, <1>12, <2>1 DEF Ordered
<1>13. ASSUME NEW i \in 1 .. Len(x) - 1, NEW j \in 1 .. Len(v) PROVE Before(x[i], v[j])
  <2>1. i \in 1 .. Len(x) /\ i # Len(x)
    BY <1>10
  <2> QED
    BY <1>6, <1>11, <2>1
<1>14. x # <<>> /\ v # <<>> => x[Len(x)] = v[1]
  <2> SUFFICES ASSUME v # <<>> PROVE x[Len(x)] = v[1]
    OBVIOUS
  <2>1. Len(x) = Len(u) + 1
    BY <1>4, <1>10
  <2>2. Len(x) \in 1 .. Len(x) /\ Len(x) \notin 1 .. Len(u)
    BY <1>10, <2>1
  <2> QED
    BY <1>11, <2>2
<1>15. ASSUME NEW s \in {x, v}, NEW i \in 1 .. Len(s), s[i].notify
       PROVE /\ Before(h, s[i]) /\ s[i].id \in Nat /\ s[i].id <= printed
             /\ \A n \in 1 .. Len(screen) : screen[n] < s[i].id
  <2>1. ASSUME NEW j \in 1 .. Len(v), v[j].notify
        PROVE /\ Before(h, v[j]) /\ v[j].id \in Nat /\ v[j].id <= printed
              /\ \A n \in 1 .. Len(screen) : screen[n] < v[j].id
    <3>1. v[j] = txq[j + 1] /\ j + 1 \in 1 .. Len(txq)
      BY <1>3
    <3> QED
      BY <1>1, <1>5, <2>1, <3>1, EntryTypes DEF QueueInv, ToShow
  <2>2. ASSUME NEW j \in 1 .. Len(u), u[j].notify
        PROVE /\ Before(h, u[j]) /\ u[j].id \in Nat /\ u[j].id <= printed
              /\ \A n \in 1 .. Len(screen) : screen[n] < u[j].id
    <3>1. u[j] = inflight[j + 1] /\ j + 1 \in 1 .. Len(inflight)
      BY <1>2
    <3> QED
      BY <1>1, <1>7, <2>2, <3>1, EntryTypes DEF QueueInv, ToShow
  <2>3. CASE s = v
    BY <1>15, <2>1, <2>3
  <2>4. CASE s = x
    <3>1. CASE i \in 1 .. Len(u) /\ x[i] = u[i]
      BY <1>15, <2>2, <2>4, <3>1
    <3>2. CASE v # <<>> /\ x[i] = v[1]
      <4>1. 1 \in 1 .. Len(v)
        BY <1>4, <3>2
      <4> QED
        BY <1>15, <2>1, <2>4, <3>2, <4>1
    <3> QED
      BY <1>11, <2>4, <3>1, <3>2
  <2> QED
    BY <2>3, <2>4
<1>16. h.id \in Nat /\ h.notify \in BOOLEAN
       /\ (h.notify => h.id <= printed /\ \A n \in 1 .. Len(screen) : screen[n] < h.id)
  BY <1>1, <1>2 DEF Entries, QueueInv, ToShow
<1>17. PICK y \in Seq(Nat) :
         /\ y = screen' /\ Len(screen) \in Nat /\ Len(y) \in Nat
         /\ \A n \in 1 .. Len(y) :
              \/ n \in 1 .. Len(screen) /\ y[n] = screen[n]
              \/ n = Len(screen) + 1 /\ h.notify /\ y[n] = h.id
         /\ Len(y) <= Len(screen) + 1
  <2>1. screen' = IF h.notify THEN Append(screen, h.id) ELSE screen
    BY <1>2 DEF WriteHandler, Show
  <2>2. CASE h.notify
    <3>1. PICK d \in Nat : d = h.id
      BY <1>16
    <3>2. /\ Append(screen, d) \in Seq(Nat) /\ Len(Append(screen, d)) = Len(screen) + 1
          /\ Len(screen) \in Nat /\ Append(screen, d)[Len(screen) + 1] = d
          /\ \A n \in 1 .. Len(screen) : Append(screen, d)[n] = screen[n]
      BY <1>1
    <3>3. \A n \in 1 .. Len(screen) + 1 : n \in 1 .. Len(screen) \/ n = Len(screen) + 1
      BY <3>2
    <3>4. PICK y \in Seq(Nat) : y = Append(screen, d)
      BY <3>2
    <3>5. /\ y = screen' /\ Len(y) \in Nat /\ Len(y) = Len(screen) + 1
          /\ Len(y) <= Len(screen) + 1
      BY <2>1, <2>2, <3>1, <3>2, <3>4
    <3>6. \A n \in 1 .. Len(y) :
            \/ n \in 1 .. Len(screen) /\ y[n] = screen[n]
            \/ n = Len(screen) + 1 /\ h.notify /\ y[n] = h.id
      <4>1. \A n \in 1 .. Len(screen) + 1 :
              \/ n \in 1 .. Len(screen) /\ y[n] = screen[n]
              \/ n = Len(screen) + 1 /\ y[n] = d
        BY <3>2, <3>3, <3>4
      <4>2. Len(y) = Len(screen) + 1
        BY <3>5
      <4> QED
        BY <2>2, <3>1, <4>1, <4>2
    <3> QED
      BY <3>2, <3>5, <3>6
  <2>3. CASE ~h.notify
    BY <1>1, <2>1, <2>3
  <2> QED
    BY <2>2, <2>3
<1>18. \A n \in 1 .. Len(screen) : screen[n] \in Nat /\ screen[n] <= printed
  <2>1. \A n \in 1 .. Len(screen) : screen[n] \in Nat
    BY <1>1
  <2> QED
    BY <1>1, <2>1 DEF QueueInv
<1>19. ASSUME NEW s \in {x, v}, NEW i \in 1 .. Len(s), s[i].notify
       PROVE s[i].id <= printed /\ \A n \in 1 .. Len(y) : y[n] < s[i].id
  <2>1. ASSUME h.notify PROVE h.id < s[i].id
    BY <1>15, <1>19, <2>1 DEF Before
  <2> QED
    BY <1>15, <1>17, <1>19, <2>1
<1>20. ASSUME NEW m \in 1 .. Len(y), NEW n \in 1 .. Len(y), m < n PROVE y[m] < y[n]
  <2>1. m \in 1 .. Len(screen) /\ y[m] = screen[m]
    <3>1. m # Len(screen) + 1
      BY <1>17, <1>20
    <3> QED
      BY <1>17, <3>1
  <2>2. CASE n \in 1 .. Len(screen) /\ y[n] = screen[n]
    BY <1>1, <1>20, <2>1, <2>2 DEF QueueInv
  <2>3. CASE h.notify /\ y[n] = h.id
    BY <1>16, <2>1, <2>3
  <2> QED
    BY <1>17, <2>2, <2>3
<1>21. \A n \in 1 .. Len(y) : y[n] <= printed
  BY <1>16, <1>17, <1>18
<1>22. QueueInv'
  <2>1. ToShow(inflight)' /\ ToShow(txq)'
    BY <1>1, <1>3, <1>10, <1>17, <1>19 DEF ToShow
  <2>2. Ordered(inflight') /\ Ordered(txq')
    BY <1>3, <1>8, <1>10, <1>12 DEF Ordered
  <2>3. sock' = "open"
    BY <1>1
  <2> QED
    BY <1>1, <1>3, <1>10, <1>13, <1>14, <1>17, <1>20, <1>21, <2>1, <2>2, <2>3 DEF QueueInv
<1>23. TypeInv'
  <2>1. to' \in [busy : BOOLEAN, done : BOOLEAN] /\ owed' \in BOOLEAN
    BY DEF ConsoleInv, TypeInv, WriteHandler, SetDone
  <2>2. line' = line /\ telnet' = telnet
    BY DEF WriteHandler
  <2> QED
    BY <1>1, <1>3, <1>10, <1>17, <2>1, <2>2 DEF ConsoleInv, TypeInv
<1> QED
  BY <1>22, <1>23

-----------------------------------------------------------------------------
(* The steps *)

(* A step that leaves the queue alone and owes no new acknowledgement. *)
LEMMA OwedSame ==
  ASSUME ConsoleInv, owed' = FALSE \/ (to'.busy = to.busy /\ owed' = owed), txq' = txq
  PROVE NoLostCompletion'
BY DEF ConsoleInv, NoLostCompletion

(* The queue keeps what it holds when it grows. *)
LEMMA OwedGrows ==
  ASSUME ConsoleInv, NEW more \in Seq(Entries), txq' = txq \o more,
         to' = to, owed' = owed
  PROVE NoLostCompletion'
<1> SUFFICES ASSUME owed PROVE to.busy /\ \E i \in DOMAIN txq' : txq'[i].notify
  BY DEF NoLostCompletion
<1>1. txq \in Seq(Entries)
  BY DEF ConsoleInv, TypeInv
<1>2. PICK i \in 1 .. Len(txq) : txq[i].notify /\ to.busy
  BY <1>1 DEF ConsoleInv, NoLostCompletion
<1>3. PICK t : t = txq \o more
  OBVIOUS
<1>4. /\ t \in Seq(Entries) /\ Len(t) = Len(txq) + Len(more) /\ Len(txq) \in Nat /\ Len(more) \in Nat
      /\ t[i] = txq[i]
  BY <1>1, <1>3, ConcatParts
<1>5. i \in DOMAIN t
  BY <1>4
<1> QED
  BY <1>2, <1>3, <1>4, <1>5

(* SetDone comes for the head of the queue, so that an acknowledgement     *)
(* still owed belongs to another entry.                                    *)
LEMMA OwedWritten == ASSUME ConsoleInv, WriteHandler PROVE NoLostCompletion'
<1>1. txq \in Seq(Entries)
  BY DEF ConsoleInv, TypeInv
<1>2. CASE txq # <<>> /\ Head(txq).notify
  BY <1>2 DEF WriteHandler, SetDone, NoLostCompletion
<1>3. CASE ~(txq # <<>> /\ Head(txq).notify) /\ owed
  <2>1. to' = to /\ owed' = owed
    BY <1>3 DEF WriteHandler
  <2>2. PICK i \in 1 .. Len(txq) : txq[i].notify /\ to.busy
    BY <1>1, <1>3 DEF ConsoleInv, NoLostCompletion
  <2>3. txq # <<>>
    BY <1>1, <2>2
  <2>4. txq' = Tail(txq)
    BY <2>3 DEF WriteHandler
  <2>5. PICK v \in Seq(Entries) :
          /\ v = Tail(txq) /\ Len(v) = Len(txq) - 1 /\ Len(txq) \in Nat \ {0} /\ Head(txq) = txq[1]
          /\ \A j \in 1 .. Len(txq) - 1 : v[j] = txq[j + 1]
    BY <1>1, <2>3, TailParts
  <2>6. i # 1
    BY <1>3, <2>2, <2>3, <2>5
  <2>7. i - 1 \in 1 .. Len(txq) - 1 /\ (i - 1) + 1 = i
    BY <2>5, <2>6
  <2>8. v[i - 1].notify /\ i - 1 \in DOMAIN v
    BY <2>2, <2>5, <2>7
  <2> QED
    BY <2>1, <2>2, <2>4, <2>5, <2>8 DEF NoLostCompletion
<1>4. CASE ~(txq # <<>> /\ Head(txq).notify) /\ ~owed
  BY <1>4 DEF WriteHandler, NoLostCompletion
<1> QED
  BY <1>2, <1>3, <1>4

(* The types, for a step that changes only the queues. *)
LEMMA TypesSame ==
  ASSUME TypeInv, UNCHANGED <<to, owed, screen, printed>>,
         txq' \in Seq(Entries), inflight' \in Seq(Entries),
         line' \in Seq(Bytes), telnet' \in {"WaitIAC", "WaitAction"} \cup Actions
  PROVE TypeInv'
BY DEF TypeInv

LEMMA CloseStep ==
  ASSUME ConsoleInv, ReadFails \/ WriteFails \/ AbortedHandler PROVE ConsoleInv'
<1>1. /\ UNCHANGED <<guest, txq, screen, telnet>> /\ inflight' = <<>> /\ line' = <<>>
  BY DEF ReadFails, WriteFails, AbortedHandler, CloseSocket
<1>2. UNCHANGED <<to, owed, printed>>
  BY <1>1 DEF guest
<1>3. printed' \in Nat /\ printed <= printed'
  BY <1>2 DEF ConsoleInv, TypeInv
<1>4. QueueInv' /\ txq' \in Seq(Entries) /\ inflight' \in Seq(Entries)
  BY <1>1, <1>2, <1>3, QueueSame
<1>5. line' \in Seq(Bytes) /\ telnet' \in {"WaitIAC", "WaitAction"} \cup Actions
  BY <1>1 DEF ConsoleInv, TypeInv
<1>6. TypeInv'
  BY <1>1, <1>2, <1>4, <1>5, TypesSame DEF ConsoleInv
<1>7. NoLostCompletion'
  BY <1>1, <1>2, OwedSame
<1> QED
  BY <1>4, <1>6, <1>7 DEF ConsoleInv

(* Steps that leave the connection and the queue alone. *)
LEMMA IdleStep ==
  ASSUME ConsoleInv, ToClear \/ MasterClear \/ Tick \/ TiClear \/ GetChar \/ Connect \/ Disconnect
  PROVE ConsoleInv'
<1>1. /\ UNCHANGED <<sock, line, telnet, inflight, txq, screen, printed>>
      /\ to' \in [busy : BOOLEAN, done : BOOLEAN] /\ owed' \in BOOLEAN
      /\ owed' = FALSE \/ (to'.busy = to.busy /\ owed' = owed)
  <2>1. to \in [busy : BOOLEAN, done : BOOLEAN] /\ owed \in BOOLEAN
    BY DEF ConsoleInv, TypeInv
  <2>2. CASE ToClear
    BY <2>1, <2>2 DEF ToClear, conn
  <2>4. CASE MasterClear
    BY <2>1, <2>4 DEF MasterClear, conn
  <2>3. CASE Tick \/ TiClear \/ GetChar \/ Connect \/ Disconnect
    BY <2>1, <2>3 DEF Tick, TiClear, GetChar, Connect, Disconnect, conn, guest
  <2> QED
    BY <2>2, <2>3, <2>4
<1>2. printed' \in Nat /\ printed <= printed'
  BY <1>1 DEF ConsoleInv, TypeInv
<1>3. sock' # "open" => inflight' = <<>>
  BY <1>1 DEF ConsoleInv, QueueInv
<1>4. QueueInv'
  BY <1>1, <1>2, <1>3, QueueSame
<1>5. TypeInv'
  BY <1>1 DEF ConsoleInv, TypeInv
<1>6. NoLostCompletion'
  BY <1>1, OwedSame
<1> QED
  BY <1>4, <1>5, <1>6 DEF ConsoleInv

LEMMA TypeStep == ASSUME ConsoleInv, Type PROVE ConsoleInv'
<1>1. UNCHANGED <<guest, txq, screen, sock, telnet, inflight>>
  BY DEF Type
<1>2. UNCHANGED <<to, owed, printed>>
  BY <1>1 DEF guest
<1>3. printed' \in Nat /\ printed <= printed'
  BY <1>2 DEF ConsoleInv, TypeInv
<1>4. sock' # "open" => inflight' = <<>>
  BY <1>1 DEF ConsoleInv, QueueInv
<1>5. QueueInv' /\ txq' \in Seq(Entries) /\ inflight' \in Seq(Entries)
  BY <1>1, <1>2, <1>3, <1>4, QueueSame
<1>6. line' \in Seq(Bytes)
  <2>1. PICK word \in {<<"k">>, <<"LF">>, <<"IAC", "DO", "ECHO">>, <<"IAC", "NOP">>} :
          line' = line \o word
    BY DEF Type
  <2>2. word \in Seq(Bytes)
    <3>1. /\ <<"k">> \in Seq(Bytes) /\ <<"LF">> \in Seq(Bytes)
          /\ <<"IAC", "DO", "ECHO">> \in Seq(Bytes) /\ <<"IAC", "NOP">> \in Seq(Bytes)
      BY DEF Bytes
    <3> QED
      BY <2>1, <3>1
  <2>3. line \in Seq(Bytes)
    BY DEF ConsoleInv, TypeInv
  <2>4. line \o word \in Seq(Bytes)
    BY <2>2, <2>3
  <2> QED
    BY <2>1, <2>4
<1>7. TypeInv'
  BY <1>1, <1>2, <1>5, <1>6, TypesSame DEF ConsoleInv, TypeInv
<1>8. NoLostCompletion'
  BY <1>1, <1>2, OwedSame
<1> QED
  BY <1>5, <1>7, <1>8 DEF ConsoleInv

LEMMA OffersLeft ==
  ASSUME NEW k \in 0 .. 3
  PROVE /\ SubSeq(Offers, k + 1, 3) \in Seq(Entries)
        /\ \A i \in 1 .. Len(SubSeq(Offers, k + 1, 3)) : ~SubSeq(Offers, k + 1, 3)[i].notify
<1>1. \A i \in 1 .. 3 : Offers[i] \in Entries /\ ~Offers[i].notify
  <2>1. /\ Option("WILL", "ECHO") \in Entries /\ ~Option("WILL", "ECHO").notify
        /\ Option("WILL", "SGA") \in Entries /\ ~Option("WILL", "SGA").notify
        /\ Option("WONT", "LINEMODE") \in Entries /\ ~Option("WONT", "LINEMODE").notify
    BY DEF Option, Entries, Bytes
  <2>2. /\ Offers[1] = Option("WILL", "ECHO") /\ Offers[2] = Option("WILL", "SGA")
        /\ Offers[3] = Option("WONT", "LINEMODE")
    BY DEF Offers
  <2>3. \A i \in 1 .. 3 : i = 1 \/ i = 2 \/ i = 3
    OBVIOUS
  <2> QED
    BY <2>1, <2>2, <2>3
<1>2. PICK t : t = SubSeq(Offers, k + 1, 3)
  OBVIOUS
<1>3. \A i \in k + 1 .. 3 : Offers[i] \in Entries
  BY <1>1
<1>4. /\ t \in Seq(Entries) /\ Len(t) = IF k + 1 <= 3 THEN 3 - (k + 1) + 1 ELSE 0
      /\ \A i \in 1 .. 3 - (k + 1) + 1 : t[i] = Offers[(k + 1) + i - 1]
  <2>1. k + 1 \in Int /\ 3 \in Int
    OBVIOUS
  <2> QED
    BY <1>2, <1>3, <2>1, SubSeqProperties
<1>5. ASSUME NEW i \in 1 .. Len(t) PROVE ~t[i].notify
  <2>1. i \in 1 .. 3 - (k + 1) + 1 /\ (k + 1) + i - 1 \in 1 .. 3
    BY <1>4
  <2> QED
    BY <1>1, <1>4, <2>1
<1> QED
  BY <1>2, <1>4, <1>5

(* The first connection, accepted inside SendFromQueue: the character is   *)
(* shown at once, and only offers are left in the queue.                   *)
LEMMA PolledStep ==
  ASSUME ConsoleInv, AcceptedInPoll(Text(printed + 1)), printed' = printed + 1,
         UNCHANGED <<line, telnet>>
  PROVE ConsoleInv'
<1>1. /\ printed \in Nat /\ printed' \in Nat /\ screen \in Seq(Nat)
      /\ to \in [busy : BOOLEAN, done : BOOLEAN]
  BY DEF ConsoleInv, TypeInv
<1>2. /\ sock' = "open" /\ screen' = Append(screen, printed')
      /\ to' = [to EXCEPT !.busy = FALSE, !.done = TRUE] /\ owed' = FALSE
      /\ inflight' = (IF txq' = <<>> THEN <<>> ELSE <<Head(txq'), Head(txq')>>)
  BY DEF AcceptedInPoll, SetDone, Text
<1>3. PICK k \in 0 .. 3 : txq' = SubSeq(Offers, k + 1, 3)
  BY DEF AcceptedInPoll
<1>4. PICK more \in Seq(Entries) :
        more = txq' /\ \A i \in 1 .. Len(more) : ~more[i].notify
  BY <1>3, OffersLeft
<1>5. PICK f \in Seq(Entries) :
        /\ f = inflight'
        /\ f # <<>> => more # <<>> /\ f[Len(f)] = more[1]
        /\ \A i \in 1 .. Len(f) : ~f[i].notify
        /\ \A i \in 1 .. Len(f) - 1 : ~f[i].notify
  <2>1. CASE more = <<>>
    <3>1. /\ <<>> \in Seq(Entries) /\ (\A i \in 1 .. Len(<<>>) : FALSE)
          /\ \A i \in 1 .. Len(<<>>) - 1 : FALSE
      OBVIOUS
    <3> QED
      BY <1>2, <1>4, <2>1, <3>1
  <2>2. CASE more # <<>>
    <3>1. PICK h \in Entries : h = Head(more) /\ h = more[1] /\ ~h.notify
      BY <1>4, <2>2, TailParts
    <3>2. /\ <<h, h>> \in Seq(Entries) /\ Len(<<h, h>>) = 2 /\ <<h, h>>[2] = h
          /\ \A i \in 1 .. 2 : <<h, h>>[i] = h
          /\ \A i \in 1 .. 2 - 1 : <<h, h>>[i] = h
      OBVIOUS
    <3> QED
      BY <1>2, <1>4, <2>2, <3>1, <3>2
  <2> QED
    BY <2>1, <2>2
<1>6. /\ screen' \in Seq(Nat)
      /\ \A n \in 1 .. Len(screen') : screen'[n] <= printed'
      /\ \A m, n \in 1 .. Len(screen') : m < n => screen'[m] < screen'[n]
  <2>1. PICK t : t = Append(screen, printed')
    OBVIOUS
  <2>2. /\ t \in Seq(Nat) /\ Len(t) = Len(screen) + 1 /\ Len(screen) \in Nat
        /\ t[Len(screen) + 1] = printed' /\ \A n \in 1 .. Len(screen) : t[n] = screen[n]
    BY <1>1, <2>1
  <2>3. /\ \A n \in 1 .. Len(screen) : screen[n] \in Nat /\ screen[n] <= printed
        /\ \A m, n \in 1 .. Len(screen) : m < n => screen[m] < screen[n]
    <3>1. \A n \in 1 .. Len(screen) : screen[n] \in Nat
      BY <1>1
    <3> QED
      BY <3>1 DEF ConsoleInv, QueueInv
  <2>4. \A n \in 1 .. Len(t) : n \in 1 .. Len(screen) \/ n = Len(screen) + 1
    BY <2>2
  <2>5. ASSUME NEW n \in 1 .. Len(t) PROVE t[n] <= printed'
    <3>1. CASE n \in 1 .. Len(screen)
      <4>1. t[n] = screen[n] /\ screen[n] \in Nat /\ screen[n] <= printed
        BY <2>2, <2>3, <3>1
      <4> QED
        BY <1>1, <4>1, printed' = printed + 1
    <3>2. CASE n = Len(screen) + 1
      BY <1>1, <2>2, <3>2
    <3> QED
      BY <2>4, <3>1, <3>2
  <2>6. ASSUME NEW m \in 1 .. Len(t), NEW n \in 1 .. Len(t), m < n PROVE t[m] < t[n]
    <3>1. m \in 1 .. Len(screen)
      BY <2>2, <2>6
    <3>2. CASE n \in 1 .. Len(screen)
      BY <2>2, <2>3, <2>6, <3>1, <3>2
    <3>3. CASE n = Len(screen) + 1
      <4>1. t[m] = screen[m] /\ screen[m] \in Nat /\ screen[m] <= printed /\ t[n] = printed'
        BY <2>2, <2>3, <3>1, <3>3
      <4> QED
        BY <1>1, <4>1, printed' = printed + 1
    <3> QED
      BY <2>4, <3>2, <3>3
  <2> QED
    BY <1>2, <2>1, <2>2, <2>5, <2>6
<1>7. QueueInv'
  <2>1. /\ Ordered(txq') /\ Ordered(inflight')
        /\ \A i \in 1 .. Len(inflight') - 1 : \A j \in 1 .. Len(txq') : Before(inflight'[i], txq'[j])
    BY <1>4, <1>5 DEF Ordered, Before
  <2>2. ToShow(txq)' /\ ToShow(inflight)'
    BY <1>4, <1>5 DEF ToShow
  <2>3. inflight' # <<>> /\ txq' # <<>> => inflight'[Len(inflight')] = txq'[1]
    BY <1>4, <1>5
  <2> QED
    BY <1>2, <1>6, <2>1, <2>2, <2>3 DEF QueueInv
<1>8. TypeInv'
  BY <1>1, <1>2, <1>4, <1>5, <1>6 DEF ConsoleInv, TypeInv
<1>9. NoLostCompletion'
  BY <1>2 DEF NoLostCompletion
<1> QED
  BY <1>7, <1>8, <1>9 DEF ConsoleInv

LEMMA PutCharStep == ASSUME ConsoleInv, NEW ch \in OutChars, PutChar(ch) PROVE ConsoleInv'
<1>1. /\ printed' = printed + 1 /\ UNCHANGED <<line, telnet>>
      /\ \/ /\ to' = [to EXCEPT !.busy = TRUE, !.done = FALSE] /\ owed' = TRUE
            /\ SendStringInternal(Text(printed + 1)) /\ screen' = screen
         \/ AcceptedInPoll(Text(printed + 1))
         \/ SetDone /\ UNCHANGED <<txq, sock, inflight, screen>>
  BY DEF PutChar, conn
<1>2. printed \in Nat /\ printed' \in Nat /\ printed <= printed' /\ printed < printed'
      /\ to \in [busy : BOOLEAN, done : BOOLEAN]
  BY <1>1 DEF ConsoleInv, TypeInv
<1>3. CASE /\ to' = [to EXCEPT !.busy = TRUE, !.done = FALSE] /\ owed' = TRUE
           /\ SendStringInternal(Text(printed + 1)) /\ screen' = screen
  <2>1. PICK e \in Entries : e = Text(printed + 1) /\ e.notify /\ e.id = printed + 1
    <3>1. PICK n \in Nat : n = printed + 1
      BY <1>2
    <3>2. Text(n) \in Entries /\ Text(n).notify /\ Text(n).id = n
      BY DEF Text, Entries, Bytes
    <3> QED
      BY <3>1, <3>2
  <2>2. SendStringInternal(e) /\ e.id > printed /\ e.id <= printed'
    BY <1>1, <1>2, <1>3, <2>1
  <2>3. /\ QueueInv' /\ txq' = txq \o <<e>>
        /\ txq' \in Seq(Entries) /\ inflight' \in Seq(Entries)
    BY <1>1, <1>2, <1>3, <2>2, StringSent
  <2>4. TypeInv'
    BY <1>1, <1>2, <1>3, <2>3 DEF ConsoleInv, TypeInv
  <2>5. NoLostCompletion'
    <3>1. to'.busy
      BY <1>2, <1>3
    <3>2. PICK t : t = txq \o <<e>>
      OBVIOUS
    <3>3. Len(txq) + 1 \in DOMAIN t /\ t[Len(txq) + 1] = e
      BY <3>2 DEF ConsoleInv, TypeInv
    <3> QED
      BY <2>1, <2>3, <3>1, <3>2, <3>3 DEF NoLostCompletion
  <2> QED
    BY <2>3, <2>4, <2>5 DEF ConsoleInv
<1>4. CASE SetDone /\ UNCHANGED <<txq, sock, inflight, screen>>
  <2>1. sock' # "open" => inflight' = <<>>
    BY <1>4 DEF ConsoleInv, QueueInv
  <2>2. QueueInv' /\ txq' \in Seq(Entries) /\ inflight' \in Seq(Entries)
    BY <1>1, <1>2, <1>4, <2>1, QueueSame
  <2>3. TypeInv'
    BY <1>1, <1>2, <1>4, <2>2 DEF ConsoleInv, TypeInv, SetDone
  <2>4. NoLostCompletion'
    BY <1>4 DEF SetDone, NoLostCompletion
  <2> QED
    BY <2>2, <2>3, <2>4 DEF ConsoleInv
<1>5. CASE AcceptedInPoll(Text(printed + 1))
  BY <1>1, <1>5, PolledStep
<1> QED
  BY <1>1, <1>3, <1>4, <1>5

LEMMA ReadStep == ASSUME ConsoleInv, ReadHandler PROVE ConsoleInv'
<1>1. /\ UNCHANGED <<guest, screen>> /\ line # <<>> /\ line' = Tail(line)
      /\ \/ UNCHANGED <<txq, sock, inflight, telnet>>
         \/ Receive(Head(line))
  BY DEF ReadHandler
<1>2. UNCHANGED <<to, owed, printed>> /\ printed \in Nat /\ printed' \in Nat /\ printed <= printed'
      /\ line \in Seq(Bytes)
  BY <1>1 DEF guest, ConsoleInv, TypeInv
<1>3. PICK byte \in Bytes : byte = Head(line)
  BY <1>1, <1>2
<1>4. line' \in Seq(Bytes)
  BY <1>1, <1>2
<1>5. telnet' \in {"WaitIAC", "WaitAction"} \cup Actions
  BY <1>1 DEF Receive, ConsoleInv, TypeInv
<1>6. \/ UNCHANGED <<txq, sock, inflight>>
      \/ \E action \in Actions : Reply(action, byte)
  BY <1>1, <1>3 DEF Receive
<1>7. CASE UNCHANGED <<txq, sock, inflight>>
  <2>1. sock' # "open" => inflight' = <<>>
    BY <1>7 DEF ConsoleInv, QueueInv
  <2>2. QueueInv' /\ txq' \in Seq(Entries) /\ inflight' \in Seq(Entries)
    BY <1>1, <1>2, <1>7, <2>1, QueueSame
  <2>3. TypeInv'
    BY <1>1, <1>2, <1>4, <1>5, <2>2, TypesSame DEF ConsoleInv
  <2>4. NoLostCompletion'
    BY <1>2, <1>7, OwedSame
  <2> QED
    BY <2>2, <2>3, <2>4 DEF ConsoleInv
<1>8. CASE ~(UNCHANGED <<txq, sock, inflight>>)
  <2>1. PICK word \in {"DO", "DONT", "WILL", "WONT"} : SendStringInternal(Option(word, byte))
    BY <1>6, <1>8 DEF Reply
  <2>2. PICK e \in Entries : e = Option(word, byte) /\ ~e.notify
    <3>1. Option(word, byte) \in Entries /\ ~Option(word, byte).notify
      BY <1>3, <2>1 DEF Option, Entries
    <3> QED
      BY <3>1
  <2>3. SendStringInternal(e) /\ screen' = screen
    BY <1>1, <2>1, <2>2
  <2>4. /\ QueueInv' /\ txq' = txq \o <<e>>
        /\ txq' \in Seq(Entries) /\ inflight' \in Seq(Entries)
    BY <1>2, <2>2, <2>3, StringSent
  <2>5. TypeInv'
    BY <1>1, <1>2, <1>4, <1>5, <2>4, TypesSame DEF ConsoleInv
  <2>6. PICK more \in Seq(Entries) : more = <<e>>
    BY SingleParts
  <2>7. NoLostCompletion'
    BY <1>2, <2>4, <2>6, OwedGrows
  <2> QED
    BY <2>4, <2>5, <2>7 DEF ConsoleInv
<1> QED
  BY <1>7, <1>8

(* A new connection: the options are queued, and the head of the queue is  *)
(* written, twice when the queue was empty.                                *)
LEMMA AcceptStep == ASSUME ConsoleInv, AcceptHandler PROVE ConsoleInv'
<1>1. UNCHANGED <<guest, screen>>
  BY DEF AcceptHandler
<1>2. UNCHANGED <<to, owed, printed>> /\ printed \in Nat /\ printed' \in Nat /\ printed <= printed'
      /\ txq \in Seq(Entries)
  BY <1>1 DEF guest, ConsoleInv, TypeInv
<1>3. CASE accepts > 1
  <2>1. UNCHANGED <<sock, line, telnet, inflight, txq>>
    BY <1>3 DEF AcceptHandler, conn
  <2>2. sock' # "open" => inflight' = <<>>
    BY <2>1 DEF ConsoleInv, QueueInv
  <2>3. QueueInv'
    BY <1>1, <1>2, <2>1, <2>2, QueueSame
  <2>4. TypeInv'
    BY <1>1, <1>2, <2>1 DEF ConsoleInv, TypeInv
  <2>5. NoLostCompletion'
    BY <1>2, <2>1, OwedSame
  <2> QED
    BY <2>3, <2>4, <2>5 DEF ConsoleInv
<1>4. CASE ~(accepts > 1)
  <2>1. PICK k \in 0 .. 3 :
          /\ sock' = "open" /\ txq' = txq \o SubSeq(Offers, k + 1, 3)
          /\ inflight' = (IF txq' = <<>> THEN <<>>
                          ELSE IF txq = <<>> THEN <<Head(txq'), Head(txq')>> ELSE <<Head(txq')>>)
          /\ UNCHANGED <<line, telnet>>
    BY <1>4 DEF AcceptHandler
  <2>2. PICK more \in Seq(Entries) :
          more = SubSeq(Offers, k + 1, 3) /\ \A i \in 1 .. Len(more) : ~more[i].notify
    BY OffersLeft
  <2>3. PICK last \in Nat : last = printed
    BY <1>2
  <2>4. Fresh(more, last)
    BY <2>2 DEF Fresh, Ordered, Before
  <2>5. PICK t : t = txq \o more /\ t = txq'
    BY <2>1, <2>2
  <2>6. /\ t \in Seq(Entries) /\ Ordered(t)
        /\ \A i \in 1 .. Len(t) :
             t[i].notify => /\ t[i].id <= last
                            /\ \A n \in 1 .. Len(screen) : screen[n] < t[i].id
    <3>1. printed <= last
      BY <1>2, <2>3
    <3>2. /\ txq \o more \in Seq(Entries) /\ Ordered(txq \o more)
          /\ \A i \in 1 .. Len(txq \o more) :
               (txq \o more)[i].notify =>
                 /\ (txq \o more)[i].id <= last
                 /\ \A n \in 1 .. Len(screen) : screen[n] < (txq \o more)[i].id
      BY <2>4, <3>1, GrownOK
    <3> QED
      BY <2>5, <3>2
  <2>7. PICK f \in Seq(Entries) :
          /\ f = inflight' /\ Len(f) <= 2
          /\ \A i \in 1 .. Len(f) : f[i] = t[1] /\ 1 \in 1 .. Len(t)
          /\ Len(f) = 2 => ~t[1].notify
    <3>1. CASE t = <<>>
      <4>1. inflight' = <<>> /\ <<>> \in Seq(Entries) /\ Len(<<>>) = 0
            /\ \A i \in 1 .. Len(<<>>) : FALSE
        BY <2>1, <2>5, <3>1
      <4>2. Len(<<>>) <= 2 /\ Len(<<>>) # 2
        OBVIOUS
      <4> QED
        BY <4>1, <4>2
    <3>2. CASE t # <<>>
      <4>1. Head(t) = t[1] /\ t[1] \in Entries /\ 1 \in 1 .. Len(t)
        BY <2>6, <3>2, TailParts
      <4>2. PICK h \in Entries : h = t[1]
        BY <4>1
      <4>3. /\ <<h, h>> \in Seq(Entries) /\ Len(<<h, h>>) = 2 /\ 2 <= 2
            /\ \A i \in 1 .. 2 : <<h, h>>[i] = h
        OBVIOUS
      <4>4. /\ <<h>> \in Seq(Entries) /\ Len(<<h>>) = 1 /\ 1 <= 2 /\ 1 # 2
            /\ \A i \in 1 .. 1 : <<h>>[i] = h
        OBVIOUS
      <4>5. CASE txq = <<>>
        <5>1. t = more
          <6>1. \A s \in Seq(Entries) : <<>> \o s = s
            OBVIOUS
          <6> QED
            BY <2>5, <4>5, <6>1
        <5>2. ~t[1].notify
          BY <2>2, <4>1, <5>1
        <5>3. inflight' = <<h, h>>
          BY <2>1, <2>5, <3>2, <4>1, <4>2, <4>5
        <5> QED
          BY <4>1, <4>2, <4>3, <5>2, <5>3
      <4>6. CASE txq # <<>>
        <5>1. inflight' = <<h>>
          BY <2>1, <2>5, <3>2, <4>1, <4>2, <4>6
        <5> QED
          BY <4>1, <4>2, <4>4, <5>1
      <4> QED
        BY <4>5, <4>6
    <3> QED
      BY <3>1, <3>2
  <2>8. Len(f) \in {0, 1, 2}
    <3>1. Len(f) \in Nat /\ \A n \in Nat : n <= 2 => n \in {0, 1, 2}
      OBVIOUS
    <3> QED
      BY <2>7, <3>1
  <2>9. Ordered(f)
    <3>1. ASSUME NEW i \in 1 .. Len(f), NEW j \in 1 .. Len(f), i < j PROVE Before(f[i], f[j])
      <4>1. Len(f) = 2
        BY <2>8, <3>1
      <4> QED
        BY <2>7, <4>1 DEF Before
    <3> QED
      BY <3>1 DEF Ordered
  <2>10. ASSUME NEW i \in 1 .. Len(f) - 1, NEW j \in 1 .. Len(t) PROVE Before(f[i], t[j])
    <3>1. Len(f) = 2
      <4>1. \A n \in {0, 1, 2} : i \in 1 .. n - 1 => n = 2
        OBVIOUS
      <4> QED
        BY <2>8, <4>1
    <3>2. i \in 1 .. Len(f)
      BY <3>1
    <3> QED
      BY <2>7, <3>1, <3>2 DEF Before
  <2>11. f # <<>> => f[Len(f)] = t[1]
    <3>1. f # <<>> => Len(f) \in 1 .. Len(f)
      BY <2>7
    <3> QED
      BY <2>7, <3>1
  <2>12. QueueInv'
    <3>1. ToShow(txq)'
      BY <1>1, <1>2, <2>3, <2>5, <2>6 DEF ToShow
    <3>2. ToShow(inflight)'
      BY <1>1, <1>2, <2>3, <2>6, <2>7 DEF ToShow
    <3>3. Ordered(txq') /\ Ordered(inflight')
      BY <2>5, <2>6, <2>7, <2>9
    <3>4. /\ \A n \in 1 .. Len(screen') : screen'[n] <= printed'
          /\ \A m, n \in 1 .. Len(screen') : m < n => screen'[m] < screen'[n]
      BY <1>1, <1>2 DEF ConsoleInv, QueueInv
    <3> QED
      BY <2>1, <2>5, <2>7, <2>10, <2>11, <3>1, <3>2, <3>3, <3>4 DEF QueueInv
  <2>13. TypeInv'
    BY <1>1, <1>2, <2>1, <2>5, <2>6, <2>7 DEF ConsoleInv, TypeInv
  <2>14. NoLostCompletion'
    BY <1>2, <2>5, OwedGrows
  <2> QED
    BY <2>12, <2>13, <2>14 DEF ConsoleInv
<1> QED
  BY <1>3, <1>4

-----------------------------------------------------------------------------
(* The specification *)

LEMMA ConsoleInit == Init => ConsoleInv
<1> SUFFICES ASSUME Init PROVE ConsoleInv
  OBVIOUS
<1>1. /\ txq = <<>> /\ inflight = <<>> /\ line = <<>> /\ screen = <<>> /\ printed = 0 /\ ~owed
      /\ Len(<<>>) = 0 /\ (\A i \in 1 .. Len(<<>>) : FALSE) /\ (\A i \in 1 .. Len(<<>>) - 1 : FALSE)
  <2>1. /\ Len(<<>>) = 0 /\ (\A i \in 1 .. Len(<<>>) : FALSE)
        /\ (\A i \in 1 .. Len(<<>>) - 1 : FALSE)
    OBVIOUS
  <2>2. txq = <<>> /\ inflight = <<>> /\ line = <<>> /\ screen = <<>> /\ printed = 0 /\ owed = FALSE
    BY DEF Init
  <2> QED
    BY <2>1, <2>2
<1>2. TypeInv
  <2>1. telnet \in {"WaitIAC", "WaitAction"} \cup Actions /\ owed \in BOOLEAN
        /\ to \in [busy : BOOLEAN, done : BOOLEAN]
    BY DEF Init
  <2>2. /\ <<>> \in Seq(Entries) /\ <<>> \in Seq(Bytes) /\ <<>> \in Seq(Nat) /\ 0 \in Nat
    OBVIOUS
  <2> QED
    BY <1>1, <2>1, <2>2 DEF TypeInv
<1>3. QueueInv
  BY <1>1 DEF QueueInv, Ordered, ToShow
<1>4. NoLostCompletion
  BY <1>1 DEF NoLostCompletion
<1> QED
  BY <1>2, <1>3, <1>4 DEF ConsoleInv

LEMMA ConsoleStep == ConsoleInv /\ [Next]_vars => ConsoleInv'
<1> SUFFICES ASSUME ConsoleInv, [Next]_vars PROVE ConsoleInv'
  OBVIOUS
<1>1. CASE UNCHANGED vars
  <2>1. UNCHANGED <<sock, line, telnet, inflight, txq, to, owed, screen, printed>>
    BY <1>1 DEF vars, conn, guest
  <2>2. printed' \in Nat /\ printed <= printed'
    BY <2>1 DEF ConsoleInv, TypeInv
  <2>3. sock' # "open" => inflight' = <<>>
    BY <2>1 DEF ConsoleInv, QueueInv
  <2>4. QueueInv'
    BY <2>1, <2>2, <2>3, QueueSame
  <2>5. TypeInv'
    BY <2>1 DEF ConsoleInv, TypeInv
  <2>6. NoLostCompletion'
    BY <2>1, OwedSame
  <2> QED
    BY <2>4, <2>5, <2>6 DEF ConsoleInv
<1>2. CASE WriteHandler
  BY <1>2, EntryWritten, OwedWritten DEF ConsoleInv
<1>3. CASE Next /\ ~WriteHandler
  BY <1>3, AcceptStep, ReadStep, CloseStep, PutCharStep, IdleStep, TypeStep DEF Next
<1> QED
  BY <1>1, <1>2, <1>3

LEMMA ConsoleInvCorrect == Spec => []ConsoleInv
BY ConsoleInit, ConsoleStep, PTL DEF Spec

(* A character that TO accepted (function 14 of IopConsole_c) stays in the *)
(* queue until Done is set for it, whatever connections break.             *)
THEOREM CompletionsKept == Spec => []NoLostCompletion
<1>1. ConsoleInv => NoLostCompletion
  BY DEF ConsoleInv
<1> QED
  BY <1>1, ConsoleInvCorrect, PTL

(* Terminals show the characters once and in order, although an entry can  *)
(* be written twice (AcceptHandler of console.cpp) and the handlers of a   *)
(* closed connection still run.                                            *)
THEOREM OutputInOrder == Spec => []PrintedInOrder
<1>1. ConsoleInv => PrintedInOrder
  <2> SUFFICES ASSUME ConsoleInv, NEW i \in DOMAIN screen, NEW j \in DOMAIN screen, i < j
               PROVE screen[i] < screen[j]
    BY DEF PrintedInOrder
  <2>1. DOMAIN screen = 1 .. Len(screen)
    BY DEF ConsoleInv, TypeInv
  <2> QED
    BY <2>1 DEF ConsoleInv, QueueInv
<1> QED
  BY <1>1, ConsoleInvCorrect, PTL
=============================================================================

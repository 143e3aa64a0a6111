---------------------------- MODULE IopCpuProofs ----------------------------
(***************************************************************************)
(* Theorems about one I/O processor (IopCpu): the exit stack and its       *)
(* extension in memory are the call stack of the program, the interrupts   *)
(* an instruction asks for come in time, and a program that is interrupted *)
(* again has run in between; for every size of the exit stack, burst, call *)
(* depth and set of peripherals.                                           *)
(*                                                                         *)
(* The call stack with the routine that runs on top of it is a Chain:      *)
(* return addresses of the program in order, at most one address zero (a   *)
(* routine that is not loaded, for which a program fetch request waits),   *)
(* then addresses in the interrupt handler, which are there only after a   *)
(* stale "I = 1".  The inductive invariant says so (ChainInv) next to what *)
(* keeps the stack from being used past a raised boundary flag: the flag   *)
(* is up in the last two slots (SlotInv), and while it is up, either the   *)
(* interrupt comes before the next instruction or the handler runs         *)
(* (BoundaryInv).  The handler is not interrupted itself (HandlerInv).     *)
(*                                                                         *)
(* The first part has the lemmas about the operators, the second one lemma *)
(* per action, which shows that the action preserves Core, the third the   *)
(* theorems.                                                               *)
(***************************************************************************)
EXTENDS IopCpu, SequenceTheorems, TLAPS

(* The addresses of the interrupt handler.                                 *)
Service == {Vector, Handler, Leave}

(* The frames: those in memory, then those in slots 1 to e.                *)
FramesOf(s, e, st) == s \o [j \in 1 .. e |-> st[j]]

(* The frames f below address q form a call stack; w is the routine a      *)
(* program fetch request asks for, s the staleness of "I = 1".             *)
Chain(f, q, w, s) ==
  /\ \A j \in 1 .. Len(f) : f[j] = j - 1 \/ f[j] \in {Zero, Handler, Leave}
  /\ \A i, j \in 1 .. Len(f) : i < j /\ f[i] < 0 => f[j] \in Service
  /\ \A j \in 1 .. Len(f) : f[j] \in Service => s
  /\ \A j \in 1 .. Len(f) : f[j] < 0 => q \in Service
  /\ \A j \in 1 .. Len(f) : f[j] = Zero => w = j - 1
  /\ q >= 0 => q = Len(f)
  /\ q = Zero => w = Len(f)

-----------------------------------------------------------------------------
(* The stack pointer moves by one slot and wraps around (Push and Pop,     *)
(* modulo the size of the stack).                                          *)
LEMMA UpDown ==
  \A e \in 0 .. Depth - 1 :
        /\ Up(e) \in 0 .. Depth - 1 /\ Down(e) \in 0 .. Depth - 1
        /\ Up(e) = (IF e = Depth - 1 THEN 0 ELSE e + 1)
        /\ Down(e) = (IF e = 0 THEN Depth - 1 ELSE e - 1)
<1> Depth \in Nat /\ Depth >= 5
  BY IopAssumption
<1> SUFFICES ASSUME NEW e \in 0 .. Depth - 1
    PROVE /\ Up(e) \in 0 .. Depth - 1 /\ Down(e) \in 0 .. Depth - 1
        /\ Up(e) = (IF e = Depth - 1 THEN 0 ELSE e + 1)
        /\ Down(e) = (IF e = 0 THEN Depth - 1 ELSE e - 1)
  OBVIOUS
<1>1. \A a \in 0 .. Depth - 1 : a % Depth = a
  OBVIOUS
<1>2. Depth % Depth = 0 /\ (0 - 1) % Depth = Depth - 1
  OBVIOUS
<1>3. Up(e) = (IF e = Depth - 1 THEN 0 ELSE e + 1)
  BY <1>1, <1>2 DEF Up
<1>4. Down(e) = (IF e = 0 THEN Depth - 1 ELSE e - 1)
  BY <1>1, <1>2 DEF Down
<1> QED
  BY <1>3, <1>4

(* Addresses are integers.                                                 *)
LEMMA AddressInt == Address \subseteq Int /\ Service \subseteq Address /\ Zero \in Address
  BY IopAssumption DEF Address, Service, Zero, Vector, Handler, Leave

(* Length and elements of the frames.                                      *)
LEMMA FramesElements ==
  ASSUME NEW s \in Seq(Address), NEW e \in 0 .. Depth - 1,
         NEW st \in [0 .. Depth - 1 -> Address]
  PROVE /\ FramesOf(s, e, st) \in Seq(Address)
        /\ Len(FramesOf(s, e, st)) = Len(s) + e
        /\ \A j \in 1 .. Len(s) : FramesOf(s, e, st)[j] = s[j]
        /\ \A j \in 1 .. e : FramesOf(s, e, st)[Len(s) + j] = st[j]
<1> DEFINE t == [j \in 1 .. e |-> st[j]]
<1> e \in Nat /\ Depth \in Nat
  BY IopAssumption
<1>1. t \in Seq(Address) /\ Len(t) = e
  OBVIOUS
<1>2. \A j \in 1 .. e : t[j] = st[j]
  OBVIOUS
<1> HIDE DEF t
<1>3. s \o t \in Seq(Address) /\ Len(s \o t) = Len(s) + Len(t)
  BY <1>1, SMTT(30)
<1>4. \A i \in 1 .. Len(s) + Len(t) : (s \o t)[i] = IF i <= Len(s) THEN s[i] ELSE t[i - Len(s)]
  BY <1>1, ConcatProperties
<1>5. FramesOf(s, e, st) = s \o t
  BY DEF FramesOf, t
<1> QED
  BY <1>1, <1>2, <1>3, <1>4, <1>5

(* Writing the next slot appends a frame.                                  *)
LEMMA FramesPush ==
  ASSUME NEW s \in Seq(Address), NEW e \in 0 .. Depth - 2,
         NEW st \in [0 .. Depth - 1 -> Address], NEW a \in Address,
         NEW st2 \in [0 .. Depth - 1 -> Address],
         st2[e + 1] = a, \A j \in 1 .. e : st2[j] = st[j]
  PROVE FramesOf(s, e + 1, st2) = Append(FramesOf(s, e, st), a)
<1> DEFINE f == FramesOf(s, e, st)
           g == FramesOf(s, e + 1, st2)
<1> Depth \in Nat /\ Depth >= 5 /\ e \in Nat /\ e \in 0 .. Depth - 1 /\ e + 1 \in 0 .. Depth - 1
  BY IopAssumption
<1>1. st2[e + 1] = a /\ \A j \in 1 .. e : st2[j] = st[j]
  OBVIOUS
<1>2. /\ f \in Seq(Address) /\ Len(f) = Len(s) + e
      /\ \A j \in 1 .. Len(s) : f[j] = s[j]
      /\ \A j \in 1 .. e : f[Len(s) + j] = st[j]
  BY FramesElements
<1>3. /\ g \in Seq(Address) /\ Len(g) = Len(s) + (e + 1)
      /\ \A j \in 1 .. Len(s) : g[j] = s[j]
      /\ \A j \in 1 .. e + 1 : g[Len(s) + j] = st2[j]
  BY <1>1, FramesElements, ZenonT(60)
<1> Len(s) \in Nat
  OBVIOUS
<1> HIDE DEF f, g
<1>4. Len(f) \in Nat /\ Len(f) = Len(s) + e /\ Len(g) = Len(s) + (e + 1)
  BY <1>2, <1>3
<1>5. /\ Append(f, a) \in Seq(Address) /\ Len(Append(f, a)) = Len(f) + 1
      /\ \A j \in 1 .. Len(f) : Append(f, a)[j] = f[j]
      /\ Append(f, a)[Len(f) + 1] = a
  BY <1>2, AppendProperties
<1>7. ASSUME NEW j \in 1 .. Len(g) PROVE g[j] = Append(f, a)[j]
  <2>1. CASE j \in 1 .. Len(s)
    <3>1. g[j] = s[j] /\ f[j] = s[j]
      BY <2>1, <1>2, <1>3
    <3>2. j \in 1 .. Len(f)
      BY <2>1, <1>4
    <3> QED
      BY <3>1, <3>2, <1>5
  <2>2. CASE j = Len(f) + 1
    <3>1. g[j] = st2[e + 1]
      BY <2>2, <1>3, <1>4
    <3> QED
      BY <3>1, <2>2, <1>1, <1>5
  <2>3. CASE j \in Len(s) + 1 .. Len(s) + e
    <3>1. j - Len(s) \in 1 .. e /\ j = Len(s) + (j - Len(s))
      BY <2>3
    <3>2. g[j] = st[j - Len(s)] /\ f[j] = st[j - Len(s)]
      BY <3>1, <1>1, <1>2, <1>3
    <3>3. Append(f, a)[j] = f[j]
      BY <2>3, <1>4, <1>5
    <3> QED
      BY <3>2, <3>3
  <2>4. Len(g) = Len(f) + 1 /\ Len(s) + e = Len(f)
    BY <1>4
  <2> QED
    BY <2>1, <2>2, <2>3, <2>4
<1>6. g = Append(f, a)
  <2>1. Len(g) = Len(Append(f, a))
    BY <1>4, <1>5
  <2> QED
    BY <2>1, <1>3, <1>5, <1>7, SeqEqual
<1> QED
  BY <1>6 DEF f, g

(* A call, a call to a routine that is not loaded and an interrupt keep    *)
(* the chain: the address that runs goes on the frames.                    *)
LEMMA ChainPush ==
  ASSUME NEW f \in Seq(Address), NEW q \in Address, NEW w, NEW s, NEW t,
         Chain(f, q, w, s), q # Vector, q \in Service => t, s => t
  PROVE /\ Chain(Append(f, q), Vector, w, t)
        /\ q >= 0 => \A r \in BOOLEAN : Chain(Append(f, q), q + 1, w, r)
        /\ q >= 0 => \A r \in BOOLEAN : Chain(Append(f, q), Zero, q + 1, r)
<1> DEFINE g == Append(f, q)
<1>0. q \in Int /\ Len(f) \in Nat
  BY AddressInt
<1>1. /\ Len(g) = Len(f) + 1
      /\ \A j \in 1 .. Len(f) : g[j] = f[j]
      /\ g[Len(f) + 1] = q
  BY AppendProperties
<1> HIDE DEF g
<1>2. \A j \in 1 .. Len(g) : j \in 1 .. Len(f) \/ j = Len(f) + 1
  BY <1>0, <1>1
<1>3. q = Zero \/ q \in Service \/ q >= 0
  BY <1>0 DEF Address, Zero, Service, Vector, Handler, Leave
<1>4. \A j \in 1 .. Len(g) : g[j] = j - 1 \/ g[j] \in {Zero, Handler, Leave}
  BY <1>0, <1>1, <1>2, <1>3 DEF Chain, Service
<1>5. \A i, j \in 1 .. Len(g) : i < j /\ g[i] < 0 => g[j] \in Service
  BY <1>0, <1>1, <1>2 DEF Chain
<1>6. \A j \in 1 .. Len(g) : g[j] \in Service => t
  BY <1>1, <1>2 DEF Chain
<1>7. \A j \in 1 .. Len(g) : g[j] = Zero => w = j - 1
  BY <1>0, <1>1, <1>2 DEF Chain
<1>8. Chain(g, Vector, w, t)
  BY <1>4, <1>5, <1>6, <1>7 DEF Chain, Service, Vector, Zero
<1>9. ASSUME q >= 0 PROVE \A j \in 1 .. Len(g) : ~(g[j] < 0)
  <2>1. q \notin Service
    BY <1>9 DEF Service, Vector, Handler, Leave
  <2> QED
    BY <2>1, <1>0, <1>1, <1>2, <1>9 DEF Chain
<1>10. ASSUME q >= 0, NEW r \in BOOLEAN
       PROVE Chain(g, q + 1, w, r) /\ Chain(g, Zero, q + 1, r)
  <2>1. \A j \in 1 .. Len(g) : g[j] \notin Service /\ g[j] # Zero /\ ~(g[j] < 0)
    BY <1>9, <1>10 DEF Service, Vector, Handler, Leave, Zero
  <2>2. q = Len(f) /\ q + 1 # Zero
    BY <1>0, <1>10 DEF Chain, Zero
  <2> QED
    BY <2>1, <2>2, <1>0, <1>1, <1>4 DEF Chain, Zero
<1> QED
  BY <1>8, <1>10 DEF g

(* EXIT keeps the chain: the newest frame becomes the address that runs.   *)
LEMMA ChainPop ==
  ASSUME NEW f \in Seq(Address), NEW a \in Address, NEW q, NEW w, NEW s,
         Chain(Append(f, a), q, w, s)
  PROVE Chain(f, a, w, s)
<1> DEFINE g == Append(f, a)
<1>0. a \in Int /\ Len(f) \in Nat
  BY AddressInt
<1>1. /\ Len(g) = Len(f) + 1
      /\ \A j \in 1 .. Len(f) : g[j] = f[j]
      /\ g[Len(f) + 1] = a
  BY AppendProperties
<1>2. Chain(g, q, w, s)
  OBVIOUS
<1> HIDE DEF g
<1>3. \A j \in 1 .. Len(f) : j \in 1 .. Len(g) /\ j < Len(f) + 1
  BY <1>0, <1>1
<1>4. Len(f) + 1 \in 1 .. Len(g)
  BY <1>0, <1>1
<1>5. /\ \A j \in 1 .. Len(f) : f[j] = j - 1 \/ f[j] \in {Zero, Handler, Leave}
      /\ \A j \in 1 .. Len(f) : f[j] \in Service => s
      /\ \A j \in 1 .. Len(f) : f[j] = Zero => w = j - 1
  BY <1>1, <1>2, <1>3 DEF Chain
<1>6. \A i, j \in 1 .. Len(f) : i < j /\ f[i] < 0 => f[j] \in Service
  BY <1>1, <1>2, <1>3 DEF Chain
<1>7. \A j \in 1 .. Len(f) : f[j] < 0 => a \in Service
  BY <1>1, <1>2, <1>3, <1>4 DEF Chain
<1>8. a >= 0 => a = Len(f)
  BY <1>0, <1>1, <1>2, <1>4 DEF Chain, Zero, Handler, Leave
<1>9. a = Zero => w = Len(f)
  BY <1>0, <1>1, <1>2, <1>4 DEF Chain
<1> QED
  BY <1>5, <1>6, <1>7, <1>8, <1>9 DEF Chain

(* Serving a program fetch request keeps the chain: address zero on top of *)
(* the frames is replaced by the routine asked for.                        *)
LEMMA ChainFetch ==
  ASSUME NEW f \in Seq(Address), NEW w \in Address, NEW q \in Service, NEW v, NEW s,
         Chain(Append(f, Zero), q, w, s), w \notin Service
  PROVE Chain(Append(f, w), Handler, v, s)
<1> DEFINE g == Append(f, Zero)
           h == Append(f, w)
<1>0. w \in Int /\ Len(f) \in Nat /\ Zero \in Address
  BY AddressInt
<1>1. /\ Len(g) = Len(f) + 1 /\ Len(h) = Len(f) + 1
      /\ \A j \in 1 .. Len(f) : g[j] = f[j] /\ h[j] = f[j]
      /\ g[Len(f) + 1] = Zero /\ h[Len(f) + 1] = w
  BY <1>0, AppendProperties
<1>2. Chain(g, q, w, s)
  OBVIOUS
<1> HIDE DEF g, h
<1>3. \A j \in 1 .. Len(f) : j \in 1 .. Len(g) /\ j < Len(f) + 1
  BY <1>0, <1>1
<1>4. Len(f) + 1 \in 1 .. Len(g) /\ Zero \notin Service
  BY <1>0, <1>1 DEF Zero, Service, Vector, Handler, Leave
<1>5. w = Len(f)
  BY <1>0, <1>1, <1>2, <1>4 DEF Chain
<1>6. \A j \in 1 .. Len(f) : ~(f[j] < 0)
  BY <1>1, <1>2, <1>3, <1>4 DEF Chain
<1>7. \A j \in 1 .. Len(f) : f[j] = j - 1
  BY <1>1, <1>2, <1>3, <1>6 DEF Chain, Zero, Handler, Leave
<1>8. \A j \in 1 .. Len(h) : h[j] = j - 1
  BY <1>0, <1>1, <1>5, <1>7
<1>9. \A j \in 1 .. Len(h) : ~(h[j] < 0) /\ h[j] # Zero /\ h[j] \notin Service
  BY <1>0, <1>1, <1>8 DEF Zero, Service, Vector, Handler, Leave
<1>10. Chain(h, Handler, v, s)
  BY <1>8, <1>9 DEF Chain, Zero, Handler
<1> QED
  BY <1>10 DEF h

(* A full stack is served: moving its oldest return addresses to memory    *)
(* and its newest ones down leaves the frames as they are.                 *)
LEMMA FramesServe ==
  ASSUME NEW s \in Seq(Address), NEW e \in 0 .. Depth - 1,
         NEW st \in [0 .. Depth - 1 -> Address],
         NEW out \in 0 .. e, NEW n \in 0 .. e, n + out = e,
         NEW st2 \in [0 .. Depth - 1 -> Address],
         \A j \in 1 .. n : st2[j] = st[j + out]
  PROVE FramesOf(s \o SubSeq([j \in 1 .. e |-> st[j]], 1, out), n, st2) = FramesOf(s, e, st)
<1> DEFINE t == [j \in 1 .. e |-> st[j]]
           m == SubSeq(t, 1, out)
           f == FramesOf(s, e, st)
           g == FramesOf(s \o m, n, st2)
<1>0. Depth \in Nat /\ e \in Nat /\ out \in Nat /\ n \in Nat /\ out <= e /\ e < Depth /\ Len(s) \in Nat
  BY IopAssumption
<1>1. t \in Seq(Address) /\ Len(t) = e /\ \A j \in 1 .. e : t[j] = st[j]
  BY <1>0
<1> HIDE DEF t
<1>2. /\ m \in Seq(Address) /\ Len(m) = out /\ \A j \in 1 .. out : m[j] = st[j]
  <2>1. m \in Seq(Address)
    BY <1>0, <1>1
  <2>2. Len(m) = out /\ \A j \in 1 .. out : m[j] = t[1 + j - 1]
    BY <1>0, <1>1
  <2>3. \A j \in 1 .. out : 1 + j - 1 = j /\ j \in 1 .. e
    BY <1>0
  <2> QED
    BY <2>1, <2>2, <2>3, <1>1
<1> HIDE DEF m
<1>3. /\ s \o m \in Seq(Address) /\ Len(s \o m) = Len(s) + out
      /\ \A i \in 1 .. Len(s) + out : (s \o m)[i] = IF i <= Len(s) THEN s[i] ELSE m[i - Len(s)]
  BY <1>2, ConcatProperties
<1>5. /\ f \in Seq(Address) /\ Len(f) = Len(s) + e
      /\ \A j \in 1 .. Len(s) : f[j] = s[j]
      /\ \A j \in 1 .. e : f[Len(s) + j] = st[j]
  BY FramesElements
<1>6. /\ g \in Seq(Address) /\ Len(g) = (Len(s) + out) + n
      /\ \A j \in 1 .. Len(s) + out : g[j] = (s \o m)[j]
      /\ \A j \in 1 .. n : g[(Len(s) + out) + j] = st2[j]
  <2> DEFINE sm == s \o m
  <2>1. n \in 0 .. Depth - 1
    BY <1>0
  <2>2. sm \in Seq(Address) /\ Len(sm) = Len(s) + out
    BY <1>3
  <2> HIDE DEF sm
  <2>3. /\ FramesOf(sm, n, st2) \in Seq(Address) /\ Len(FramesOf(sm, n, st2)) = Len(sm) + n
        /\ \A j \in 1 .. Len(sm) : FramesOf(sm, n, st2)[j] = sm[j]
        /\ \A j \in 1 .. n : FramesOf(sm, n, st2)[Len(sm) + j] = st2[j]
    BY <2>1, <2>2, FramesElements, ZenonT(60)
  <2> QED
    BY <2>2, <2>3 DEF sm
<1> HIDE DEF f, g
<1>7. Len(f) = Len(g)
  <2>1. Len(f) = Len(s) + e /\ Len(g) = (Len(s) + out) + n
    BY <1>5, <1>6
  <2> QED
    BY <2>1, <1>0, SMTT(30)
<1>8. ASSUME NEW j \in 1 .. Len(f) PROVE f[j] = g[j]
  <2>1. CASE j \in 1 .. Len(s)
    <3>1. j \in 1 .. Len(s) + out /\ j <= Len(s)
      BY <2>1, <1>0
    <3>2. g[j] = s[j]
      BY <3>1, <1>3, <1>6
    <3> QED
      BY <3>2, <2>1, <1>5
  <2>2. CASE j \in Len(s) + 1 .. Len(s) + out
    <3> DEFINE k == j - Len(s)
    <3>1. k \in 1 .. out /\ k \in 1 .. e /\ j = Len(s) + k /\ j \in 1 .. Len(s) + out /\ ~(j <= Len(s))
      BY <2>2, <1>0
    <3>2. g[j] = m[k]
      BY <3>1, <1>3, <1>6
    <3>3. m[k] = st[k]
      BY <3>1, <1>2
    <3>4. f[j] = st[k]
      BY <3>1, <1>5
    <3> QED
      BY <3>2, <3>3, <3>4
  <2>3. CASE j \in Len(s) + out + 1 .. Len(s) + e
    <3> DEFINE k == j - Len(s)
               l == j - (Len(s) + out)
    <3>1. /\ k \in 1 .. e /\ j = Len(s) + k
          /\ l \in 1 .. n /\ j = (Len(s) + out) + l /\ l + out = k
      BY <2>3, <1>0
    <3> HIDE DEF k, l
    <3>2. g[j] = st2[l]
      BY <3>1, <1>6
    <3>3. st2[l] = st[k]
      BY <3>1
    <3>4. f[j] = st[k]
      BY <3>1, <1>5
    <3> QED
      BY <3>2, <3>3, <3>4
  <2>4. j \in Int /\ 1 <= j /\ j <= Len(s) + e
    BY <1>5
  <2> QED
    BY <2>1, <2>2, <2>3, <2>4, <1>0
<1> QED
  BY <1>5, <1>6, <1>7, <1>8, SeqEqual DEF f, g, m, t

(* An empty stack is served: bringing return addresses back from memory    *)
(* leaves the frames as they are.                                          *)
LEMMA FramesReturn ==
  ASSUME NEW s \in Seq(Address), NEW st \in [0 .. Depth - 1 -> Address],
         NEW in \in 0 .. Depth - 1, in <= Len(s),
         \A j \in 1 .. in : st[j] = s[Len(s) - in + j]
  PROVE FramesOf(SubSeq(s, 1, Len(s) - in), in, st) = s
<1> DEFINE m == SubSeq(s, 1, Len(s) - in)
           g == FramesOf(m, in, st)
<1>0. Depth \in Nat /\ in \in Nat /\ in < Depth /\ Len(s) \in Nat
  BY IopAssumption
<1>1. /\ m \in Seq(Address) /\ Len(m) = Len(s) - in
      /\ \A j \in 1 .. Len(s) - in : m[j] = s[j]
  <2>1. m \in Seq(Address)
    BY <1>0
  <2>2. Len(m) = Len(s) - in /\ \A j \in 1 .. Len(s) - in : m[j] = s[1 + j - 1]
    BY <1>0
  <2>3. \A j \in 1 .. Len(s) - in : 1 + j - 1 = j
    BY <1>0
  <2> QED
    BY <2>1, <2>2, <2>3
<1> HIDE DEF m
<1>2. /\ g \in Seq(Address) /\ Len(g) = Len(m) + in
      /\ \A j \in 1 .. Len(m) : g[j] = m[j]
      /\ \A j \in 1 .. in : g[Len(m) + j] = st[j]
  BY <1>1, FramesElements
<1> HIDE DEF g
<1>3. Len(g) = Len(s)
  BY <1>0, <1>1, <1>2
<1>4. ASSUME NEW j \in 1 .. Len(s) PROVE s[j] = g[j]
  <2>1. CASE j \in 1 .. Len(s) - in
    BY <2>1, <1>1, <1>2
  <2>2. CASE j \in Len(s) - in + 1 .. Len(s)
    <3> DEFINE k == j - (Len(s) - in)
    <3>1. k \in 1 .. in /\ j = (Len(s) - in) + k
      BY <2>2, <1>0
    <3> HIDE DEF k
    <3>2. g[j] = st[k]
      BY <3>1, <1>1, <1>2
    <3>3. st[k] = s[j]
      BY <3>1
    <3> QED
      BY <3>2, <3>3
  <2> QED
    BY <2>1, <2>2, <1>0
<1> QED
  BY <1>2, <1>3, <1>4, SeqEqual DEF g, m
(* With an empty stack the frames are those in memory.                     *)
LEMMA FramesNone ==
  ASSUME NEW s \in Seq(Address), NEW st \in [0 .. Depth - 1 -> Address]
  PROVE FramesOf(s, 0, st) = s
<1>1. 0 \in 0 .. Depth - 1 /\ Len(s) \in Nat
  BY IopAssumption
<1>2. /\ FramesOf(s, 0, st) \in Seq(Address) /\ Len(FramesOf(s, 0, st)) = Len(s) + 0
      /\ \A j \in 1 .. Len(s) : FramesOf(s, 0, st)[j] = s[j]
  BY <1>1, FramesElements
<1> QED
  BY <1>1, <1>2, SeqEqual

(* The newest frame is the one in the top slot.                            *)
LEMMA FramesPop ==
  ASSUME NEW s \in Seq(Address), NEW e \in 0 .. Depth - 2,
         NEW st \in [0 .. Depth - 1 -> Address]
  PROVE FramesOf(s, e + 1, st) = Append(FramesOf(s, e, st), st[e + 1])
<1>1. st[e + 1] \in Address
  BY IopAssumption
<1> QED
  BY <1>1, FramesPush, ZenonT(60)

(* The handler may move inside itself; a chain of the program does not     *)
(* depend on staleness.                                                    *)
LEMMA ChainMove ==
  ASSUME NEW f, NEW q, NEW w, NEW s, NEW q2, NEW t,
         Chain(f, q, w, s), q2 \in Service \/ q2 = q, q \in Service /\ s => t
  PROVE Chain(f, q2, w, t)
<1>1. \A j \in 1 .. Len(f) : f[j] \in Service => f[j] < 0
  BY DEF Service, Vector, Handler, Leave
<1>2. q2 \in Service => ~(q2 >= 0) /\ q2 # Zero
  BY DEF Service, Vector, Handler, Leave, Zero
<1>3. \A j \in 1 .. Len(f) : f[j] \in Service => t
  BY <1>1 DEF Chain
<1> QED
  BY <1>2, <1>3 DEF Chain
-----------------------------------------------------------------------------
(* ServeBoundary moves frames between the slots and memory and changes     *)
(* none; it leaves room in the stack and slot 0 alone.                     *)
LEMMA BoundaryServed ==
  ASSUME saved \in Seq(Address), E \in 0 .. Depth - 1,
         stack \in [0 .. Depth - 1 -> Address], ServeBoundary
  PROVE /\ E' \in 0 .. Depth - 3 /\ stack'[0] = stack[0]
        /\ stack' \in [0 .. Depth - 1 -> Address] /\ saved' \in Seq(Address)
        /\ FramesOf(saved', E', stack') = FramesOf(saved, E, stack)
<1>0. Depth \in Nat /\ Depth >= 5 /\ Keep \in 1 .. Depth - 4 /\ Len(saved) \in Nat /\ Slots(E) \in Seq(Address)
      /\ Len(Slots(E)) = E
  BY IopAssumption DEF Slots
<1>1. CASE E > Keep
  <2> DEFINE out == E - 1 - Keep
  <2>1. /\ saved' = saved \o SubSeq(Slots(E), 1, out)
        /\ stack' = [j \in 0 .. Depth - 1 |->
                       IF j \in 1 .. Keep + 1 THEN stack[j + out] ELSE stack[j]]
        /\ E' = Keep + 1
    <3>1. E # 0
      BY <1>0, <1>1
    <3> QED
      BY <3>1, Zenon DEF ServeBoundary
  <2>2. out \in 0 .. E /\ Keep + 1 \in 0 .. E /\ (Keep + 1) + out = E
    BY <1>0, <1>1
  <2>3. /\ E' \in 0 .. Depth - 3
        /\ \A j \in 1 .. Keep + 1 : j + out \in 0 .. Depth - 1
    BY <1>0, <1>1, <2>1
  <2> HIDE DEF out
  <2>4. stack' \in [0 .. Depth - 1 -> Address] /\ stack'[0] = stack[0]
    BY <1>0, <2>1, <2>3
  <2>5. SubSeq(Slots(E), 1, out) \in Seq(Address)
    BY <1>0, <2>2
  <2>6. saved' \in Seq(Address)
    BY <2>1, <2>5, ConcatProperties
  <2>7. FramesOf(saved', Keep + 1, stack') = FramesOf(saved, E, stack)
    <3> DEFINE n == Keep + 1
    <3>1. n \in 0 .. E /\ n + out = E
      BY <2>2
    <3>2. \A j \in 1 .. n : stack'[j] = stack[j + out]
      BY <1>0, <2>1
    <3> HIDE DEF n
    <3>3. FramesOf(saved \o SubSeq([j \in 1 .. E |-> stack[j]], 1, out), n, stack') = FramesOf(saved, E, stack)
      BY <2>2, <2>4, <3>1, <3>2, FramesServe, ZenonT(60)
    <3> QED
      BY <2>1, <3>3 DEF Slots, n
  <2> QED
    BY <2>1, <2>2, <2>3, <2>4, <2>6, <2>7
<1>2. CASE ~(E > Keep)
  <2> DEFINE in == IF Len(saved) < Keep THEN Len(saved) ELSE Keep
  <2>1. /\ E = 0
        /\ saved' = SubSeq(saved, 1, Len(saved) - in)
        /\ stack' = [j \in 0 .. Depth - 1 |->
                       IF j \in 1 .. in THEN saved[Len(saved) - in + j] ELSE stack[j]]
        /\ E' = in
    BY <1>2 DEF ServeBoundary
  <2>2. in \in 0 .. Depth - 3 /\ in <= Len(saved)
    BY <1>0
  <2> HIDE DEF in
  <2>3. stack' \in [0 .. Depth - 1 -> Address] /\ stack'[0] = stack[0]
    <3>1. \A j \in 1 .. in : saved[Len(saved) - in + j] \in Address
      BY <1>0, <2>2
    <3> QED
      BY <1>0, <2>1, <2>2, <3>1
  <2>4. saved' \in Seq(Address)
    BY <1>0, <2>1, <2>2
  <2>5. FramesOf(saved', in, stack') = saved
    <3>1. in \in 0 .. Depth - 1
      BY <1>0, <2>2
    <3>2. \A j \in 1 .. in : stack'[j] = saved[Len(saved) - in + j]
      BY <1>0, <2>1, <2>2
    <3>3. FramesOf(SubSeq(saved, 1, Len(saved) - in), in, stack') = saved
      BY <2>2, <2>3, <3>1, <3>2, FramesReturn
    <3> QED
      BY <2>1, <3>3
  <2>6. FramesOf(saved, E, stack) = saved
    BY <2>1, FramesNone
  <2> QED
    BY <2>1, <2>2, <2>3, <2>4, <2>5, <2>6
<1> QED
  BY <1>1, <1>2

-----------------------------------------------------------------------------
(* Type correctness in two parts: the flags and the other variables.       *)
FlagsOK ==
  /\ inReset \in BOOLEAN /\ I \in BOOLEAN /\ iWait \in BOOLEAN
  /\ booted \in BOOLEAN /\ ran \in BOOLEAN /\ stale \in BOOLEAN /\ late \in BOOLEAN

ValuesOK ==
  /\ burst \in 0 .. Burst
  /\ p \in Address
  /\ E \in 0 .. Depth - 1 /\ stack \in [0 .. Depth - 1 -> Address]
  /\ done \subseteq Channels /\ enabled \subseteq Channels
  /\ saved \in Seq(Address)
  /\ want \in Address /\ via \in {"jump", "call", "exit", "interrupt"}
  /\ unserved \subseteq Channels

(* The two parts are the type invariant.                                   *)
LEMMA TypeParts == TypeOK <=> FlagsOK /\ ValuesOK
  BY DEF TypeOK, FlagsOK, ValuesOK

(* Every step keeps the types of the flags.                                *)
LEMMA StepFlags == FlagsOK /\ [Next]_vars => FlagsOK'
<1> SUFFICES ASSUME FlagsOK, [Next]_vars PROVE FlagsOK'
  OBVIOUS
<1> USE DEF FlagsOK, guestVars, history
<1>1. CASE UNCHANGED vars
  BY <1>1 DEF vars, cpuVars
<1>2. CASE Interrupt
  BY <1>2 DEF Interrupt, Watch, Push
<1>3. CASE StartBurst
  BY <1>3 DEF StartBurst
<1>4. CASE DeadStart
  BY <1>4 DEF DeadStart
<1>5. ASSUME NEW ch \in Devices, DeviceDone(ch) PROVE FlagsOK'
  BY <1>5 DEF DeviceDone
<1>6. CASE Instruction
  <2>1. CASE Plain
    BY <2>1 DEF Plain, Stays, Settles, Ran, Missed
  <2>2. CASE Branch
    BY <2>2 DEF Branch, Stays, Delays, Ran, Missed
  <2>3. CASE ClearI
    BY <2>3 DEF ClearI, Stays, Ran, Missed
  <2>4. CASE SetI
    BY <2>4 DEF SetI, Ran, Missed
  <2>5. CASE TestChannel
    BY <2>5 DEF TestChannel, Stays, Delays, Ran, Missed
  <2>6. CASE NoChannel
    BY <2>6 DEF NoChannel, Stays, Settles, Ran, Missed
  <2>7. ASSUME NEW ch \in Devices, ClearDone(ch) PROVE FlagsOK'
    BY <2>7 DEF ClearDone, Stays, Delays, Ran, Missed
  <2>8. ASSUME NEW ch \in Devices, NEW on \in BOOLEAN, SetEnable(ch, on) PROVE FlagsOK'
    BY <2>8 DEF SetEnable, Stays, Delays, Ran, Missed
  <2>9. CASE JumpZero
    BY <2>9 DEF JumpZero, Delays, Ran
  <2>10. ASSUME NEW loaded \in BOOLEAN, Call(loaded) PROVE FlagsOK'
    BY <2>10 DEF Call, Delays, Ran, Watch
  <2>11. CASE Exit
    BY <2>11 DEF Exit, ExitDelays, Delays, Ran, Watch
  <2> QED
    BY <1>6, <2>1, <2>2, <2>3, <2>4, <2>5, <2>6, <2>7, <2>8, <2>9, <2>10, <2>11 DEF Instruction
<1>7. CASE Guest
  <2>1. CASE Boot
    BY <2>1 DEF Boot, Delays, Ran
  <2>2. CASE ServeBoundary
    BY <2>2 DEF ServeBoundary, Delays, Ran
  <2>3. CASE ServeFetch
    BY <2>3 DEF ServeFetch, Delays, Ran
  <2> QED
    BY <1>7, <2>1, <2>2, <2>3 DEF Guest
<1> QED
  BY <1>1, <1>2, <1>3, <1>4, <1>5, <1>6, <1>7 DEF Next

(* Every step keeps the types of the other variables: the stack pointer    *)
(* stays in the stack, calls stay within their depth.                      *)
LEMMA StepValues == ValuesOK /\ [Next]_vars => ValuesOK'
<1> SUFFICES ASSUME ValuesOK, [Next]_vars PROVE ValuesOK'
  OBVIOUS
<1> Depth \in Nat /\ Depth >= 5 /\ Keep \in 1 .. Depth - 4 /\ Burst \in Nat \ {0} /\ MaxDepth \in Nat
  BY IopAssumption
<1> USE DEF ValuesOK, guestVars, history
<1>a. /\ Zero \in Address /\ Vector \in Address /\ Handler \in Address /\ Leave \in Address
      /\ \A a \in Address : a \in Int /\ a <= MaxDepth
      /\ \A a \in Int : -4 <= a /\ a <= MaxDepth => a \in Address
  BY DEF Address, Zero, Vector, Handler, Leave
<1>b. PFR \in Channels /\ PXS \in Channels /\ MOS \in Channels /\ Devices \subseteq Channels
  BY DEF Channels
<1>c. Up(E) \in 0 .. Depth - 1 /\ Down(E) \in 0 .. Depth - 1
  BY UpDown
<1>1. CASE UNCHANGED vars
  BY <1>1 DEF vars, cpuVars
<1>2. CASE Interrupt
  <2>1. E' \in 0 .. Depth - 1 /\ stack' \in [0 .. Depth - 1 -> Address] /\ done' \subseteq Channels
    BY <1>2, <1>b, <1>c DEF Interrupt, Push
  <2>2. p' \in Address /\ burst' \in 0 .. Burst
    <3>1. 0 \in 0 .. Depth - 1
      OBVIOUS
    <3> QED
      BY <1>2, <3>1 DEF Interrupt
  <2>3. /\ enabled' = enabled /\ saved' = saved /\ want' = want /\ via' = "interrupt"
        /\ unserved' \subseteq unserved \cup done'
    BY <1>2 DEF Interrupt, Watch
  <2> QED
    BY <2>1, <2>2, <2>3
<1>3. CASE StartBurst
  BY <1>3 DEF StartBurst
<1>4. CASE DeadStart
  BY <1>4, <1>a, <1>b DEF DeadStart, Empty
<1>5. ASSUME NEW ch \in Devices, DeviceDone(ch) PROVE ValuesOK'
  BY <1>5, <1>b DEF DeviceDone
<1>6. ASSUME Stays, burst' \in {0, burst - 1}, done' \subseteq Channels, enabled' \subseteq Channels
      PROVE ValuesOK'
  BY <1>6, <1>a DEF Stays, Fetch, Enter
<1>7. CASE Instruction
  <2>1. CASE Plain
    BY <2>1, <1>6 DEF Plain, Continues
  <2>2. CASE Branch
    BY <2>2, <1>6 DEF Branch, Continues
  <2>3. CASE ClearI
    BY <2>3, <1>6 DEF ClearI, Continues
  <2>4. CASE SetI
    BY <2>4, <1>a DEF SetI, Breaks
  <2>5. CASE TestChannel
    BY <2>5, <1>6 DEF TestChannel, Breaks
  <2>6. CASE NoChannel
    BY <2>6, <1>6 DEF NoChannel, Breaks
  <2>7. ASSUME NEW ch \in Devices, ClearDone(ch) PROVE ValuesOK'
    <3>1. done' \subseteq Channels /\ enabled' \subseteq Channels
      BY <2>7 DEF ClearDone
    <3> QED
      BY <2>7, <3>1, <1>6 DEF ClearDone, Breaks
  <2>8. ASSUME NEW ch \in Devices, NEW on \in BOOLEAN, SetEnable(ch, on) PROVE ValuesOK'
    <3>1. done' \subseteq Channels /\ enabled' \subseteq Channels
      BY <2>8, <1>b DEF SetEnable
    <3> QED
      BY <2>8, <3>1, <1>6 DEF SetEnable, Breaks
  <2>9. CASE JumpZero
    BY <2>9, <1>a, <1>b DEF JumpZero, Continues, Fetch
  <2>10. ASSUME NEW loaded \in BOOLEAN, Call(loaded) PROVE ValuesOK'
    <3>1. p \in Int /\ p + 1 \in Address
      BY <2>10, <1>a DEF Call, Program
    <3>2. E' \in 0 .. Depth - 1 /\ stack' \in [0 .. Depth - 1 -> Address] /\ done' \subseteq Channels
      BY <2>10, <1>b, <1>c DEF Call, Push
    <3>3. p' \in Address /\ want' \in Address
      BY <2>10, <3>1, <1>a DEF Call
    <3> QED
      BY <2>10, <3>2, <3>3 DEF Call, Breaks, Watch
  <2>11. CASE Exit
    BY <2>11, <1>b, <1>c DEF Exit, Breaks, Pop, Watch
  <2> QED
    BY <1>7, <2>1, <2>2, <2>3, <2>4, <2>5, <2>6, <2>7, <2>8, <2>9, <2>10, <2>11 DEF Instruction
<1>8. CASE Guest
  <2>1. CASE Boot
    <3>1. 0 \in Address
      BY <1>a
    <3> QED
      BY <2>1, <3>1, <1>a, <1>b DEF Boot, Breaks
  <2>2. CASE ServeBoundary
    <3>1. /\ burst' = 0 /\ p' = Handler /\ done' \subseteq done /\ unserved' \subseteq unserved
          /\ enabled' = enabled /\ want' = want /\ via' = via
      BY <2>2 DEF ServeBoundary, Breaks
    <3>2. E' \in 0 .. Depth - 1 /\ stack' \in [0 .. Depth - 1 -> Address] /\ saved' \in Seq(Address)
      BY <2>2, BoundaryServed
    <3>3. 0 \in 0 .. Burst /\ Handler \in Address
      BY <1>a
    <3> QED
      BY <3>1, <3>2, <3>3
  <2>3. CASE ServeFetch
    BY <2>3, <1>a DEF ServeFetch, Breaks
  <2> QED
    BY <1>8, <2>1, <2>2, <2>3 DEF Guest
<1> QED
  BY <1>1, <1>2, <1>3, <1>4, <1>5, <1>7, <1>8 DEF Next
-----------------------------------------------------------------------------
(* The operating system runs and the stack was not used too late.          *)
Live == booted /\ ~late

(* The boundary and the program fetch interrupt are enabled by the boot    *)
(* image and stay so: programs do I/O on peripherals only.                 *)
EnablesInv ==
  /\ PXS \in enabled <=> booted
  /\ PFR \in enabled <=> booted

(* Before the boot image has set up the handler only address zero runs, on *)
(* an empty stack; a fetch never asks for an address in the handler.       *)
BootInv ==
  /\ ~booted => p = Zero /\ saved = <<>> /\ \A j \in 0 .. Depth - 1 : stack[j] = Zero
  /\ want \notin Service

(* Without a raised boundary flag two slots are free.  Slot 0 holds the    *)
(* vector; the stack was popped empty exactly when an EXIT left the        *)
(* pointer in the last slot.                                               *)
SlotInv ==
  /\ PXS \notin done => E <= Depth - 3
  /\ Live => stack[0] = Vector
  /\ Live => (Missed <=> E = Depth - 1 /\ via = "exit")

(* A boundary flag that rose while it could interrupt does so before the   *)
(* next instruction, or the handler runs and will serve it; a full stack   *)
(* is in the handler's hands.                                              *)
BoundaryInv ==
  Live /\ PXS \in done /\ PXS \notin unserved =>
    /\ (burst = 0 /\ I) \/ (InHandler /\ ~Missed)
    /\ E = Depth - 1 /\ via # "exit" => InHandler

(* In the handler interrupts are off, or a stale "I = 1" let them through; *)
(* the program has not run since.                                          *)
HandlerInv ==
  Live /\ ~Missed =>
    /\ InHandler /\ (I \/ iWait) => stale
    /\ p = Leave /\ I => stale
    /\ p \in Service => ~ran
    /\ p = Vector => burst > 0

(* The frames are a call stack.                                            *)
ChainInv == Live => Chain(Frames, p, want, stale)

(* Interrupts are enabled only after the program ran, or by a stale "I =   *)
(* 1".                                                                     *)
SpacedInv == ~late /\ I => ran \/ stale

(* After a call to a routine that is not loaded, the fetch request         *)
(* interrupts before an instruction at address zero, unless it rose while  *)
(* it could not.                                                           *)
FetchInv ==
  p = Zero /\ via = "call" =>
    PFR \in unserved \/ (burst = 0 /\ I /\ PFR \in done /\ PFR \in enabled)

(* The stack is used too late only for one of the two known reasons.       *)
LateInv == late => PXS \in unserved \/ stale

(* The inductive invariant, but for the types.                             *)
Core ==
  /\ EnablesInv /\ BootInv /\ SlotInv /\ BoundaryInv /\ HandlerInv
  /\ ChainInv /\ SpacedInv /\ FetchInv /\ LateInv

(* The frames of the model in terms of FramesOf.                           *)
LEMMA FramesAre ==
  Frames = IF Missed THEN saved ELSE FramesOf(saved, E, stack)
  BY DEF Frames, Slots, FramesOf

(* The same in the state after a step.                                     *)
LEMMA FramesBecome ==
  Frames' = IF Missed' THEN saved' ELSE FramesOf(saved', E', stack')
  BY DEF Frames, Slots, FramesOf

(* The invariant holds in the initial state.                               *)
LEMMA InitCore == Init => FlagsOK /\ ValuesOK /\ Core
<1> SUFFICES ASSUME Init PROVE FlagsOK /\ ValuesOK /\ Core
  OBVIOUS
<1>0. Depth \in Nat /\ Depth >= 5 /\ Burst \in Nat \ {0} /\ MaxDepth \in Nat
  BY IopAssumption
<1>1. FlagsOK
  BY DEF Init, FlagsOK
<1>2. ValuesOK
  BY <1>0, AddressInt DEF Init, ValuesOK, Empty, Channels
<1>3. EnablesInv /\ BootInv /\ SlotInv
  BY <1>0 DEF Init, EnablesInv, BootInv, SlotInv, Live, Empty, Service, Zero, Vector, Handler, Leave
<1>4. BoundaryInv /\ HandlerInv /\ ChainInv /\ SpacedInv /\ FetchInv /\ LateInv
  BY DEF Init, BoundaryInv, HandlerInv, ChainInv, SpacedInv, FetchInv, LateInv, Live
<1> QED
  BY <1>1, <1>2, <1>3, <1>4 DEF Core

(* What the instructions that stay in their routine have in common.        *)
StaysQuietly ==
  /\ Stays
  /\ \A ch \in {PFR, PXS} : (ch \in done' <=> ch \in done) /\ (ch \in enabled' <=> ch \in enabled)
  /\ I' => I \/ iWait
  /\ iWait' => iWait

(* Arithmetic, branches, I = 0 and I/O on a channel preserve the           *)
(* invariant.                                                              *)
LEMMA StaysCore == FlagsOK /\ ValuesOK /\ Core /\ StaysQuietly => Core'
<1> SUFFICES ASSUME FlagsOK, ValuesOK, Core, StaysQuietly PROVE Core'
  OBVIOUS
<1> USE DEF StaysQuietly
<1> USE DEF Live
<1>a. /\ burst > 0 /\ ~late /\ p # Leave /\ (late' <=> Missed)
      /\ p' = (IF InHandler THEN Handler ELSE p)
      /\ E' = E /\ stack' = stack /\ saved' = saved /\ want' = want /\ via' = via /\ unserved' = unserved
      /\ booted' <=> booted
  BY DEF Stays, Fetch, Enter, guestVars, FlagsOK, Missed
<1>b. (ran' <=> ran \/ p \notin Service) /\ (stale' <=> stale /\ ~ran')
  BY DEF Stays, Ran, FlagsOK, Service
<1>c. p' # Vector /\ ~Missed' /\ (InHandler' <=> InHandler) /\ (p' \in Service <=> p \in Service)
      /\ (p' = Zero <=> p = Zero) /\ (InHandler => p \in Service)
  BY <1>a DEF Missed, InHandler, Service, Vector, Handler, Leave, Zero
<1>1. EnablesInv'
  BY <1>a DEF Core, EnablesInv
<1>2. BootInv'
  BY <1>a, <1>c DEF Core, BootInv
<1>3. SlotInv'
  BY <1>a, <1>c DEF Core, SlotInv
<1>4. BoundaryInv'
  BY <1>a, <1>c DEF Core, BoundaryInv, ValuesOK
<1>5. HandlerInv'
  BY <1>a, <1>b, <1>c DEF Core, HandlerInv
<1>6. ChainInv'
  <2> SUFFICES ASSUME Live' PROVE Chain(Frames', p', want', stale')
    BY DEF ChainInv
  <2>1. ~Missed /\ Live
    BY <1>a
  <2>2. Frames' = Frames
    BY <2>1, <1>a, <1>c, FramesAre, FramesBecome
  <2>3. p \in Service /\ stale => stale'
    BY <2>1, <1>b DEF Core, HandlerInv
  <2>4. p' \in Service \/ p' = p
    BY <1>a DEF Service
  <2>5. Chain(Frames, p, want, stale)
    BY <2>1 DEF Core, ChainInv
  <2>6. Chain(Frames, p', want, stale')
    BY <2>3, <2>4, <2>5, ChainMove
  <2> QED
    BY <2>2, <2>6, <1>a
<1>7. SpacedInv'
  <2> SUFFICES ASSUME ~late', I' PROVE ran' \/ stale'
    BY DEF SpacedInv
  <2>1. CASE p \notin Service
    BY <2>1, <1>b
  <2>2. CASE p \in Service
    <3>1. booted /\ Live /\ ~Missed /\ InHandler
      BY <2>2, <1>a DEF Core, BootInv, InHandler, Service, Zero, Vector, Handler, Leave
    <3> QED
      BY <3>1, <1>b DEF Core, HandlerInv
  <2> QED
    BY <2>1, <2>2
<1>8. FetchInv'
  BY <1>a, <1>c DEF Core, FetchInv, ValuesOK
<1>9. LateInv'
  <2> SUFFICES ASSUME late', PXS \notin unserved' PROVE FALSE
    BY DEF LateInv
  <2>1. Missed /\ Live
    <3>1. Missed
      BY <1>a
    <3>2. booted
      BY <3>1 DEF Core, BootInv, Missed, Zero, Vector
    <3> QED
      BY <3>1, <3>2, <1>a
  <2>2. E = Depth - 1
    BY <2>1 DEF Core, SlotInv
  <2>3. PXS \in done
    BY <2>2, IopAssumption DEF Core, SlotInv
  <2> QED
    BY <2>1, <2>3, <1>a DEF Core, BoundaryInv, ValuesOK
<1> QED
  BY <1>1, <1>2, <1>3, <1>4, <1>5, <1>6, <1>7, <1>8, <1>9 DEF Core

(* An interrupt (Tick and the Push it makes) preserves the invariant; it   *)
(* is here that a full stack whose flag could not interrupt is overrun.    *)
LEMMA InterruptCore == FlagsOK /\ ValuesOK /\ ValuesOK' /\ Core /\ Interrupt => Core'
<1> SUFFICES ASSUME FlagsOK, ValuesOK, ValuesOK', Core, Interrupt PROVE Core'
  OBVIOUS
<1> USE DEF Live
<1>0. Depth \in Nat /\ Depth >= 5 /\ Burst \in Nat /\ Burst > 0
  BY IopAssumption
<1>a. /\ burst = 0 /\ ~late /\ I /\ ~I' /\ (iWait' <=> iWait)
      /\ E' = Up(E) /\ stack' = [stack EXCEPT ![Up(E)] = p]
      /\ done' = done \cup (IF PushFlags(Up(E)) THEN {PXS} ELSE {})
      /\ p' = stack[0] /\ via' = "interrupt" /\ burst' = Burst /\ ~ran'
      /\ (stale' <=> stale \/ iWait)
      /\ saved' = saved /\ want' = want /\ enabled' = enabled /\ (booted' <=> booted)
  BY DEF Interrupt, Tick, Push, guestVars, FlagsOK
<1>b. /\ unserved \subseteq unserved'
      /\ PXS \in done' /\ PXS \notin done /\ PXS \notin enabled => PXS \in unserved'
      /\ late' <=> booted /\ PXS \in done /\ E = Depth - 1 /\ via # "exit"
  BY <1>a DEF Interrupt, Watch, FlagsOK
<1>c. E' = (IF E = Depth - 1 THEN 0 ELSE E + 1)
  BY <1>a, UpDown DEF ValuesOK
<1>d. ~Missed' /\ (p = Vector => Missed \/ ~Live)
  BY <1>a DEF Missed, Core, HandlerInv, InHandler
<1>1. EnablesInv'
  BY <1>a DEF Core, EnablesInv
<1>2. BootInv'
  <2>1. E' \in 0 .. Depth - 1 /\ 0 \in 0 .. Depth - 1
    BY <1>0 DEF ValuesOK
  <2> QED
    BY <1>a, <2>1 DEF Core, BootInv, ValuesOK
<1>3. SlotInv'
  <2>1. PXS \notin done' => E' <= Depth - 3
    <3>1. PXS \notin done' => ~(E' >= Depth - 2)
      BY <1>a DEF PushFlags
    <3> QED
      BY <3>1, <1>0 DEF ValuesOK
  <2>2. Live' => stack'[0] = Vector
    <3> SUFFICES ASSUME Live' PROVE stack'[0] = Vector
      OBVIOUS
    <3>1. Live /\ stack[0] = Vector
      BY <1>a DEF Core, SlotInv
    <3>2. CASE E = Depth - 1
      <4>1. Missed /\ E' = 0
        BY <3>1, <3>2, <1>a, <1>b, <1>c, <1>0 DEF Core, SlotInv
      <4> QED
        BY <4>1, <1>a, <1>0 DEF Missed, ValuesOK
    <3>3. CASE E # Depth - 1
      BY <3>1, <3>3, <1>a, <1>c, <1>0 DEF ValuesOK
    <3> QED
      BY <3>2, <3>3
  <2> QED
    BY <2>1, <2>2, <1>a, <1>d DEF SlotInv
<1>e. Live' => Live /\ stack[0] = Vector /\ p' = Vector /\ p' \in Service
  BY <1>a DEF Core, SlotInv, Service
<1>4. BoundaryInv'
  BY <1>d, <1>e DEF BoundaryInv, InHandler
<1>5. HandlerInv'
  BY <1>0, <1>a, <1>e DEF HandlerInv, Vector, Leave
<1>6. ChainInv'
  <2> SUFFICES ASSUME Live' PROVE Chain(Frames', p', want', stale')
    BY DEF ChainInv
  <2>0. Live /\ p' = Vector /\ Chain(Frames, p, want, stale)
    BY <1>e DEF Core, ChainInv
  <2>1. CASE Missed
    <3>1. E' = 0
      BY <2>0, <2>1, <1>c, <1>0 DEF Core, SlotInv
    <3>2. Frames' = saved /\ Frames = saved
      BY <2>1, <3>1, <1>a, <1>d, FramesAre, FramesBecome, FramesNone DEF ValuesOK
    <3>3. p' = p
      BY <2>0, <2>1 DEF Missed
    <3> QED
      BY <2>0, <3>2, <3>3, <1>a, ChainMove
  <2>2. CASE ~Missed
    <3> DEFINE f == FramesOf(saved, E, stack)
    <3>1. E \in 0 .. Depth - 2 /\ E' = E + 1
      BY <2>0, <2>2, <1>a, <1>b, <1>c, <1>0 DEF Core, SlotInv, ValuesOK
    <3>2. Frames = f /\ f \in Seq(Address)
      BY <2>2, FramesAre, FramesElements DEF ValuesOK
    <3>3. Frames' = Append(f, p)
      <4>1. stack'[E + 1] = p /\ \A j \in 1 .. E : stack'[j] = stack[j]
        BY <3>1, <1>a, <1>0 DEF ValuesOK
      <4>2. FramesOf(saved, E + 1, stack') = Append(FramesOf(saved, E, stack), p)
        <5>1. /\ saved \in Seq(Address) /\ stack \in [0 .. Depth - 1 -> Address] /\ p \in Address
              /\ stack' \in [0 .. Depth - 1 -> Address]
          BY DEF ValuesOK
        <5> QED
          BY <5>1, <3>1, <4>1, FramesPush, ZenonT(60)
      <4> QED
        BY <3>1, <4>2, <1>a, <1>d, FramesBecome
    <3> HIDE DEF f
    <3>4. p # Vector /\ (p \in Service => stale')
      BY <2>0, <2>2, <1>a, <1>d DEF Core, HandlerInv, InHandler, Service
    <3>5. Chain(Append(f, p), Vector, want, stale')
      BY <2>0, <3>2, <3>4, <1>a, ChainPush DEF ValuesOK
    <3> QED
      BY <2>0, <3>3, <3>5, <1>a
  <2> QED
    BY <2>1, <2>2
<1>7. SpacedInv'
  BY <1>a DEF SpacedInv
<1>8. FetchInv'
  BY <1>a DEF FetchInv
<1>9. LateInv'
  <2> SUFFICES ASSUME late', PXS \notin unserved' PROVE stale'
    BY DEF LateInv
  <2>1. Live /\ PXS \in done /\ PXS \notin unserved /\ E = Depth - 1 /\ via # "exit"
    BY <1>a, <1>b
  <2>2. InHandler /\ ~Missed
    BY <2>1 DEF Core, BoundaryInv, Missed
  <2> QED
    BY <2>1, <2>2, <1>a DEF Core, HandlerInv
<1> QED
  BY <1>1, <1>2, <1>3, <1>4, <1>5, <1>6, <1>7, <1>8, <1>9 DEF Core

(* A stuttering step preserves the invariant.                              *)
LEMMA UnchangedCore == Core /\ UNCHANGED vars => Core'
<1> SUFFICES ASSUME Core, UNCHANGED vars PROVE Core'
  OBVIOUS
<1> USE DEF vars, cpuVars, guestVars, history, Missed, InHandler, Live
<1>1. EnablesInv' /\ BootInv' /\ SlotInv' /\ BoundaryInv' /\ HandlerInv'
  BY DEF Core, EnablesInv, BootInv, SlotInv, BoundaryInv, HandlerInv
<1>2. Frames' = Frames
  BY FramesAre, FramesBecome
<1>3. ChainInv' /\ SpacedInv' /\ FetchInv' /\ LateInv'
  BY <1>2 DEF Core, ChainInv, SpacedInv, FetchInv, LateInv
<1> QED
  BY <1>1, <1>3 DEF Core

(* The start of a burst and a peripheral that becomes done preserve the    *)
(* invariant: a burst starts only when nothing interrupts.                 *)
LEMMA BetweenCore == FlagsOK /\ ValuesOK /\ Core /\ (StartBurst \/ \E ch \in Devices : DeviceDone(ch)) => Core'
<1> SUFFICES ASSUME FlagsOK, ValuesOK, Core, StartBurst \/ \E ch \in Devices : DeviceDone(ch) PROVE Core'
  OBVIOUS
<1> USE DEF Live
<1>0. Burst \in Nat /\ Burst > 0 /\ PXS \notin Devices /\ PFR \notin Devices
  <2>1. Burst \in Nat /\ Burst > 0
    BY IopAssumption
  <2>2. PXS \notin Devices /\ PFR \notin Devices
    BY IopAssumption, Zenon
  <2> QED
    BY <2>1, <2>2
<1>a. /\ (late' <=> late) /\ (I' <=> I) /\ (iWait' <=> iWait) /\ (booted' <=> booted)
      /\ (ran' <=> ran) /\ (stale' <=> stale)
      /\ E' = E /\ stack' = stack /\ p' = p /\ via' = via
      /\ saved' = saved /\ want' = want /\ enabled' = enabled /\ unserved' = unserved
      /\ (PXS \in done' <=> PXS \in done) /\ (PFR \in done' <=> PFR \in done)
  BY <1>0 DEF StartBurst, DeviceDone, guestVars, history
<1>b. \/ burst' = Burst /\ burst = 0 /\ ~late /\ ~(I /\ Interrupting # {})
      \/ burst' = burst
  BY DEF StartBurst, DeviceDone, Tick
<1>c. (Missed' <=> Missed) /\ (InHandler' <=> InHandler)
  BY <1>a DEF Missed, InHandler
<1>1. EnablesInv' /\ BootInv' /\ SlotInv' /\ SpacedInv' /\ LateInv'
  BY <1>a, <1>c DEF Core, EnablesInv, BootInv, SlotInv, SpacedInv, LateInv
<1>2. ASSUME burst' = Burst, burst = 0, ~(I /\ Interrupting # {}), Live, PXS \in done, PXS \notin unserved
      PROVE InHandler /\ ~Missed
  BY <1>2 DEF Core, BoundaryInv, EnablesInv, Interrupting
<1>3. BoundaryInv'
  BY <1>0, <1>a, <1>b, <1>c, <1>2 DEF Core, BoundaryInv
<1>4. HandlerInv'
  BY <1>0, <1>a, <1>b, <1>c DEF Core, HandlerInv
<1>5. ChainInv'
  <2>1. Frames' = Frames
    BY <1>a, <1>c, FramesAre, FramesBecome
  <2> QED
    BY <2>1, <1>a DEF Core, ChainInv, Chain
<1>6. FetchInv'
  BY <1>a, <1>b DEF Core, FetchInv, Interrupting
<1> QED
  BY <1>1, <1>3, <1>4, <1>5, <1>6 DEF Core

(* A dead start establishes the invariant.                                 *)
LEMMA DeadStartCore == DeadStart => Core'
<1> SUFFICES ASSUME DeadStart PROVE Core'
  OBVIOUS
<1>0. Depth \in Nat /\ Depth >= 5
  BY IopAssumption
<1>1. EnablesInv' /\ BootInv' /\ SlotInv'
  BY <1>0 DEF DeadStart, EnablesInv, BootInv, SlotInv, Live, Empty, Service, Zero, Vector, Handler, Leave
<1>2. BoundaryInv' /\ HandlerInv' /\ ChainInv' /\ SpacedInv' /\ FetchInv' /\ LateInv'
  BY DEF DeadStart, BoundaryInv, HandlerInv, ChainInv, SpacedInv, FetchInv, LateInv, Live
<1> QED
  BY <1>1, <1>2 DEF Core

(* I = 1 preserves the invariant: the handler executes it only before its  *)
(* EXIT, with no boundary interrupt waiting.                               *)
LEMMA SetICore == FlagsOK /\ ValuesOK /\ Core /\ SetI => Core'
<1> SUFFICES ASSUME FlagsOK, ValuesOK, Core, SetI PROVE Core'
  OBVIOUS
<1> USE DEF Live
<1>a. /\ burst > 0 /\ ~late /\ (late' <=> Missed) /\ burst' = 0
      /\ (I' <=> I) /\ (booted' <=> booted)
      /\ E' = E /\ stack' = stack /\ saved' = saved /\ want' = want /\ via' = via
      /\ unserved' = unserved /\ done' = done /\ enabled' = enabled
  BY DEF SetI, Fetch, Breaks, guestVars, FlagsOK, Missed
<1>b. (ran' <=> ran \/ p \notin Service) /\ (stale' <=> stale /\ ~ran')
  BY DEF SetI, Ran, FlagsOK, Service
<1>c. \/ p >= 0 /\ p' = p
      \/ InHandler /\ PXS \notin Interrupting /\ p' = Leave
  BY DEF SetI, Program
<1>d. /\ ~Missed' /\ ~InHandler' /\ p' # Zero /\ p # Zero /\ p # Leave
      /\ (p' \in Service <=> p \in Service) /\ (InHandler <=> p \in Service)
      /\ (p' = Leave <=> InHandler)
  BY <1>c DEF Missed, InHandler, Service, Vector, Handler, Leave, Zero
<1>e. booted
  BY <1>d DEF Core, BootInv
<1>1. EnablesInv'
  BY <1>a DEF Core, EnablesInv
<1>2. BootInv'
  BY <1>a, <1>e DEF Core, BootInv
<1>3. SlotInv'
  BY <1>a, <1>d DEF Core, SlotInv
<1>4. BoundaryInv'
  BY <1>a, <1>c, <1>d, <1>e DEF Core, BoundaryInv, EnablesInv, Interrupting, Program, InHandler, Vector, Handler
<1>5. HandlerInv'
  BY <1>a, <1>b, <1>d, <1>e DEF Core, HandlerInv, InHandler
<1>6. ChainInv'
  <2> SUFFICES ASSUME Live' PROVE Chain(Frames', p', want', stale')
    BY DEF ChainInv
  <2>1. ~Missed /\ Live
    BY <1>a
  <2>2. Frames' = Frames
    BY <2>1, <1>a, <1>d, FramesAre, FramesBecome
  <2>3. p \in Service /\ stale => stale'
    BY <2>1, <1>b DEF Core, HandlerInv
  <2>4. p' \in Service \/ p' = p
    BY <1>c DEF Service
  <2>5. Chain(Frames, p, want, stale)
    BY <2>1 DEF Core, ChainInv
  <2>6. Chain(Frames, p', want, stale')
    BY <2>3, <2>4, <2>5, ChainMove
  <2> QED
    BY <2>2, <2>6, <1>a
<1>7. SpacedInv'
  BY <1>a, <1>b, <1>d, <1>e DEF Core, SpacedInv, HandlerInv
<1>8. FetchInv'
  BY <1>d DEF FetchInv
<1>9. LateInv'
  <2> SUFFICES ASSUME late', PXS \notin unserved' PROVE FALSE
    BY DEF LateInv
  <2>1. Missed /\ Live
    BY <1>a, <1>e
  <2>2. E = Depth - 1
    BY <2>1 DEF Core, SlotInv
  <2>3. PXS \in done
    BY <2>2, IopAssumption DEF Core, SlotInv
  <2> QED
    BY <2>1, <2>3, <1>a DEF Core, BoundaryInv, ValuesOK
<1> QED
  BY <1>1, <1>2, <1>3, <1>4, <1>5, <1>6, <1>7, <1>8, <1>9 DEF Core

(* While the program executes an instruction, a raised boundary flag is    *)
(* one that could not interrupt.                                           *)
LEMMA ProgramRuns ==
  ASSUME ValuesOK, Core, Live, Program, burst > 0
  PROVE /\ booted /\ p \notin Service /\ p # Zero /\ ~Missed /\ ~InHandler
        /\ PXS \in done => PXS \in unserved
        /\ Chain(Frames, p, want, stale)
<1>1. booted /\ p \notin Service /\ p # Zero /\ ~Missed /\ ~InHandler
  BY DEF Live, Program, Missed, InHandler, Service, Vector, Handler, Leave, Zero
<1>2. ~(burst = 0)
  BY DEF ValuesOK
<1> QED
  BY <1>1, <1>2 DEF Core, BoundaryInv, ChainInv

(* A jump to a routine that is not loaded preserves the invariant.         *)
LEMMA JumpZeroCore == FlagsOK /\ ValuesOK /\ Core /\ JumpZero => Core'
<1> SUFFICES ASSUME FlagsOK, ValuesOK, Core, JumpZero PROVE Core'
  OBVIOUS
<1> USE DEF Live
<1>a. /\ burst > 0 /\ ~late /\ ~late' /\ p >= 0 /\ p' = Zero /\ want' = p /\ via' = "jump"
      /\ (I' <=> I) /\ (iWait' <=> iWait) /\ (booted' <=> booted) /\ burst' = burst - 1
      /\ E' = E /\ stack' = stack /\ saved' = saved
      /\ unserved' = unserved /\ done' = done \cup {PFR} /\ enabled' = enabled
  BY DEF JumpZero, Fetch, Delays, Continues, guestVars, FlagsOK, Program
<1>b. p \notin Service /\ p # Zero /\ Program
  BY <1>a DEF Service, Vector, Handler, Leave, Zero, Program
<1>c. ran' /\ booted
  BY <1>b DEF JumpZero, Ran, Service, Core, BootInv
<1>d. /\ ~Missed' /\ ~InHandler' /\ p' \notin Service /\ p' # Vector /\ p' # Leave
      /\ PXS # PFR
  BY <1>a DEF Missed, InHandler, Service, Vector, Handler, Leave, Zero, PXS, PFR
<1>e. /\ ~Missed /\ Live /\ (PXS \in done => PXS \in unserved)
      /\ ~InHandler /\ Chain(Frames, p, want, stale)
  BY <1>a, <1>b, <1>c, ProgramRuns
<1>1. EnablesInv' /\ BootInv'
  BY <1>a, <1>b, <1>c DEF Core, EnablesInv, BootInv
<1>2. SlotInv'
  BY <1>a, <1>d, <1>e DEF Core, SlotInv
<1>3. BoundaryInv'
  BY <1>a, <1>d, <1>e DEF BoundaryInv
<1>4. HandlerInv'
  BY <1>d DEF HandlerInv
<1>5. ChainInv'
  <2>1. Frames' = Frames
    BY <1>a, <1>d, <1>e, FramesAre, FramesBecome
  <2>2. p = Len(Frames) /\ \A j \in 1 .. Len(Frames) : ~(Frames[j] < 0)
    BY <1>a, <1>b, <1>e DEF Chain
  <2>3. \A j \in 1 .. Len(Frames) : Frames[j] \notin Service /\ Frames[j] # Zero
    BY <2>2 DEF Service, Vector, Handler, Leave, Zero
  <2>4. Chain(Frames, Zero, p, stale')
    BY <1>e, <2>2, <2>3 DEF Chain, Zero
  <2> QED
    BY <1>a, <2>1, <2>4 DEF ChainInv
<1>6. SpacedInv' /\ FetchInv' /\ LateInv'
  BY <1>a, <1>c DEF SpacedInv, FetchInv, LateInv
<1> QED
  BY <1>1, <1>2, <1>3, <1>4, <1>5, <1>6 DEF Core

(* A call, to a routine that is loaded or not, preserves the invariant.    *)
LEMMA CallCore ==
  ASSUME NEW loaded \in BOOLEAN
  PROVE FlagsOK /\ ValuesOK /\ ValuesOK' /\ Core /\ Call(loaded) => Core'
<1> SUFFICES ASSUME FlagsOK, ValuesOK, ValuesOK', Core, Call(loaded) PROVE Core'
  OBVIOUS
<1> USE DEF Live
<1>0. Depth \in Nat /\ Depth >= 5
  BY IopAssumption
<1>a. /\ burst > 0 /\ ~late /\ p >= 0 /\ via' = "call" /\ burst' = 0
      /\ (I' <=> I) /\ (iWait' <=> iWait) /\ (booted' <=> booted)
      /\ E' = Up(E) /\ stack' = [stack EXCEPT ![Up(E)] = p]
      /\ saved' = saved /\ enabled' = enabled
      /\ \/ /\ p' = p + 1 /\ want' = want
            /\ done' = done \cup (IF PushFlags(Up(E)) THEN {PXS} ELSE {})
         \/ /\ p' = Zero /\ want' = p + 1 /\ PFR \notin done
            /\ done' = done \cup {PFR} \cup (IF PushFlags(Up(E)) THEN {PXS} ELSE {})
  BY DEF Call, Fetch, Delays, Breaks, guestVars, FlagsOK, Program, Push
<1>b. p \notin Service /\ p # Zero /\ Program /\ p \in Int
  BY <1>a, AddressInt DEF Service, Vector, Handler, Leave, Zero, Program, ValuesOK
<1>c. /\ ran' /\ booted /\ (late' <=> PXS \in done)
      /\ unserved' = unserved \cup {ch \in done' \ done : ~(I /\ ch \in enabled)}
  BY <1>b DEF Call, Ran, Service, Core, BootInv, Watch
<1>d. /\ ~Missed' /\ ~InHandler' /\ p' \notin Service /\ p' # Vector /\ p' # Leave
      /\ want' \notin Service
  <2>1. p' = p + 1 \/ p' = Zero
    BY <1>a
  <2>2. p' \notin Service /\ p' # Vector /\ p' # Leave /\ p' # Handler
    BY <1>a, <1>b, <2>1 DEF Service, Vector, Handler, Leave, Zero
  <2>3. want' = want \/ want' = p + 1
    BY <1>a
  <2>4. want' \notin Service
    BY <1>a, <1>b, <2>3 DEF Service, Vector, Handler, Leave, Core, BootInv
  <2> QED
    BY <2>2, <2>4 DEF Missed, InHandler
<1>e. /\ ~Missed /\ Live /\ (PXS \in done => PXS \in unserved)
      /\ ~InHandler /\ Chain(Frames, p, want, stale)
  BY <1>a, <1>b, <1>c, ProgramRuns
<1>f. E' = (IF E = Depth - 1 THEN 0 ELSE E + 1)
  BY <1>a, UpDown DEF ValuesOK
<1>g. PXS # PFR /\ (PXS \in done' <=> PXS \in done \/ PushFlags(E'))
  BY <1>a DEF PXS, PFR
<1>h. Live' => PXS \notin done /\ E <= Depth - 3 /\ E' = E + 1 /\ E' <= Depth - 2 /\ E \in 0 .. Depth - 2
  BY <1>0, <1>c, <1>f DEF Core, SlotInv, ValuesOK
<1>1. EnablesInv' /\ BootInv'
  BY <1>a, <1>c, <1>d DEF Core, EnablesInv, BootInv
<1>2. SlotInv'
  <2>1. PXS \notin done' => E' <= Depth - 3
    BY <1>0, <1>g DEF PushFlags, ValuesOK
  <2>2. Live' => stack'[0] = Vector
    BY <1>0, <1>a, <1>e, <1>h DEF Core, SlotInv, ValuesOK
  <2> QED
    BY <2>1, <2>2, <1>a, <1>d DEF SlotInv
<1>3. BoundaryInv'
  <2> SUFFICES ASSUME Live', PXS \in done', PXS \notin unserved'
               PROVE burst' = 0 /\ I' /\ E' # Depth - 1
    BY DEF BoundaryInv
  <2>1. E' # Depth - 1
    BY <1>0, <1>h
  <2>2. PXS \in done' \ done
    BY <1>h
  <2> QED
    BY <2>1, <2>2, <1>a, <1>c
<1>4. HandlerInv'
  BY <1>d DEF HandlerInv
<1>5. ChainInv'
  <2> SUFFICES ASSUME Live' PROVE Chain(Frames', p', want', stale')
    BY DEF ChainInv
  <2> DEFINE f == FramesOf(saved, E, stack)
  <2>1. /\ saved \in Seq(Address) /\ stack \in [0 .. Depth - 1 -> Address] /\ p \in Address
        /\ stack' \in [0 .. Depth - 1 -> Address] /\ E \in 0 .. Depth - 1
    BY DEF ValuesOK
  <2>2. Frames = f /\ f \in Seq(Address)
    BY <2>1, <1>e, FramesAre, FramesElements
  <2>3. stack'[E + 1] = p /\ \A j \in 1 .. E : stack'[j] = stack[j]
    BY <2>1, <1>h, <1>a, <1>0
  <2>4. FramesOf(saved, E + 1, stack') = Append(f, p)
    <3>1. E \in 0 .. Depth - 2
      BY <1>h
    <3> QED
      BY <2>1, <2>3, <3>1, FramesPush, ZenonT(60)
  <2>5. Frames' = Append(f, p)
    BY <2>4, <1>a, <1>d, <1>h, FramesBecome
  <2> HIDE DEF f
  <2>6. stale' \in BOOLEAN
    BY DEF Call, Ran
  <2>7. p # Vector
    BY <1>b DEF Service
  <2>8. Chain(f, p, want, stale)
    BY <2>2, <1>e
  <2>9. Chain(Append(f, p), p + 1, want, stale') /\ Chain(Append(f, p), Zero, p + 1, stale')
    BY <2>1, <2>2, <2>6, <2>7, <2>8, <1>a, <1>b, ChainPush, ZenonT(60)
  <2> QED
    BY <2>5, <2>9, <1>a
<1>6. SpacedInv'
  BY <1>c DEF SpacedInv
<1>7. FetchInv'
  <2> SUFFICES ASSUME p' = Zero, PFR \notin unserved'
               PROVE burst' = 0 /\ I' /\ PFR \in done' /\ PFR \in enabled'
    BY DEF FetchInv
  <2>1. PFR \in done' \ done
    BY <1>a, <1>b DEF Zero
  <2> QED
    BY <2>1, <1>a, <1>c
<1>8. LateInv'
  BY <1>c, <1>e DEF LateInv
<1> QED
  BY <1>1, <1>2, <1>3, <1>4, <1>5, <1>6, <1>7, <1>8 DEF Core

(* EXIT preserves the invariant, of the program and of the handler, with   *)
(* frames on the stack or with none.                                       *)
LEMMA ExitCore == FlagsOK /\ ValuesOK /\ ValuesOK' /\ Core /\ Exit => Core'
<1> SUFFICES ASSUME FlagsOK, ValuesOK, ValuesOK', Core, Exit PROVE Core'
  OBVIOUS
<1> USE DEF Live
<1>0. Depth \in Nat /\ Depth >= 5
  BY IopAssumption
<1>a. /\ burst > 0 /\ ~late /\ (p > 0 \/ p = Leave) /\ via' = "exit" /\ burst' = 0
      /\ (I' <=> I) /\ (iWait' <=> iWait) /\ (booted' <=> booted)
      /\ E' = Down(E) /\ p' = stack[E] /\ stack' = stack
      /\ saved' = saved /\ enabled' = enabled /\ want' = want
      /\ done' = done \cup (IF E = 0 THEN {PXS} ELSE {})
      /\ unserved' = unserved \cup {ch \in done' \ done : ~(I /\ ch \in enabled)}
      /\ (late' <=> p > 0 /\ PXS \in done)
  BY DEF Exit, Fetch, ExitDelays, Delays, Breaks, guestVars, FlagsOK, Pop, Watch
<1>b. (ran' <=> ran \/ p \notin Service) /\ (stale' <=> stale /\ ~ran')
  BY DEF Exit, Ran, FlagsOK, Service
<1>c. /\ p # Zero /\ ~Missed /\ ~InHandler /\ (p \in Service <=> p = Leave)
      /\ (p > 0 => Program) /\ p \in Int /\ (p = Leave => ~(p > 0))
  BY <1>a, AddressInt DEF Service, Vector, Handler, Leave, Zero, Program, Missed, InHandler, ValuesOK
<1>d. booted /\ Live /\ stack[0] = Vector /\ Chain(Frames, p, want, stale)
  BY <1>a, <1>c DEF Core, BootInv, SlotInv, ChainInv
<1>e. E' = (IF E = 0 THEN Depth - 1 ELSE E - 1)
  BY <1>a, UpDown DEF ValuesOK
<1>f. PXS \in done => PXS \in unserved
  BY <1>a, <1>c, <1>d DEF Core, BoundaryInv
<1>g. p \in Service => ~ran /\ ~ran' /\ (stale' <=> stale) /\ (I => stale)
  BY <1>b, <1>c, <1>d DEF Core, HandlerInv
<1> DEFINE f == FramesOf(saved, E - 1, stack)
<1>h. E # 0 => /\ f \in Seq(Address) /\ Frames = Append(f, stack[E]) /\ stack[E] \in Address
               /\ Chain(f, stack[E], want, stale) /\ stack[E] # Vector
               /\ (stack[E] \in Service => stale /\ p \in Service)
  <2> SUFFICES ASSUME E # 0
        PROVE /\ f \in Seq(Address) /\ Frames = Append(f, stack[E]) /\ stack[E] \in Address
              /\ Chain(f, stack[E], want, stale) /\ stack[E] # Vector
              /\ (stack[E] \in Service => stale /\ p \in Service)
    OBVIOUS
  <2>1. /\ saved \in Seq(Address) /\ stack \in [0 .. Depth - 1 -> Address] /\ stack[E] \in Address
        /\ E \in 0 .. Depth - 1
    BY DEF ValuesOK
  <2>2. E - 1 \in 0 .. Depth - 2 /\ E - 1 \in 0 .. Depth - 1 /\ (E - 1) + 1 = E
    BY <1>0, <2>1
  <2>3. f \in Seq(Address)
    BY <2>1, <2>2, FramesElements
  <2>4. FramesOf(saved, (E - 1) + 1, stack) = Append(f, stack[(E - 1) + 1])
    BY <2>1, <2>2, FramesPop
  <2>5. Frames = Append(f, stack[E])
    BY <2>2, <2>4, <1>c, FramesAre
  <2> HIDE DEF f
  <2>6. Chain(Append(f, stack[E]), p, want, stale)
    BY <2>5, <1>d
  <2>7. Chain(f, stack[E], want, stale)
    BY <2>1, <2>3, <2>6, ChainPop
  <2>8. /\ Len(Append(f, stack[E])) \in 1 .. Len(Append(f, stack[E]))
        /\ Append(f, stack[E])[Len(Append(f, stack[E]))] = stack[E]
    <3>1. Len(f) \in Nat /\ Len(Append(f, stack[E])) = Len(f) + 1 /\ Append(f, stack[E])[Len(f) + 1] = stack[E]
      BY <2>1, <2>3, AppendProperties
    <3> QED
      BY <3>1
  <2>9. stack[E] # Vector
    BY <2>6, <2>8, <2>3 DEF Chain, Vector, Zero, Handler, Leave
  <2>10. stack[E] \in Service => stale /\ p \in Service
    BY <2>6, <2>8 DEF Chain, Service, Vector, Handler, Leave
  <2> QED
    BY <2>1, <2>3, <2>5, <2>7, <2>9, <2>10
<1> HIDE DEF f
<1>i. Missed' <=> E = 0
  <2>1. E = 0 => p' = Vector
    BY <1>a, <1>d
  <2>2. E # 0 => p' # Vector
    BY <1>a, <1>h
  <2> QED
    BY <2>1, <2>2, <1>a DEF Missed
<1>1. EnablesInv' /\ BootInv'
  BY <1>a, <1>d DEF Core, EnablesInv, BootInv
<1>2. SlotInv'
  <2>1. PXS \notin done' => E' <= Depth - 3
    BY <1>0, <1>a, <1>e DEF Core, SlotInv, ValuesOK
  <2>2. E = 0 <=> E' = Depth - 1
    BY <1>0, <1>e DEF ValuesOK
  <2> QED
    BY <2>1, <2>2, <1>a, <1>d, <1>i DEF SlotInv
<1>3. BoundaryInv'
  <2> SUFFICES ASSUME Live', PXS \in done', PXS \notin unserved'
               PROVE burst' = 0 /\ I' /\ via' = "exit"
    BY DEF BoundaryInv
  <2>1. PXS \in done' \ done
    BY <1>a, <1>f
  <2> QED
    BY <2>1, <1>a
<1>4. HandlerInv'
  <2> SUFFICES ASSUME ~Missed' PROVE (p' \in Service => stale' /\ ~ran') /\ p' # Vector
    BY DEF HandlerInv, InHandler, Service
  <2>1. E # 0 /\ p' # Vector /\ (p' \in Service => stale /\ p \in Service)
    BY <1>a, <1>h, <1>i
  <2> QED
    BY <2>1, <1>g
<1>5. ChainInv'
  <2> SUFFICES ASSUME Live' PROVE Chain(Frames', p', want', stale')
    BY DEF ChainInv
  <2>1. CASE E = 0
    <3>1. Frames' = saved /\ Frames = saved
      BY <2>1, <1>a, <1>c, <1>i, FramesAre, FramesBecome, FramesNone DEF ValuesOK
    <3>2. p' \in Service
      BY <2>1, <1>a, <1>d DEF Service
    <3>3. p \in Service /\ stale => stale'
      BY <1>g
    <3>4. Chain(Frames, p', want, stale')
      BY <3>2, <3>3, <1>d, ChainMove
    <3> QED
      BY <3>1, <3>4, <1>a
  <2>2. CASE E # 0
    <3>1. Frames' = f
      BY <2>2, <1>a, <1>e, <1>i, FramesBecome DEF f
    <3>2. stack[E] \in Service /\ stale => stale'
      BY <2>2, <1>g, <1>h
    <3>3. Chain(f, stack[E], want, stale')
      BY <2>2, <3>2, <1>h, ChainMove
    <3> QED
      BY <3>1, <3>3, <1>a
  <2> QED
    BY <2>1, <2>2
<1>6. SpacedInv'
  BY <1>a, <1>b, <1>g DEF SpacedInv
<1>7. FetchInv'
  BY <1>a DEF FetchInv
<1>8. LateInv'
  BY <1>a, <1>f DEF LateInv
<1> QED
  BY <1>1, <1>2, <1>3, <1>4, <1>5, <1>6, <1>7, <1>8 DEF Core

(* The boot image establishes the part of the invariant about a running    *)
(* operating system.                                                       *)
LEMMA BootCore == FlagsOK /\ ValuesOK /\ Core /\ Boot => Core'
<1> SUFFICES ASSUME FlagsOK, ValuesOK, Core, Boot PROVE Core'
  OBVIOUS
<1> USE DEF Live
<1>0. Depth \in Nat /\ Depth >= 5
  BY IopAssumption
<1>a. /\ p = Zero /\ ~late' /\ via' = "jump" /\ p' = 0 /\ booted'
      /\ E' = 0 /\ stack' = [stack EXCEPT ![0] = Vector]
      /\ saved' = <<>> /\ want' = want
      /\ PXS \notin done' /\ enabled' = enabled \cup {PFR, PXS}
  BY DEF Boot, Fetch, Core, BootInv, FlagsOK
<1>b. ran'
  <2>1. p \notin {Vector, Handler, Leave}
    BY <1>a DEF Zero, Vector, Handler, Leave
  <2> QED
    BY <2>1 DEF Boot, Ran
<1>c. p' \notin Service /\ p' # Vector /\ p' # Leave /\ p' # Zero /\ ~Missed' /\ ~InHandler'
  BY <1>a DEF Service, Vector, Handler, Leave, Zero, Missed, InHandler
<1>1. EnablesInv' /\ BootInv'
  BY <1>a DEF Core, EnablesInv, BootInv
<1>2. SlotInv'
  BY <1>0, <1>a, <1>c DEF SlotInv, ValuesOK
<1>3. BoundaryInv' /\ HandlerInv' /\ SpacedInv' /\ FetchInv' /\ LateInv'
  BY <1>a, <1>b, <1>c DEF BoundaryInv, HandlerInv, SpacedInv, FetchInv, LateInv
<1>4. ChainInv'
  <2>1. stack' \in [0 .. Depth - 1 -> Address] /\ saved' \in Seq(Address)
    <3>1. Vector \in Address /\ stack \in [0 .. Depth - 1 -> Address]
      BY AddressInt DEF ValuesOK, Service
    <3>2. <<>> \in Seq(Address)
      OBVIOUS
    <3> QED
      BY <1>a, <3>1, <3>2
  <2>2. Frames' = <<>>
    BY <2>1, <1>a, <1>c, FramesBecome, FramesNone
  <2>3. Chain(<<>>, 0, want, stale')
    BY DEF Chain, Zero
  <2> QED
    BY <2>2, <2>3, <1>a DEF ChainInv
<1> QED
  BY <1>1, <1>2, <1>3, <1>4 DEF Core

(* Serving a boundary interrupt preserves the invariant.                   *)
LEMMA ServeBoundaryCore == FlagsOK /\ ValuesOK /\ ValuesOK' /\ Core /\ ServeBoundary => Core'
<1> SUFFICES ASSUME FlagsOK, ValuesOK, ValuesOK', Core, ServeBoundary PROVE Core'
  OBVIOUS
<1> USE DEF Live
<1>0. Depth \in Nat /\ Depth >= 5
  BY IopAssumption
<1>a. /\ burst > 0 /\ ~late /\ ~late' /\ booted /\ booted' /\ InHandler /\ ~Missed
      /\ p' = Handler /\ via' = via /\ want' = want /\ enabled' = enabled
      /\ (I' <=> I) /\ (iWait' <=> iWait) /\ PXS \notin done'
      /\ unserved' = unserved \ {PXS}
  BY DEF ServeBoundary, Fetch, Delays, guestVars, FlagsOK
<1>b. (ran' <=> ran \/ p \notin Service) /\ (stale' <=> stale /\ ~ran')
  BY DEF ServeBoundary, Ran, FlagsOK, Service
<1>c. /\ p \in Service /\ ~ran /\ (I \/ iWait => stale)
  BY <1>a DEF Core, HandlerInv, InHandler, Service
<1>d. /\ ~Missed' /\ p' \in Service /\ p' # Vector /\ p' # Leave /\ p' # Zero
      /\ ~ran' /\ (stale' <=> stale)
  BY <1>a, <1>b, <1>c DEF Missed, Service, Vector, Handler, Leave, Zero
<1>e. /\ E' \in 0 .. Depth - 3 /\ stack'[0] = stack[0]
      /\ FramesOf(saved', E', stack') = FramesOf(saved, E, stack)
  BY BoundaryServed DEF ValuesOK
<1>1. EnablesInv' /\ BootInv'
  BY <1>a DEF Core, EnablesInv, BootInv
<1>2. SlotInv'
  BY <1>0, <1>a, <1>d, <1>e DEF Core, SlotInv
<1>3. BoundaryInv' /\ HandlerInv' /\ SpacedInv' /\ FetchInv' /\ LateInv'
  BY <1>a, <1>c, <1>d DEF BoundaryInv, HandlerInv, SpacedInv, FetchInv, LateInv
<1>4. ChainInv'
  <2>1. Frames' = Frames
    BY <1>a, <1>d, <1>e, FramesAre, FramesBecome
  <2>2. Chain(Frames, p, want, stale)
    BY <1>a DEF Core, ChainInv
  <2>3. Chain(Frames, p', want, stale')
    BY <2>2, <1>d, ChainMove
  <2> QED
    BY <2>1, <2>3, <1>a DEF ChainInv
<1> QED
  BY <1>1, <1>2, <1>3, <1>4 DEF Core

(* Serving a program fetch request preserves the invariant.                *)
LEMMA ServeFetchCore == FlagsOK /\ ValuesOK /\ ValuesOK' /\ Core /\ ServeFetch => Core'
<1> SUFFICES ASSUME FlagsOK, ValuesOK, ValuesOK', Core, ServeFetch PROVE Core'
  OBVIOUS
<1> USE DEF Live
<1>0. Depth \in Nat /\ Depth >= 5
  BY IopAssumption
<1>a. /\ burst > 0 /\ ~late /\ ~late' /\ booted /\ booted' /\ InHandler /\ ~Missed
      /\ stack[E] = Zero /\ stack' = [stack EXCEPT ![E] = want] /\ E' = E /\ saved' = saved
      /\ p' = Handler /\ via' = via /\ want' = Zero /\ enabled' = enabled
      /\ (I' <=> I) /\ (iWait' <=> iWait) /\ done' = done \ {PFR}
      /\ unserved' = unserved \ {PFR}
  BY DEF ServeFetch, Fetch, Delays, guestVars, FlagsOK
<1>b. (ran' <=> ran \/ p \notin Service) /\ (stale' <=> stale /\ ~ran')
  BY DEF ServeFetch, Ran, FlagsOK, Service
<1>c. /\ p \in Service /\ ~ran /\ (I \/ iWait => stale) /\ stack[0] = Vector
  BY <1>a DEF Core, HandlerInv, InHandler, Service, SlotInv
<1>d. /\ ~Missed' /\ p' \in Service /\ p' # Vector /\ p' # Leave /\ p' # Zero /\ InHandler'
      /\ ~ran' /\ (stale' <=> stale) /\ E # 0 /\ Zero \notin Service
  BY <1>a, <1>b, <1>c DEF Missed, Service, Vector, Handler, Leave, Zero, InHandler
<1>e. PXS # PFR /\ (PXS \in done' <=> PXS \in done) /\ (PXS \in unserved' <=> PXS \in unserved)
  BY <1>a DEF PXS, PFR
<1>1. EnablesInv' /\ BootInv'
  BY <1>a, <1>d DEF Core, EnablesInv, BootInv
<1>2. SlotInv'
  BY <1>0, <1>a, <1>d, <1>e DEF Core, SlotInv, ValuesOK
<1>3. BoundaryInv' /\ HandlerInv' /\ SpacedInv' /\ FetchInv' /\ LateInv'
  BY <1>a, <1>c, <1>d DEF BoundaryInv, HandlerInv, SpacedInv, FetchInv, LateInv
<1>4. ChainInv'
  <2> DEFINE f == FramesOf(saved, E - 1, stack)
  <2>1. /\ saved \in Seq(Address) /\ stack \in [0 .. Depth - 1 -> Address]
        /\ stack' \in [0 .. Depth - 1 -> Address] /\ E \in 0 .. Depth - 1 /\ want \in Address
    BY DEF ValuesOK
  <2>2. E - 1 \in 0 .. Depth - 2 /\ E - 1 \in 0 .. Depth - 1 /\ (E - 1) + 1 = E
    BY <1>0, <1>d, <2>1
  <2>3. f \in Seq(Address)
    BY <2>1, <2>2, FramesElements
  <2>4. FramesOf(saved, (E - 1) + 1, stack) = Append(f, stack[(E - 1) + 1])
    BY <2>1, <2>2, FramesPop
  <2>5. stack'[(E - 1) + 1] = want /\ \A j \in 1 .. E - 1 : stack'[j] = stack[j]
    BY <1>0, <1>a, <2>1, <2>2
  <2>6. FramesOf(saved, (E - 1) + 1, stack') = Append(f, want)
    BY <2>1, <2>2, <2>5, FramesPush, ZenonT(60)
  <2>7. Frames = Append(f, Zero) /\ Frames' = Append(f, want)
    BY <2>2, <2>4, <2>6, <1>a, <1>d, FramesAre, FramesBecome
  <2> HIDE DEF f
  <2>8. Chain(Append(f, Zero), p, want, stale)
    BY <2>7, <1>a DEF Core, ChainInv
  <2>9. want \notin Service
    BY DEF Core, BootInv
  <2>10. Chain(Append(f, want), Handler, Zero, stale)
    BY <2>1, <2>3, <2>8, <2>9, <1>c, ChainFetch
  <2>11. Chain(Append(f, want), Handler, Zero, stale')
    BY <2>10, <1>d, ChainMove
  <2> QED
    BY <2>7, <2>11, <1>a DEF ChainInv
<1> QED
  BY <1>1, <1>2, <1>3, <1>4 DEF Core
-----------------------------------------------------------------------------
(* The inductive invariant.                                                *)
IInv == TypeOK /\ Core

(* It holds initially.                                                     *)
LEMMA InitIInv == Init => IInv
  BY InitCore, TypeParts DEF IInv

(* Every step preserves it.                                                *)
LEMMA StepIInv == IInv /\ [Next]_vars => IInv'
<1> SUFFICES ASSUME IInv, [Next]_vars PROVE IInv'
  OBVIOUS
<1>0. FlagsOK /\ ValuesOK /\ Core
  BY TypeParts DEF IInv
<1>1. FlagsOK' /\ ValuesOK'
  BY <1>0, StepFlags, StepValues
<1>2. TypeOK'
  BY <1>1 DEF TypeOK, FlagsOK, ValuesOK
<1> SUFFICES Core'
  BY <1>2 DEF IInv
<1>b. PXS \in Channels /\ PFR \in Channels /\ PXS \notin Devices /\ PFR \notin Devices
  BY IopAssumption, Zenon DEF Channels
<1>3. CASE UNCHANGED vars
  BY <1>0, <1>3, UnchangedCore
<1>4. CASE Interrupt
  BY <1>0, <1>1, <1>4, InterruptCore
<1>5. CASE StartBurst \/ \E ch \in Devices : DeviceDone(ch)
  BY <1>0, <1>5, BetweenCore
<1>6. CASE DeadStart
  BY <1>6, DeadStartCore
<1>7. CASE Instruction
  <2>1. CASE Plain
    <3>1. Stays /\ done' = done /\ enabled' = enabled /\ (I' => I \/ iWait) /\ (iWait' => iWait)
      BY <2>1 DEF Plain, Settles
    <3> QED
      BY <1>0, <3>1, StaysCore DEF StaysQuietly
  <2>2. CASE Branch
    <3>1. Stays /\ done' = done /\ enabled' = enabled /\ (I' => I \/ iWait) /\ (iWait' => iWait)
      BY <2>2 DEF Branch, Delays
    <3> QED
      BY <1>0, <3>1, StaysCore DEF StaysQuietly
  <2>3. CASE ClearI
    <3>1. Stays /\ done' = done /\ enabled' = enabled /\ (I' => I \/ iWait) /\ (iWait' => iWait)
      BY <2>3 DEF ClearI
    <3> QED
      BY <1>0, <3>1, StaysCore DEF StaysQuietly
  <2>4. CASE SetI
    BY <1>0, <2>4, SetICore
  <2>5. CASE TestChannel
    <3>1. Stays /\ done' = done /\ enabled' = enabled /\ (I' => I \/ iWait) /\ (iWait' => iWait)
      BY <2>5 DEF TestChannel, Delays
    <3> QED
      BY <1>0, <3>1, StaysCore DEF StaysQuietly
  <2>6. CASE NoChannel
    <3>1. Stays /\ done' = done /\ enabled' = enabled /\ (I' => I \/ iWait) /\ (iWait' => iWait)
      BY <2>6 DEF NoChannel, Settles
    <3> QED
      BY <1>0, <3>1, StaysCore DEF StaysQuietly
  <2>7. ASSUME NEW ch \in Devices, ClearDone(ch) PROVE Core'
    <3>1. Stays /\ done' = done \ {ch} /\ enabled' = enabled /\ (I' => I \/ iWait) /\ (iWait' => iWait)
      BY <2>7 DEF ClearDone, Delays
    <3> QED
      BY <1>0, <1>b, <3>1, StaysCore DEF StaysQuietly
  <2>8. ASSUME NEW ch \in Devices, NEW on \in BOOLEAN, SetEnable(ch, on) PROVE Core'
    <3>1. /\ Stays /\ done' = done /\ (I' => I \/ iWait) /\ (iWait' => iWait)
          /\ enabled' = enabled \cup {ch} \/ enabled' = enabled \ {ch}
      BY <2>8 DEF SetEnable, Delays
    <3> QED
      BY <1>0, <1>b, <3>1, StaysCore DEF StaysQuietly
  <2>9. CASE JumpZero
    BY <1>0, <2>9, JumpZeroCore
  <2>10. ASSUME NEW loaded \in BOOLEAN, Call(loaded) PROVE Core'
    BY <1>0, <1>1, <2>10, CallCore
  <2>11. CASE Exit
    BY <1>0, <1>1, <2>11, ExitCore
  <2> QED
    BY <1>7, <2>1, <2>2, <2>3, <2>4, <2>5, <2>6, <2>7, <2>8, <2>9, <2>10, <2>11 DEF Instruction
<1>8. CASE Guest
  BY <1>0, <1>1, <1>8, BootCore, ServeBoundaryCore, ServeFetchCore DEF Guest
<1> QED
  BY <1>3, <1>4, <1>5, <1>6, <1>7, <1>8 DEF Next

(* It always holds.                                                        *)
LEMMA IInvAlways == Spec => []IInv
  BY InitIInv, StepIInv, PTL DEF Spec

(* The variables keep their types: the stack pointer stays in the stack at *)
(* its wrap-around, addresses in the program and its handler.              *)
THEOREM TypeCorrect == Spec => []TypeOK
<1>1. IInv => TypeOK
  BY DEF IInv
<1> QED
  BY <1>1, IInvAlways, PTL

(* The exit stack and its extension in memory are the call stack of the    *)
(* program, however calls, returns, interrupts and boundary services       *)
(* interleave (IopCpu_c::Push, Pop and Tick).                              *)
THEOREM StackIsCallStack == Spec => []CallStackExact
<1>1. IInv => CallStackExact
  <2> SUFFICES ASSUME IInv, booted, ~late
      PROVE
        /\ stack[0] = Vector
        /\ \A j \in 1 .. Len(Frames) : Frames[j] >= 0 =>
             Frames[j] = j - 1 /\ \A i \in 1 .. j : Frames[i] >= 0
        /\ Program => Len(Frames) = p
    BY Zenon DEF CallStackExact
  <2>1. FlagsOK /\ ValuesOK /\ Core
    BY TypeParts DEF IInv
  <2>2. stack[0] = Vector /\ Chain(Frames, p, want, stale)
    BY <2>1 DEF Core, SlotInv, ChainInv, Live
  <2>3. Frames \in Seq(Address)
    BY <2>1, FramesAre, FramesElements DEF ValuesOK
  <2>4. Program => Len(Frames) = p
    BY <2>2 DEF Chain, Program
  <2>5. ASSUME NEW j \in 1 .. Len(Frames), Frames[j] >= 0
        PROVE Frames[j] = j - 1 /\ \A i \in 1 .. j : Frames[i] >= 0
    <3> DEFINE f == Frames
    <3>1. \A i \in 1 .. Len(f) : f[i] \in Int
      <4>1. \A i \in 1 .. Len(f) : f[i] \in Address
        BY <2>3
      <4> QED
        BY <4>1, AddressInt
    <3>2. f[j] = j - 1
      BY <2>2, <2>5 DEF Chain, Zero, Handler, Leave
    <3>3. ASSUME NEW i \in 1 .. j PROVE f[i] >= 0
      <4>1. i \in 1 .. Len(f) /\ f[i] \in Int
        BY <2>3, <3>1
      <4>2. f[j] \notin Service
        BY <2>5 DEF Service, Vector, Handler, Leave
      <4>3. CASE i < j
        BY <2>2, <4>1, <4>2, <4>3 DEF Chain
      <4>4. CASE i = j
        BY <2>5, <4>4
      <4> QED
        BY <4>3, <4>4
    <3> QED
      BY <3>2, <3>3
  <2> QED
    BY <2>2, <2>4, <2>5
<1> QED
  BY <1>1, IInvAlways, PTL

(* The stack is used past a raised boundary flag only if the flag rose     *)
(* while it could not interrupt or after a stale "I = 1", and a call to a  *)
(* routine that is not loaded is interrupted before an instruction at      *)
(* address zero.                                                           *)
THEOREM InterruptsComeInTime == Spec => []InterruptsInTime
<1>1. IInv => InterruptsInTime
  <2> SUFFICES ASSUME IInv PROVE InterruptsInTime
    OBVIOUS
  <2>1. ValuesOK /\ FetchInv /\ LateInv
    BY TypeParts DEF IInv, Core
  <2>2. burst > 0 => burst # 0
    BY <2>1 DEF ValuesOK
  <2> QED
    BY <2>1, <2>2 DEF InterruptsInTime, FetchInv, LateInv
<1> QED
  BY <1>1, IInvAlways, PTL

(* A program that is interrupted again has run since its last interrupt,   *)
(* unless an "I = 1" was still waiting when the interrupt came.            *)
THEOREM InterruptsAreSpaced == Spec => InterruptsSpaced
<1>1. IInv /\ [Next]_vars => [burst = 0 /\ I /\ ~I' => ran \/ stale]_vars
  <2> SUFFICES ASSUME IInv, [Next]_vars, burst = 0, I, ~I' PROVE ran \/ stale
    OBVIOUS
  <2>0. FlagsOK /\ ValuesOK /\ Core
    BY TypeParts DEF IInv
  <2>1. CASE Interrupt
    BY <2>0, <2>1 DEF Core, SpacedInv, Interrupt, Tick
  <2>2. CASE UNCHANGED vars
    BY <2>2 DEF vars, cpuVars
  <2>3. CASE StartBurst \/ \E ch \in Devices : DeviceDone(ch)
    BY <2>3 DEF StartBurst, DeviceDone
  <2>4. CASE DeadStart
    BY <2>4 DEF DeadStart
  <2>5. CASE Instruction
    <3>1. Fetch
      BY <2>5 DEF Instruction, Plain, Branch, ClearI, SetI, TestChannel, NoChannel, Stays,
                  ClearDone, SetEnable, JumpZero, Call, Exit
    <3> QED
      BY <3>1 DEF Fetch
  <2>6. CASE Guest
    <3>1. Fetch
      BY <2>6 DEF Guest, Boot, ServeBoundary, ServeFetch
    <3> QED
      BY <3>1 DEF Fetch
  <2> QED
    BY <2>1, <2>2, <2>3, <2>4, <2>5, <2>6 DEF Next
<1> QED
  BY <1>1, IInvAlways, PTL DEF Spec, InterruptsSpaced
=============================================================================

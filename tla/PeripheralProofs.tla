-------------------------- MODULE PeripheralProofs --------------------------
(***************************************************************************)
(* Proofs about the channels and peripherals of an I/O processor: the      *)
(* accumulator channels to another one, for every number of parcels and of *)
(* dead starts, the expander with its clock, the disk, and the tape drives *)
(* of the expander and of the block multiplexer, for every geometry of the *)
(* disk and every set of tapes.  What a theorem asks of the constants is   *)
(* its hypothesis.                                                         *)
(***************************************************************************)
EXTENDS IopPeripherals, SequenceTheorems, FiniteSetTheorems, WellFoundedInduction, TLAPS

-----------------------------------------------------------------------------
(* Two I/O processors and the accumulator channels between them *)

Links == [data : Nat, valid : BOOLEAN, done : BOOLEAN, ctrl : {0, 2, 3}, stalling : BOOLEAN]

LinkTypes ==
  /\ inReset \in [Iops -> BOOLEAN] /\ started \in [Iops -> BOOLEAN]
  /\ enabled \in [Iops -> BOOLEAN] /\ waiting \in [Iops -> BOOLEAN]
  /\ turn \in Iops /\ phase \in {"tick", "burst"}
  /\ link \in [Iops -> Links]
  /\ sent \in [Iops -> Nat] /\ taken \in [Iops -> Seq(Nat)]
  /\ dropped \in [Iops -> SUBSET Nat]

(* The parcels of channel i: the one in it is the last that was sent and   *)
(* has been neither taken nor lost, the taken ones come before it in order *)
(* and were not lost, and done is the answer to the last one.              *)
Increasing(s) == \A n \in 1 .. Len(s) - 1 : s[n] < s[n + 1]
ParcelInv(i) ==
  /\ link[i].valid => /\ link[i].data = sent[i] /\ sent[i] \notin dropped[i]
                      /\ \A n \in 1 .. Len(taken[i]) : taken[i][n] < sent[i]
  /\ \A n \in 1 .. Len(taken[i]) : taken[i][n] <= sent[i] /\ taken[i][n] \notin dropped[i]
  /\ \A x \in dropped[i] : x <= sent[i]
  /\ Increasing(taken[i])
  /\ link[i].done => taken[i] # <<>> /\ taken[i][Len(taken[i])] = sent[i]

(* Only an IOP that left reset runs instructions. *)
LinkInv ==
  /\ LinkTypes
  /\ \A i \in Iops : ParcelInv(i)
  /\ phase = "burst" => ~inReset[turn]
  /\ StallEnds

LEMMA Others == \A i \in Iops : /\ Other(i) \in Iops /\ Other(i) # i /\ Other(Other(i)) = i
                                /\ \A x \in Iops : x = i \/ x = Other(i)
BY DEF Iops, Other

(* The parcels of a channel after steps that leave its flags, send into    *)
(* it, take from it, or clear it.                                          *)
LEMMA ParcelSame ==
  ASSUME LinkTypes, NEW i \in Iops, ParcelInv(i),
         sent'[i] = sent[i], taken'[i] = taken[i],
         \/ dropped'[i] = dropped[i] /\ link'[i].valid = link[i].valid
         \/ dropped'[i] = Lost(i) /\ link'[i].valid = FALSE,
         link'[i].data = link[i].data,
         link'[i].done = link[i].done \/ link'[i].done = FALSE
  PROVE ParcelInv(i)'
<1>1. CASE dropped'[i] = dropped[i] /\ link'[i].valid = link[i].valid
  BY <1>1 DEF ParcelInv, Increasing
<1>2. CASE dropped'[i] = Lost(i) /\ link'[i].valid = FALSE
  <2>1. sent[i] \in Nat /\ taken[i] \in Seq(Nat)
    BY DEF LinkTypes
  <2>2. \A n \in 1 .. Len(taken[i]) : taken[i][n] \in Nat
    BY <2>1
  <2>3. ASSUME NEW x \in Lost(i) PROVE x \in dropped[i] \/ (link[i].valid /\ x = sent[i])
    BY DEF Lost, ParcelInv
  <2>4. /\ \A n \in 1 .. Len(taken[i]) : taken[i][n] <= sent[i] /\ taken[i][n] \notin Lost(i)
        /\ \A x \in Lost(i) : x <= sent[i]
    BY <2>1, <2>2, <2>3 DEF ParcelInv
  <2> QED
    BY <1>2, <2>4 DEF ParcelInv, Increasing
<1> QED
  BY <1>1, <1>2

LEMMA ParcelSent ==
  ASSUME LinkTypes, NEW i \in Iops, ParcelInv(i),
         sent'[i] = sent[i] + 1, taken'[i] = taken[i], dropped'[i] = dropped[i],
         link'[i].valid = TRUE, link'[i].data = sent[i] + 1, link'[i].done = FALSE
  PROVE ParcelInv(i)'
<1>1. sent[i] \in Nat /\ taken[i] \in Seq(Nat) /\ dropped[i] \in SUBSET Nat
  BY DEF LinkTypes
<1>2. \A n \in 1 .. Len(taken[i]) : taken[i][n] \in Nat
  BY <1>1
<1>3. /\ \A n \in 1 .. Len(taken[i]) : taken[i][n] < sent[i] + 1 /\ taken[i][n] <= sent[i] + 1
      /\ \A x \in dropped[i] : x <= sent[i] + 1
      /\ sent[i] + 1 \notin dropped[i]
  BY <1>1, <1>2 DEF ParcelInv
<1> QED
  BY <1>3 DEF ParcelInv, Increasing

LEMMA ParcelTaken ==
  ASSUME LinkTypes, NEW i \in Iops, ParcelInv(i), link[i].valid,
         sent'[i] = sent[i], taken'[i] = Append(taken[i], link[i].data), dropped'[i] = dropped[i],
         link'[i].valid = FALSE
  PROVE ParcelInv(i)'
<1>1. sent[i] \in Nat /\ taken[i] \in Seq(Nat) /\ link[i].data = sent[i] /\ sent[i] \notin dropped[i]
  BY DEF LinkTypes, ParcelInv
<1>2. PICK s \in Seq(Nat), d \in Nat : s = taken[i] /\ d = sent[i]
  BY <1>1
<1>3. /\ Len(Append(s, d)) = Len(s) + 1 /\ Len(s) \in Nat /\ Append(s, d)[Len(s) + 1] = d
      /\ \A n \in 1 .. Len(s) : Append(s, d)[n] = s[n]
  BY <1>2
<1>4. Increasing(s) /\ \A n \in 1 .. Len(s) : s[n] < d /\ s[n] <= d /\ s[n] \notin dropped[i]
  BY <1>2 DEF ParcelInv
<1>5. taken'[i] = Append(s, d) /\ Append(s, d) # <<>>
  <2>1. taken'[i] = Append(s, d)
    BY <1>1, <1>2
  <2>2. Len(<<>>) = 0 /\ Len(Append(s, d)) # 0
    BY <1>3
  <2> QED
    BY <2>1, <2>2
<1>6. \A n \in 1 .. Len(s) + 1 : Append(s, d)[n] <= d /\ Append(s, d)[n] \notin dropped[i]
  BY <1>1, <1>2, <1>3, <1>4
<1>7. Increasing(Append(s, d))
  <2>1. ASSUME NEW n \in 1 .. Len(s) PROVE Append(s, d)[n] < Append(s, d)[n + 1]
    <3>1. CASE n = Len(s)
      BY <1>3, <1>4, <3>1
    <3>2. CASE n # Len(s)
      <4>1. n \in 1 .. Len(s) - 1 /\ n + 1 \in 1 .. Len(s)
        BY <1>3, <3>2
      <4> QED
        BY <1>3, <1>4, <4>1 DEF Increasing
    <3> QED
      BY <3>1, <3>2
  <2> QED
    BY <1>3, <2>1 DEF Increasing
<1>8. \A x \in dropped[i] : x <= sent[i]
  BY DEF ParcelInv
<1> QED
  BY <1>2, <1>3, <1>5, <1>6, <1>7, <1>8 DEF ParcelInv

-----------------------------------------------------------------------------
(* The steps of Tick *)

(* What an action leaves alone. *)
LEMMA ParcelsSame ==
  ASSUME LinkTypes, \A i \in Iops : ParcelInv(i), UNCHANGED history,
         \A i \in Iops : /\ link'[i].valid = link[i].valid /\ link'[i].data = link[i].data
                         /\ link'[i].done = link[i].done
  PROVE \A i \in Iops : ParcelInv(i)'
BY ParcelSame DEF history

LEMMA StallOverLinks ==
  ASSUME LinkTypes, NEW i \in Iops, link' = StallOver(i)
  PROVE /\ link' \in [Iops -> Links]
        /\ \A x \in Iops : /\ link'[x].valid = link[x].valid /\ link'[x].data = link[x].data
                           /\ link'[x].done = link[x].done
        /\ ~link'[i].stalling /\ link'[Other(i)] = link[Other(i)]
<1> DEFINE q == [link[i] EXCEPT !.stalling = FALSE]
<1>1. q \in Links /\ q.valid = link[i].valid /\ q.data = link[i].data /\ q.done = link[i].done
      /\ q.stalling = FALSE
  BY DEF LinkTypes, Links
<1>2. link' = [link EXCEPT ![i] = q]
  BY DEF StallOver
<1> HIDE DEF q
<1>3. link \in [Iops -> Links]
  BY DEF LinkTypes
<1>4. link'[i] = q /\ \A x \in Iops : x # i => link'[x] = link[x]
  BY <1>2, <1>3
<1>5. link' \in [Iops -> Links]
  BY <1>1, <1>2, <1>3
<1> QED
  BY <1>1, <1>4, <1>5, Others

LEMMA TickStep ==
  ASSUME LinkInv, NEW i \in Iops, Stall(i) \/ Interrupt(i) \/ NoInterrupt(i) \/ EndBurst(i)
  PROVE LinkInv'
<1> DEFINE d == Other(i)
<1>0. LinkTypes /\ (\A x \in Iops : ParcelInv(x)) /\ StallEnds
      /\ d \in Iops /\ d # i /\ Other(d) = i /\ \A x \in Iops : x = i \/ x = d
  BY Others DEF LinkInv
<1> HIDE DEF d
<1>1. CASE Stall(i)
  <2>1. FALSE
    BY <1>0, <1>1 DEF Stall, Beginning, StallEnds
  <2> QED
    BY <2>1
<1>2. CASE Interrupt(i)
  <2>1. /\ turn = i /\ phase = "tick" /\ UNCHANGED <<waiting, history, started, turn>>
        /\ ~Stalled(i) /\ enabled[i] /\ phase' = "burst"
        /\ inReset' = [inReset EXCEPT ![i] = FALSE] /\ enabled' = [enabled EXCEPT ![i] = FALSE]
        /\ link' = StallOver(i)
    BY <1>2 DEF Interrupt, Beginning
  <2>2. /\ link' \in [Iops -> Links]
        /\ \A x \in Iops : /\ link'[x].valid = link[x].valid /\ link'[x].data = link[x].data
                           /\ link'[x].done = link[x].done
        /\ ~link'[i].stalling /\ link'[d] = link[d]
    BY <1>0, <2>1, StallOverLinks DEF d
  <2>3. \A x \in Iops : ParcelInv(x)'
    BY <1>0, <2>1, <2>2, ParcelsSame
  <2>4. LinkTypes'
    BY <1>0, <2>1, <2>2 DEF LinkTypes, history
  <2>5. /\ ~inReset'[i] /\ ~inReset'[turn'] /\ enabled'[d] = enabled[d]
        /\ inReset'[d] = inReset[d] /\ started' = started /\ phase' # "tick"
    BY <1>0, <2>1 DEF LinkTypes
  <2>6. StallEnds'
    BY <1>0, <2>2, <2>5 DEF StallEnds, Stalled
  <2> QED
    BY <2>3, <2>4, <2>5, <2>6 DEF LinkInv
<1>3. CASE NoInterrupt(i)
  <2>1. /\ turn = i /\ phase = "tick" /\ UNCHANGED <<waiting, history, inReset, started, enabled>>
        /\ ~Stalled(i) /\ ~(enabled[i] /\ started[i]) /\ link' = StallOver(i)
        /\ \/ inReset[i] /\ turn' = Other(i) /\ phase' = "tick"
           \/ ~inReset[i] /\ phase' = "burst" /\ turn' = turn
    BY <1>3 DEF NoInterrupt, Beginning, iopVars
  <2>2. /\ link' \in [Iops -> Links]
        /\ \A x \in Iops : /\ link'[x].valid = link[x].valid /\ link'[x].data = link[x].data
                           /\ link'[x].done = link[x].done
        /\ ~link'[i].stalling /\ link'[d] = link[d]
    BY <1>0, <2>1, StallOverLinks DEF d
  <2>3. \A x \in Iops : ParcelInv(x)'
    BY <1>0, <2>1, <2>2, ParcelsSame
  <2>4. LinkTypes'
    BY <1>0, <2>1, <2>2 DEF LinkTypes, history, d
  <2>5. ~Stalled(d)
    BY <1>0, <2>1 DEF StallEnds
  <2>6. StallEnds' /\ (phase' = "burst" => ~inReset'[turn'])
    BY <1>0, <2>1, <2>2, <2>5 DEF StallEnds, Stalled
  <2> QED
    BY <2>3, <2>4, <2>6 DEF LinkInv
<1>4. CASE EndBurst(i)
  <2>1. /\ turn = i /\ phase = "burst" /\ turn' = d /\ phase' = "tick"
        /\ enabled' \in {enabled, [enabled EXCEPT ![i] = TRUE]}
        /\ UNCHANGED <<inReset, started, link, waiting, history>> /\ ~inReset[i]
    BY <1>4 DEF EndBurst, LinkInv, d
  <2>2. \A x \in Iops : ParcelInv(x)'
    BY <1>0, <2>1, ParcelsSame
  <2>3. LinkTypes'
    BY <1>0, <2>1 DEF LinkTypes, history
  <2>4. \A x \in Iops : enabled[x] => enabled'[x]
    BY <1>0, <2>1 DEF LinkTypes
  <2>5. StallEnds'
    <3>1. ASSUME NEW x \in Iops, Stalled(x)'
          PROVE /\ started'[Other(x)] /\ enabled'[Other(x)] /\ ~link'[Other(x)].stalling
                /\ ~(turn' = x /\ phase' = "tick")
      <4>1. Stalled(x) /\ x = i
        BY <1>0, <2>1, <3>1 DEF Stalled
      <4>2. started[d] /\ enabled[d] /\ ~link[d].stalling
        BY <1>0, <4>1 DEF StallEnds, d
      <4> QED
        BY <1>0, <2>1, <2>4, <4>1, <4>2 DEF d
    <3> QED
      BY <3>1 DEF StallEnds
  <2> QED
    BY <2>1, <2>2, <2>3, <2>5 DEF LinkInv
<1> QED
  BY <1>1, <1>2, <1>3, <1>4

-----------------------------------------------------------------------------
(* The instructions *)

(* An instruction keeps StallEnds: it belongs to an IOP out of reset, and  *)
(* only a dead start sets a stall or clears the interrupt of another IOP.  *)
LEMMA InstructionStalls ==
  ASSUME LinkInv, NEW i \in Iops, turn = i, phase = "burst",
         UNCHANGED <<inReset, turn, phase>>,
         \A x \in Iops : link'[x].stalling = link[x].stalling,
         started'[Other(i)] = started[Other(i)], enabled'[Other(i)] = enabled[Other(i)]
  PROVE StallEnds' /\ (phase' = "burst" => ~inReset'[turn'])
<1>1. ~inReset[i] /\ StallEnds
  BY DEF LinkInv
<1>2. /\ Other(i) \in Iops /\ Other(i) # i /\ Other(Other(i)) = i
      /\ \A x \in Iops : x = i \/ x = Other(i)
  BY Others
<1>3. StallEnds'
  BY <1>1, <1>2 DEF StallEnds, Stalled
<1> QED
  BY <1>1, <1>3

LEMMA InstructionStep ==
  ASSUME LinkInv, NEW i \in Iops,
         \/ AcknowledgeStart(i) \/ Write(i) \/ ClearOutput(i) \/ ClearInput(i) \/ Read(i)
         \/ \E c \in {0, 2, 3} : SetControl(i, c)
  PROVE LinkInv'
<1> DEFINE d == Other(i)
<1>1. LinkTypes /\ (\A x \in Iops : ParcelInv(x))
      /\ d \in Iops /\ d # i /\ Other(d) = i /\ \A x \in Iops : x = i \/ x = d
  BY Others DEF LinkInv
<1>2. turn = i /\ phase = "burst" /\ UNCHANGED <<inReset, turn, phase>>
  BY DEF AcknowledgeStart, Write, ClearOutput, ClearInput, Read, SetControl, Executes
<1>3. link \in [Iops -> Links] /\ link[i] \in Links /\ link[d] \in Links
      /\ sent[i] \in Nat /\ sent[d] \in Nat
  BY <1>1 DEF LinkTypes
<1> HIDE DEF d
<1>4. CASE AcknowledgeStart(i)
  <2>1. UNCHANGED <<enabled, link, waiting, history>> /\ started' = [started EXCEPT ![i] = FALSE]
    BY <1>4 DEF AcknowledgeStart
  <2>2. \A x \in Iops : ParcelInv(x)'
    BY <1>1, <2>1, ParcelsSame
  <2>3. LinkTypes'
    BY <1>1, <1>2, <2>1 DEF LinkTypes, history
  <2>4. started'[d] = started[d] /\ enabled'[d] = enabled[d]
    BY <1>1, <2>1 DEF LinkTypes
  <2> QED
    BY <1>1, <1>2, <2>1, <2>2, <2>3, <2>4, InstructionStalls DEF LinkInv, d
<1>5. CASE Write(i)
  <2>1. /\ UNCHANGED <<started, enabled, taken, dropped>>
        /\ sent' = [sent EXCEPT ![i] = @ + 1] /\ waiting' = [waiting EXCEPT ![i] = TRUE]
        /\ link' = [link EXCEPT ![i].data = sent[i] + 1, ![i].valid = TRUE, ![i].done = FALSE]
    BY <1>5 DEF Write
  <2>n. PICK n \in Nat : n = sent[i] + 1
    BY <1>3
  <2> DEFINE q == [link[i] EXCEPT !.data = n, !.valid = TRUE, !.done = FALSE]
  <2>2. q \in Links /\ q.data = n /\ q.valid = TRUE /\ q.done = FALSE
        /\ q.stalling = link[i].stalling
    BY <1>3 DEF Links
  <2>3. link' = [link EXCEPT ![i] = q]
    BY <2>1, <2>n, <1>1, <1>3
  <2> HIDE DEF q
  <2>4. link' \in [Iops -> Links] /\ link'[i] = q /\ link'[d] = link[d]
    BY <1>1, <1>3, <2>2, <2>3
  <2>5. sent' \in [Iops -> Nat] /\ sent'[i] = sent[i] + 1 /\ sent'[d] = sent[d]
    BY <1>1, <2>1 DEF LinkTypes
  <2>6. LinkTypes'
    BY <1>1, <1>2, <2>1, <2>4, <2>5 DEF LinkTypes
  <2>7. ParcelInv(i)'
    BY <1>1, <2>1, <2>n, <2>2, <2>4, <2>5, ParcelSent
  <2>8. ParcelInv(d)'
    BY <1>1, <2>1, <2>4, <2>5, ParcelSame
  <2>9. StallEnds' /\ (phase' = "burst" => ~inReset'[turn'])
    <3>1. \A x \in Iops : link'[x].stalling = link[x].stalling
      BY <1>1, <2>2, <2>4
    <3> QED
      BY <1>2, <2>1, <3>1, InstructionStalls
  <2> QED
    BY <1>1, <2>6, <2>7, <2>8, <2>9 DEF LinkInv
<1>6. CASE ClearOutput(i)
  <2>1. /\ UNCHANGED <<started, enabled, sent, taken>>
        /\ waiting' = [waiting EXCEPT ![i] = FALSE]
        /\ link' = [link EXCEPT ![i].valid = FALSE, ![i].done = FALSE]
        /\ dropped' = [dropped EXCEPT ![i] = Lost(i)]
    BY <1>6 DEF ClearOutput
  <2> DEFINE q == [link[i] EXCEPT !.valid = FALSE, !.done = FALSE]
  <2>2. q \in Links /\ q.data = link[i].data /\ q.valid = FALSE /\ q.done = FALSE
        /\ q.stalling = link[i].stalling
    BY <1>3 DEF Links
  <2>3. link' = [link EXCEPT ![i] = q]
    BY <2>1, <1>1, <1>3
  <2> HIDE DEF q
  <2>4. link' \in [Iops -> Links] /\ link'[i] = q /\ link'[d] = link[d]
    BY <1>1, <1>3, <2>2, <2>3
  <2>5. dropped' \in [Iops -> SUBSET Nat] /\ dropped'[i] = Lost(i) /\ dropped'[d] = dropped[d]
    <3>1. Lost(i) \in SUBSET Nat
      BY <1>1, <1>3 DEF Lost, LinkTypes, Links
    <3> QED
      BY <1>1, <2>1, <3>1 DEF LinkTypes
  <2>6. LinkTypes'
    BY <1>1, <1>2, <2>1, <2>4, <2>5 DEF LinkTypes
  <2>7. ParcelInv(i)' /\ ParcelInv(d)'
    BY <1>1, <2>1, <2>2, <2>4, <2>5, ParcelSame
  <2>8. StallEnds' /\ (phase' = "burst" => ~inReset'[turn'])
    <3>1. \A x \in Iops : link'[x].stalling = link[x].stalling
      BY <1>1, <2>2, <2>4
    <3> QED
      BY <1>2, <2>1, <3>1, InstructionStalls
  <2> QED
    BY <1>1, <2>6, <2>7, <2>8 DEF LinkInv
<1>7. CASE ClearInput(i)
  <2>1. /\ UNCHANGED <<started, enabled, waiting, sent, taken>>
        /\ link' = [link EXCEPT ![d].valid = FALSE]
        /\ dropped' = [dropped EXCEPT ![d] = Lost(d)]
    BY <1>7 DEF ClearInput, d
  <2> DEFINE q == [link[d] EXCEPT !.valid = FALSE]
  <2>2. q \in Links /\ q.data = link[d].data /\ q.valid = FALSE /\ q.done = link[d].done
        /\ q.stalling = link[d].stalling
    BY <1>3 DEF Links
  <2>3. link' = [link EXCEPT ![d] = q]
    BY <2>1, <1>1, <1>3
  <2> HIDE DEF q
  <2>4. link' \in [Iops -> Links] /\ link'[d] = q /\ link'[i] = link[i]
    BY <1>1, <1>3, <2>2, <2>3
  <2>5. dropped' \in [Iops -> SUBSET Nat] /\ dropped'[d] = Lost(d) /\ dropped'[i] = dropped[i]
    <3>1. Lost(d) \in SUBSET Nat
      BY <1>1, <1>3 DEF Lost, LinkTypes, Links
    <3> QED
      BY <1>1, <2>1, <3>1 DEF LinkTypes
  <2>6. LinkTypes'
    BY <1>1, <1>2, <2>1, <2>4, <2>5 DEF LinkTypes
  <2>7. ParcelInv(i)' /\ ParcelInv(d)'
    BY <1>1, <2>1, <2>2, <2>4, <2>5, ParcelSame
  <2>8. StallEnds' /\ (phase' = "burst" => ~inReset'[turn'])
    <3>1. \A x \in Iops : link'[x].stalling = link[x].stalling
      BY <1>1, <2>2, <2>4
    <3> QED
      BY <1>2, <2>1, <3>1, InstructionStalls
  <2> QED
    BY <1>1, <2>6, <2>7, <2>8 DEF LinkInv
<1>8. CASE Read(i)
  <2>1. /\ UNCHANGED <<started, enabled, waiting, sent, dropped>> /\ link[d].valid
        /\ link' = [link EXCEPT ![d].valid = FALSE, ![d].done = TRUE]
        /\ taken' = [taken EXCEPT ![d] = Append(taken[d], link[d].data)]
    BY <1>8 DEF Read, d
  <2> DEFINE q == [link[d] EXCEPT !.valid = FALSE, !.done = TRUE]
  <2>2. q \in Links /\ q.valid = FALSE /\ q.stalling = link[d].stalling
    BY <1>3 DEF Links
  <2>3. link' = [link EXCEPT ![d] = q]
    BY <2>1, <1>1, <1>3
  <2> HIDE DEF q
  <2>4. link' \in [Iops -> Links] /\ link'[d] = q /\ link'[i] = link[i]
    BY <1>1, <1>3, <2>2, <2>3
  <2>5. /\ taken' \in [Iops -> Seq(Nat)] /\ taken'[d] = Append(taken[d], link[d].data)
        /\ taken'[i] = taken[i]
    <3>1. Append(taken[d], link[d].data) \in Seq(Nat)
      BY <1>1, <1>3 DEF LinkTypes, Links
    <3> QED
      BY <1>1, <2>1, <3>1 DEF LinkTypes
  <2>6. LinkTypes'
    BY <1>1, <1>2, <2>1, <2>4, <2>5 DEF LinkTypes
  <2>7. ParcelInv(d)'
    BY <1>1, <2>1, <2>2, <2>4, <2>5, ParcelTaken
  <2>8. ParcelInv(i)'
    BY <1>1, <2>1, <2>4, <2>5, ParcelSame
  <2>9. StallEnds' /\ (phase' = "burst" => ~inReset'[turn'])
    <3>1. \A x \in Iops : link'[x].stalling = link[x].stalling
      BY <1>1, <2>2, <2>4
    <3> QED
      BY <1>2, <2>1, <3>1, InstructionStalls
  <2> QED
    BY <1>1, <2>6, <2>7, <2>8, <2>9 DEF LinkInv
<1>9. CASE \E c \in {0, 2, 3} : SetControl(i, c)
  <2>1. PICK c \in {0, 2, 3} : UNCHANGED <<started, enabled, waiting, history>>
                               /\ link' = [link EXCEPT ![i].ctrl = c]
    BY <1>9 DEF SetControl
  <2> DEFINE q == [link[i] EXCEPT !.ctrl = c]
  <2>2. q \in Links /\ q.data = link[i].data /\ q.valid = link[i].valid /\ q.done = link[i].done
        /\ q.stalling = link[i].stalling
    BY <1>3 DEF Links
  <2>3. link' = [link EXCEPT ![i] = q]
    BY <2>1, <1>1, <1>3
  <2> HIDE DEF q
  <2>4. link' \in [Iops -> Links] /\ link'[i] = q /\ link'[d] = link[d]
    BY <1>1, <1>3, <2>2, <2>3
  <2>5. LinkTypes'
    BY <1>1, <1>2, <2>1, <2>4 DEF LinkTypes, history
  <2>6. \A x \in Iops : ParcelInv(x)'
    BY <1>1, <2>1, <2>2, <2>4, ParcelsSame
  <2>7. StallEnds' /\ (phase' = "burst" => ~inReset'[turn'])
    <3>1. \A x \in Iops : link'[x].stalling = link[x].stalling
      BY <1>1, <2>2, <2>4
    <3> QED
      BY <1>2, <2>1, <3>1, InstructionStalls
  <2> QED
    BY <2>5, <2>6, <2>7 DEF LinkInv
<1> QED
  BY <1>4, <1>5, <1>6, <1>7, <1>8, <1>9

LEMMA DropControlStep == ASSUME LinkInv, NEW i \in Iops, DropControl(i) PROVE LinkInv'
<1> DEFINE d == Other(i)
<1>1. LinkTypes /\ (\A x \in Iops : ParcelInv(x)) /\ StallEnds
      /\ d \in Iops /\ d # i /\ Other(d) = i /\ \A x \in Iops : x = i \/ x = d
  BY Others DEF LinkInv
<1>2. link \in [Iops -> Links] /\ link[i] \in Links /\ link[d] \in Links
  BY <1>1 DEF LinkTypes
<1>3. /\ turn = i /\ phase = "burst" /\ UNCHANGED <<inReset, turn, phase, sent, taken>>
      /\ link' = [link EXCEPT ![d] = OutputCleared(@), ![i].valid = FALSE,
                              ![i].ctrl = 0, ![i].stalling = TRUE]
      /\ dropped' = [x \in Iops |-> Lost(x)] /\ enabled' = [enabled EXCEPT ![d] = TRUE]
      /\ started' = [started EXCEPT ![d] = TRUE] /\ waiting' = [waiting EXCEPT ![d] = FALSE]
  BY DEF DropControl, Executes, StartedByDeadStart
<1> HIDE DEF d
<1> DEFINE p == [link[i] EXCEPT !.valid = FALSE, !.ctrl = 0, !.stalling = TRUE]
           q == OutputCleared(link[d])
<1>4. /\ p \in Links /\ p.data = link[i].data /\ p.valid = FALSE /\ p.done = link[i].done
      /\ p.stalling = TRUE
  BY <1>2 DEF Links
<1>5. /\ q \in Links /\ q.data = link[d].data /\ q.valid = FALSE /\ q.done = FALSE
      /\ q.stalling = FALSE
  BY <1>2 DEF Links, OutputCleared, Empty
<1>6. link' = [link EXCEPT ![d] = q, ![i] = p]
  BY <1>1, <1>2, <1>3
<1> HIDE DEF p, q
<1>7. link' \in [Iops -> Links] /\ link'[i] = p /\ link'[d] = q
  BY <1>1, <1>2, <1>4, <1>5, <1>6
<1>8. dropped' \in [Iops -> SUBSET Nat] /\ \A x \in Iops : dropped'[x] = Lost(x)
  <2>1. ASSUME NEW x \in Iops PROVE Lost(x) \in SUBSET Nat
    BY <1>1 DEF Lost, LinkTypes, Links
  <2> QED
    BY <1>3, <2>1
<1>9. LinkTypes'
  BY <1>1, <1>3, <1>7, <1>8 DEF LinkTypes
<1>10. ParcelInv(i)' /\ ParcelInv(d)'
  BY <1>1, <1>3, <1>4, <1>5, <1>7, <1>8, ParcelSame
<1>11. StallEnds'
  <2>1. started'[d] /\ enabled'[d] /\ ~link'[d].stalling /\ phase' # "tick"
    BY <1>1, <1>3, <1>5, <1>7 DEF LinkTypes
  <2>2. ASSUME NEW x \in Iops, Stalled(x)'
        PROVE /\ started'[Other(x)] /\ enabled'[Other(x)] /\ ~link'[Other(x)].stalling
              /\ ~(turn' = x /\ phase' = "tick")
    <3>1. x = i
      BY <1>1, <2>1, <2>2 DEF Stalled
    <3> QED
      BY <2>1, <3>1 DEF d
  <2> QED
    BY <2>2 DEF StallEnds
<1> QED
  BY <1>1, <1>3, <1>9, <1>10, <1>11 DEF LinkInv

LEMMA ClusterDeadStartStep == ASSUME LinkInv, ClusterDeadStart PROVE LinkInv'
<1>1. LinkTypes /\ \A x \in Iops : ParcelInv(x)
  BY DEF LinkInv
<1>2. /\ phase = "tick" /\ UNCHANGED <<inReset, turn, phase, sent, taken>>
      /\ link' = [i \in Iops |-> OutputCleared(link[i])]
      /\ dropped' = [i \in Iops |-> Lost(i)]
      /\ enabled' = [i \in Iops |-> TRUE] /\ started' = [i \in Iops |-> i = StartupIop]
      /\ waiting' = [i \in Iops |-> FALSE]
  BY DEF ClusterDeadStart
<1>3. ASSUME NEW x \in Iops
      PROVE /\ link'[x] \in Links /\ link'[x].data = link[x].data /\ link'[x].valid = FALSE
            /\ link'[x].done = FALSE /\ link'[x].stalling = FALSE
            /\ dropped'[x] = Lost(x) /\ Lost(x) \in SUBSET Nat
  <2>1. link[x] \in Links /\ link'[x] = OutputCleared(link[x])
    BY <1>1, <1>2 DEF LinkTypes
  <2>2. Lost(x) \in SUBSET Nat
    BY <1>1 DEF Lost, LinkTypes, Links
  <2> QED
    BY <1>2, <2>1, <2>2 DEF Links, OutputCleared, Empty
<1>4. LinkTypes'
  <2>1. \A x \in Iops : (x = StartupIop) \in BOOLEAN
    OBVIOUS
  <2>2. link' \in [Iops -> Links] /\ dropped' \in [Iops -> SUBSET Nat]
        /\ started' \in [Iops -> BOOLEAN]
    BY <1>2, <1>3, <2>1
  <2> QED
    BY <1>1, <1>2, <2>2 DEF LinkTypes
<1>5. \A x \in Iops : ParcelInv(x)'
  BY <1>1, <1>2, <1>3, ParcelSame
<1>6. StallEnds'
  BY <1>3 DEF StallEnds, Stalled
<1> QED
  BY <1>2, <1>4, <1>5, <1>6 DEF LinkInv

-----------------------------------------------------------------------------
(* The specification *)

LEMMA LinkInvInit == LinkInit => LinkInv
<1> SUFFICES ASSUME LinkInit PROVE LinkInv
  OBVIOUS
<1>1. Empty \in Links
  BY DEF Empty, Links
<1>2. LinkTypes
  <2>1. <<>> \in Seq(Nat)
    OBVIOUS
  <2> QED
    BY <1>1, <2>1 DEF LinkInit, LinkTypes, Iops
<1>3. \A i \in Iops : ParcelInv(i)
  <2>1. ASSUME NEW i \in Iops PROVE ParcelInv(i)
    <3>1. /\ ~link[i].valid /\ ~link[i].done /\ taken[i] = <<>> /\ dropped[i] = {}
          /\ \A n \in 1 .. Len(<<>>) : FALSE
          /\ \A n \in 1 .. Len(<<>>) - 1 : FALSE
      BY DEF LinkInit, Empty
    <3> QED
      BY <3>1 DEF ParcelInv, Increasing
  <2> QED
    BY <2>1
<1>4. StallEnds
  BY DEF LinkInit, Empty, StallEnds, Stalled
<1> QED
  BY <1>2, <1>3, <1>4 DEF LinkInit, LinkInv

LEMMA LinkInvStep == LinkInv /\ [LinkNext]_linkVars => LinkInv'
<1> SUFFICES ASSUME LinkInv, [LinkNext]_linkVars PROVE LinkInv'
  OBVIOUS
<1>1. CASE UNCHANGED linkVars
  <2>1. UNCHANGED <<inReset, started, enabled, turn, phase, link, waiting, sent, taken, dropped>>
    BY <1>1 DEF linkVars, iopVars, history
  <2>2. LinkTypes' /\ StallEnds'
    BY <2>1 DEF LinkInv, LinkTypes, StallEnds, Stalled
  <2>3. \A i \in Iops : ParcelInv(i)'
    BY <2>1 DEF LinkInv, ParcelInv
  <2> QED
    BY <2>1, <2>2, <2>3 DEF LinkInv
<1>2. CASE LinkNext
  BY <1>2, ClusterDeadStartStep, TickStep, InstructionStep, DropControlStep DEF LinkNext
<1> QED
  BY <1>1, <1>2

LEMMA LinkInvCorrect == LinkSpec => []LinkInv
BY LinkInvInit, LinkInvStep, PTL DEF LinkSpec

(* The done flag of a channel between two IOPs (IopIopChannel_c) answers   *)
(* the last parcel sent, and no parcel is taken twice, out of order, or    *)
(* after it was lost in a clear, whatever clears and dead starts happen.   *)
THEOREM ParcelsAnsweredOnce == LinkSpec => []ParcelsAnswered
<1>1. LinkInv => ParcelsAnswered
  BY DEF LinkInv, ParcelInv, Increasing, ParcelsAnswered
<1> QED
  BY <1>1, LinkInvCorrect, PTL

(* An IOP that waits for the one it dead started to leave reset (StallIop) *)
(* finds that start pending there and is not waited for itself.            *)
THEOREM NoMutualStall == LinkSpec => []StallEnds
<1>1. LinkInv => StallEnds
  BY DEF LinkInv
<1> QED
  BY <1>1, LinkInvCorrect, PTL

-----------------------------------------------------------------------------
(* Induction over the natural numbers *)

(* A set of natural numbers has a least one. *)
LEMMA LeastNumber ==
  ASSUME NEW T, T \subseteq Nat, T # {} PROVE \E n \in T : \A m \in T : n <= m
<1> DEFINE Below == {0 .. n : n \in T}
<1>1. Below \subseteq FiniteSubsetsOf(Nat) /\ Below # {}
  <2>1. ASSUME NEW n \in T PROVE 0 .. n \in FiniteSubsetsOf(Nat)
    <3>1. IsFiniteSet(0 .. n)
      BY FS_Interval
    <3>2. 0 .. n \subseteq Nat
      OBVIOUS
    <3> QED
      BY <3>1, <3>2 DEF FiniteSubsetsOf
  <2>2. PICK n \in T : TRUE
    OBVIOUS
  <2>3. 0 .. n \in Below
    OBVIOUS
  <2> QED
    BY <2>1, <2>3
<1>2. PICK x \in Below : \A y \in Below : ~(<<y, x>> \in StrictSubsetOrdering(Nat))
  BY <1>1, FS_StrictSubsetOrderingWellFounded, WFMin
<1>3. PICK n \in T : x = 0 .. n
  OBVIOUS
<1>4. ASSUME NEW m \in T, m < n PROVE FALSE
  <2>1. 0 .. m \in Below
    OBVIOUS
  <2>2. 0 .. m \subseteq 0 .. n /\ 0 .. m # 0 .. n
    BY <1>4
  <2>3. <<0 .. m, 0 .. n>> \in StrictSubsetOrdering(Nat)
    BY <2>2 DEF StrictSubsetOrdering
  <2> QED
    BY <1>2, <1>3, <2>1, <2>3
<1> QED
  BY <1>4

(* Induction, for a set in place of a predicate. *)
LEMMA SetInduction ==
  ASSUME NEW S, 0 \in S, \A n \in Nat : n \in S => n + 1 \in S PROVE Nat \subseteq S
<1> SUFFICES ASSUME Nat \ S # {} PROVE FALSE
  OBVIOUS
<1>1. PICK n \in Nat \ S : \A m \in Nat \ S : n <= m
  BY LeastNumber
<1>2. n - 1 \in Nat /\ n - 1 \in S
  BY <1>1
<1> QED
  BY <1>1, <1>2

(* The same up to a bound *)
LEMMA UpTo ==
  ASSUME NEW L \in Nat, NEW S, 0 \in S, \A n \in 0 .. L - 1 : n \in S => n + 1 \in S
  PROVE L \in S
<1> DEFINE U == {n \in Nat : n <= L => n \in S}
<1>1. 0 \in U
  OBVIOUS
<1>2. ASSUME NEW n \in Nat, n \in U PROVE n + 1 \in U
  BY <1>2
<1>3. Nat \subseteq U
  <2> HIDE DEF U
  <2> QED
    BY <1>1, <1>2, SetInduction
<1> QED
  BY <1>3

-----------------------------------------------------------------------------
(* The expander: IopExpChannel_c and the clock *)

(* The clock is the only device with responses. *)
ExpInv ==
  /\ kind \in Exp!Kinds
  /\ pending \in BOOLEAN /\ active \in [Exp!Addresses -> BOOLEAN]
  /\ expEnabled \in [Exp!Addresses -> BOOLEAN]
  /\ response \in Nat /\ timer \in Nat
  /\ kind # "clock" => response = 0
  /\ Exp!InterruptsAnnounced

(* The devices of the expander have the addresses 0 to 2. *)
LEMMA PresentDevices == Exp!Present \subseteq 0 .. 2 /\ 0 \in Exp!Present /\ Exp!Addresses = 0 .. 2
BY DEF Exp!Present, Exp!Addresses, Exp!PrinterChannel, Exp!RequestChannel

(* The constructor of the expander establishes the invariant. *)
LEMMA ExpanderInit == Exp!Init => ExpInv
<1> SUFFICES ASSUME Exp!Init PROVE ExpInv
  OBVIOUS
<1>1. \A x \in Exp!Present : active[x] = FALSE
  BY PresentDevices DEF Exp!Init
<1> QED
  BY <1>1 DEF Exp!Init, ExpInv, Exp!InterruptsAnnounced

(* What IntStatusChanged answers. *)
Announcing ==
  expEnabled' = expEnabled /\ pending' = (\E x \in Exp!Present : active'[x] /\ expEnabled[x])

(* So does everything that does not touch the interrupts. *)
LEMMA ExpanderSame ==
  ASSUME ExpInv, UNCHANGED <<kind, pending, active, expEnabled, response, timer>>
  PROVE ExpInv'
BY DEF ExpInv, Exp!InterruptsAnnounced, Exp!Present

(* A step that ends with IntStatusChanged keeps the invariant if it leaves *)
(* the rest of a clock response announced.                                 *)
LEMMA ExpanderSet ==
  ASSUME ExpInv, Announcing, active' \in [0 .. 2 -> BOOLEAN], kind' = kind,
         response' \in Nat, timer' \in Nat, kind # "clock" => response' = 0,
         response' > 0 => timer' > 0 \/ active'[0]
  PROVE ExpInv'
<1>1. active' \in [Exp!Addresses -> BOOLEAN] /\ expEnabled' \in [Exp!Addresses -> BOOLEAN]
  BY PresentDevices DEF ExpInv, Announcing
<1>2. Exp!Present' = Exp!Present
  BY DEF Exp!Present
<1>3. Exp!InterruptsAnnounced'
  BY <1>2 DEF Exp!InterruptsAnnounced, Exp!ResponseChannel, Announcing
<1>4. pending' \in BOOLEAN
  BY DEF Announcing
<1> QED
  BY <1>1, <1>3, <1>4 DEF ExpInv

(* Every function of the channel, every pulse to a device and every tick   *)
(* of the clock keeps the invariant.                                       *)
LEMMA ExpanderStep ==
  ASSUME Lengths \subseteq Nat, ExpInv, [Exp!Next]_(Exp!vars)
  PROVE ExpInv'
<1> USE DEF Exp!ResponseChannel, Exp!RequestChannel, Exp!PrinterChannel
<1>a. /\ active \in [0 .. 2 -> BOOLEAN] /\ response \in Nat /\ timer \in Nat
      /\ kind # "clock" => response = 0
      /\ response > 0 => active[0] \/ timer > 0
  BY DEF ExpInv, Exp!InterruptsAnnounced, Exp!Addresses
<1>1. CASE \/ Exp!ClearChannel \/ \E o \in {"readA", "other"} : Exp!SelectOperation(o)
           \/ \E x \in Exp!Addresses : Exp!SelectChannel(x)
           \/ \E own, devices \in BOOLEAN : Exp!EnableInterrupts(own, devices)
           \/ \E c \in Exp!PrinterCommands : Exp!SetPrinterRegA(c)
           \/ Exp!PulseDisk \/ Exp!NoEffect \/ Exp!MasterClear \/ UNCHANGED Exp!vars
  BY <1>1, ExpanderSame
     DEF Exp!ClearChannel, Exp!SelectOperation, Exp!SelectChannel, Exp!EnableInterrupts,
         Exp!SetPrinterRegA, Exp!PulseDisk, Exp!NoEffect, Exp!MasterClear, Exp!vars,
         Exp!channelVars, Exp!interruptVars, Exp!deviceVars
<1>2. CASE \E mask \in SUBSET {0, 1} : Exp!SetInterruptMask(mask)
  <2>1. /\ kind' = kind /\ active' = active /\ response' = response /\ timer' = timer
        /\ expEnabled' \in [Exp!Addresses -> BOOLEAN]
        /\ pending' = (\E x \in Exp!Present : active[x] /\ expEnabled'[x])
    BY <1>2 DEF Exp!SetInterruptMask, Exp!IntStatusChanged, Exp!deviceVars
  <2> QED
    BY <2>1 DEF ExpInv, Exp!InterruptsAnnounced, Exp!Present
<1>3. CASE Exp!ReadResponse
  <2>1. /\ Announcing /\ active' = [active EXCEPT ![0] = TRUE]
        /\ kind' = kind /\ response' = response - 1 /\ response > 0
        /\ timer' = timer /\ kind = "clock"
    BY <1>3 DEF Exp!ReadResponse, Exp!SetIntActive, Exp!IntStatusChanged, Announcing
  <2>2. active'[0]
    BY <1>a, <2>1
  <2> QED
    BY <1>a, <2>1, <2>2, ExpanderSet
<1>4. CASE \E o \in Exp!Orders[kind] : Exp!SetRegA(o)
  <2>1. kind' = kind /\ response' = response /\ timer' = timer
    BY <1>4 DEF Exp!SetRegA
  <2>2. CASE kind = "clock"
    <3>1. Announcing /\ active' = [active EXCEPT ![1] = FALSE]
      BY <1>4, <2>2 DEF Exp!SetRegA, Exp!Selected, Exp!SetIntActive, Exp!IntStatusChanged,
                        Announcing
    <3>2. active'[0] = active[0]
      BY <1>a, <3>1
    <3> QED
      BY <1>a, <2>1, <3>1, <3>2, ExpanderSet
  <2>3. CASE kind # "clock"
    BY <1>4, <2>1, <2>3, ExpanderSame DEF Exp!SetRegA, Exp!interruptVars
  <2> QED
    BY <2>2, <2>3
<1>5. CASE Exp!SetRegC
  <2>1. kind' = kind /\ response' = response /\ timer' = timer
    BY <1>5 DEF Exp!SetRegC
  <2>2. CASE channel = 2
    <3>1. Announcing /\ active' = [active EXCEPT ![2] = TRUE]
      BY <1>5, <2>2 DEF Exp!SetRegC, Exp!SetIntActive, Exp!IntStatusChanged, Announcing
    <3>2. active'[0] = active[0]
      BY <1>a, <3>1
    <3> QED
      BY <1>a, <2>1, <3>1, <3>2, ExpanderSet
  <2>3. CASE channel # 2
    BY <1>5, <2>1, <2>3, ExpanderSame DEF Exp!SetRegC, Exp!interruptVars
  <2> QED
    BY <2>2, <2>3
<1>6. CASE Exp!ClearClock
  <2>1. /\ kind' = kind /\ response' = response /\ kind = "clock" /\ channel \in {0, 1}
        /\ timer' = (IF channel = 0 /\ response > 0 THEN 1 ELSE timer)
        /\ Announcing /\ active' = [active EXCEPT ![channel] = FALSE]
    BY <1>6 DEF Exp!ClearClock, Exp!SetIntActive, Exp!IntStatusChanged, Announcing
  <2>2. timer' \in Nat /\ (response > 0 => timer' > 0 \/ active'[0])
    <3>1. CASE channel = 0
      BY <1>a, <2>1, <3>1
    <3>2. CASE channel = 1
      <4>1. active'[0] = active[0]
        BY <1>a, <2>1, <3>2
      <4> QED
        BY <1>a, <2>1, <3>2, <4>1
    <3> QED
      BY <2>1, <3>1, <3>2
  <2>3. channel \in 0 .. 2
    BY <2>1
  <2> QED
    BY <1>a, <2>1, <2>2, <2>3, ExpanderSet
<1>7. CASE Exp!ClearDevice
  <2>1. /\ kind' = kind /\ response' = response /\ timer' = timer
        /\ Announcing /\ active' = [active EXCEPT ![channel] = FALSE]
        /\ channel = 2 \/ kind # "clock"
        /\ channel \in Exp!Present
    BY <1>7 DEF Exp!ClearDevice, Exp!Selected, Exp!SetIntActive, Exp!IntStatusChanged, Announcing
  <2>2. channel \in 0 .. 2
    BY <2>1 DEF Exp!Present
  <2>3. response > 0 => timer' > 0 \/ active'[0]
    BY <1>a, <2>1, <2>2
  <2> QED
    BY <1>a, <2>1, <2>2, <2>3, ExpanderSet
<1>8. CASE Exp!StartClock
  <2>1. /\ kind' = kind /\ kind = "clock" /\ channel \in {0, 1}
        /\ Announcing /\ active' = [active EXCEPT ![channel] = TRUE]
        /\ (response' \in Lengths /\ timer' = 1) \/ (response' = response /\ timer' = timer)
    BY <1>8 DEF Exp!StartClock, Exp!SetIntActive, Exp!IntStatusChanged, Announcing
  <2>2. channel \in 0 .. 2
    BY <2>1
  <2>3. active[0] => active'[0]
    BY <1>a, <2>1, <2>2
  <2>4. response' \in Nat /\ timer' \in Nat /\ (response' > 0 => timer' > 0 \/ active'[0])
    <3>1. CASE response' \in Lengths /\ timer' = 1
      BY <3>1
    <3>2. CASE response' = response /\ timer' = timer
      BY <1>a, <2>3, <3>2
    <3> QED
      BY <2>1, <3>1, <3>2
  <2> QED
    BY <1>a, <2>1, <2>2, <2>4, ExpanderSet
<1>9. CASE Exp!StartDisk
  <2>1. kind' = kind /\ response' = response /\ timer' = timer
    BY <1>9 DEF Exp!StartDisk
  <2>2. CASE regA = "transfer"
    <3>1. Announcing /\ active' = [active EXCEPT ![0] = TRUE]
      BY <1>9, <2>2 DEF Exp!StartDisk, Exp!SetIntActive, Exp!IntStatusChanged, Announcing
    <3>2. active'[0]
      BY <1>a, <3>1
    <3> QED
      BY <1>a, <2>1, <3>1, <3>2, ExpanderSet
  <2>3. CASE regA # "transfer"
    BY <1>9, <2>1, <2>3, ExpanderSame DEF Exp!StartDisk, Exp!interruptVars
  <2> QED
    BY <2>2, <2>3
<1>10. CASE Exp!PulsePrinter
  <2>1. kind' = kind /\ response' = response /\ timer' = timer
    BY <1>10 DEF Exp!PulsePrinter, Exp!deviceVars
  <2>2. \/ UNCHANGED Exp!interruptVars
        \/ /\ Announcing
           /\ active' = [active EXCEPT ![2] = FALSE] \/ active' = [active EXCEPT ![2] = TRUE]
    BY <1>10 DEF Exp!PulsePrinter, Exp!SetIntActive, Exp!IntStatusChanged, Announcing
  <2>3. CASE UNCHANGED Exp!interruptVars
    BY <2>1, <2>3, ExpanderSame DEF Exp!interruptVars
  <2>4. ASSUME Announcing,
               active' = [active EXCEPT ![2] = FALSE] \/ active' = [active EXCEPT ![2] = TRUE]
        PROVE ExpInv'
    <3>1. active'[0] = active[0]
      BY <1>a, <2>4
    <3> QED
      BY <1>a, <2>1, <2>4, <3>1, ExpanderSet
  <2> QED
    BY <2>2, <2>3, <2>4
<1>11. CASE Exp!Tick
  <2>1. kind' = kind /\ response' = response
    BY <1>11 DEF Exp!Tick
  <2>2. CASE timer + 1 > ResponseTimeout
    <3>1. Announcing /\ active' = [active EXCEPT ![0] = TRUE] /\ timer' = 0
      BY <1>11, <2>2 DEF Exp!Tick, Exp!SetIntActive, Exp!IntStatusChanged, Announcing
    <3>2. active'[0]
      BY <1>a, <3>1
    <3> QED
      BY <1>a, <2>1, <3>1, <3>2, ExpanderSet
  <2>3. CASE ~(timer + 1 > ResponseTimeout)
    <3>1. timer' = timer + 1 /\ UNCHANGED Exp!interruptVars
      BY <1>11, <2>3 DEF Exp!Tick
    <3> QED
      BY <1>a, <2>1, <3>1 DEF ExpInv, Exp!InterruptsAnnounced, Exp!interruptVars, Exp!Present
  <2> QED
    BY <2>2, <2>3
<1> QED
  BY <1>1, <1>2, <1>3, <1>4, <1>5, <1>6, <1>7, <1>8, <1>9, <1>10, <1>11 DEF Exp!Next

(* IopExpChannel_c::IntStatusChanged is called wherever a device or the    *)
(* mask changes: the interrupt the channel remembers is always that of its *)
(* devices, and a clock response of which words are left is announced by   *)
(* an interrupt or by the timer.                                           *)
THEOREM ExpanderAnnounces ==
  ASSUME Lengths \subseteq Nat
  PROVE Exp!Spec => []Exp!InterruptsAnnounced
<1>1. ExpInv /\ [Exp!Next]_(Exp!vars) => ExpInv'
  BY ExpanderStep
<1>2. ExpInv => Exp!InterruptsAnnounced
  BY DEF ExpInv
<1> QED
  BY <1>1, <1>2, ExpanderInit, PTL DEF Exp!Spec

-----------------------------------------------------------------------------
(* The disk *)

(* IopDisk_c is configured with a disk that has something on it. *)
Geometry == Tracks \in Nat \ {0} /\ Heads \in Nat \ {0} /\ Sectors \in Nat \ {0}

(* The sectors of the image *)
Size == Tracks * Heads * Sectors

(* What is at the place of a sector is what was last written there, unless *)
(* a format has overwritten it, which leaves unknown what it holds.        *)
DiskInv ==
  /\ image \in [0 .. Size - 1 -> Int] /\ last \in [Disk!Address -> Int]
  /\ track \in 0 .. Tracks - 1 /\ diskHead \in 0 .. Heads - 1 /\ changes \in Nat
  /\ fetched \in [at : Disk!Address, got : Int]
  /\ \A a \in Disk!Address : last[a] \in {Disk!Any, image[Disk!Offset(a[1], a[2], a[3])]}
  /\ Disk!DiskReadsBack

(* A number has one representation with a last digit below n. *)
LEMMA Digits ==
  ASSUME NEW n \in Nat, NEW a \in Nat, NEW b \in Nat, NEW x \in 0 .. n - 1, NEW y \in 0 .. n - 1,
         a * n + x = b * n + y
  PROVE a = b /\ x = y
<1>1. ASSUME NEW c \in Nat, NEW d \in Nat, NEW u \in 0 .. n - 1, NEW v \in 0 .. n - 1, c < d
      PROVE c * n + u < d * n + v
  <2>1. PICK k \in Nat : d = c + 1 + k
    <3>1. d - c - 1 \in Nat /\ d = c + 1 + (d - c - 1)
      BY <1>1
    <3> QED
      BY <3>1
  <2>2. d * n = c * n + n + k * n
    BY <2>1
  <2>3. k * n \in Nat /\ c * n \in Nat
    OBVIOUS
  <2> QED
    BY <2>2, <2>3
<1>2. ~(a < b) /\ ~(b < a)
  BY <1>1
<1>3. a = b
  BY <1>2
<1> QED
  BY <1>3

(* A number of two digits is below the product of the bases. *)
LEMMA Range2 ==
  ASSUME NEW m \in Nat, NEW n \in Nat, NEW a \in 0 .. m - 1, NEW x \in 0 .. n - 1
  PROVE a * n + x \in 0 .. m * n - 1
<1>1. PICK k \in Nat : m = a + 1 + k
  <2>1. m - a - 1 \in Nat /\ m = a + 1 + (m - a - 1)
    OBVIOUS
  <2> QED
    BY <2>1
<1>2. m * n = a * n + n + k * n
  BY <1>1
<1>3. k * n \in Nat /\ a * n \in Nat
  OBVIOUS
<1> QED
  BY <1>2, <1>3

(* Both layouts of a sector on the disk, the one of reads and writes and   *)
(* the one FormatSector computes, stay inside the image and inside the     *)
(* track.                                                                  *)
LEMMA Places ==
  ASSUME Geometry, NEW t \in 0 .. Tracks - 1, NEW h \in 0 .. Heads - 1, NEW s \in 0 .. Sectors - 1
  PROVE /\ Disk!Offset(t, h, s) = t * (Heads * Sectors) + (h * Sectors + s)
        /\ h * Sectors + s \in 0 .. Heads * Sectors - 1
        /\ Disk!Offset(t, h, s) \in 0 .. Size - 1
        /\ Disk!FormatOffset(t, h, s) = t * (Heads * Sectors) + (s * Heads + h)
        /\ s * Heads + h \in 0 .. Heads * Sectors - 1
        /\ Disk!FormatOffset(t, h, s) \in 0 .. Size - 1
<1> t \in Nat /\ h \in Nat /\ s \in Nat /\ Tracks \in Nat /\ Heads \in Nat /\ Sectors \in Nat
  BY DEF Geometry
<1>1. Disk!Offset(t, h, s) = t * (Heads * Sectors) + (h * Sectors + s)
  BY DEF Disk!Offset
<1>2. h * Sectors + s \in 0 .. Heads * Sectors - 1
  BY Range2
<1>3. Disk!FormatOffset(t, h, s) = t * (Heads * Sectors) + (s * Heads + h)
  BY DEF Disk!FormatOffset
<1>4. s * Heads + h \in 0 .. Sectors * Heads - 1 /\ Sectors * Heads = Heads * Sectors
  BY Range2
<1>5. Size = Tracks * (Heads * Sectors)
  BY DEF Size
<1>6. Heads * Sectors \in Nat
  OBVIOUS
<1>7. ASSUME NEW x \in 0 .. Heads * Sectors - 1 PROVE t * (Heads * Sectors) + x \in 0 .. Size - 1
  <2> DEFINE n == Heads * Sectors
  <2>1. n \in Nat
    BY <1>6
  <2>2. x \in 0 .. n - 1
    OBVIOUS
  <2> HIDE DEF n
  <2>3. t * n + x \in 0 .. Tracks * n - 1
    BY <2>1, <2>2, Range2
  <2> QED
    BY <2>3, <1>5 DEF n
<1> QED
  BY <1>1, <1>2, <1>3, <1>4, <1>7

(* Different sectors have different places, and a format of one track      *)
(* never touches another.                                                  *)
LEMMA PlacesDiffer ==
  ASSUME Geometry, NEW t \in 0 .. Tracks - 1, NEW h \in 0 .. Heads - 1, NEW s \in 0 .. Sectors - 1,
         NEW t2 \in 0 .. Tracks - 1, NEW h2 \in 0 .. Heads - 1, NEW s2 \in 0 .. Sectors - 1
  PROVE /\ Disk!Offset(t, h, s) = Disk!Offset(t2, h2, s2) => t = t2 /\ h = h2 /\ s = s2
        /\ Disk!Offset(t, h, s) = Disk!FormatOffset(t2, h2, s2) => t = t2
<1> t \in Nat /\ h \in Nat /\ s \in Nat /\ t2 \in Nat /\ h2 \in Nat /\ s2 \in Nat
    /\ Tracks \in Nat /\ Heads \in Nat /\ Sectors \in Nat
  BY DEF Geometry
<1> DEFINE n == Heads * Sectors  x == h * Sectors + s  y == h2 * Sectors + s2  z == s2 * Heads + h2
<1>1. n \in Nat
  OBVIOUS
<1>2. /\ Disk!Offset(t, h, s) = t * n + x /\ x \in 0 .. n - 1
      /\ Disk!Offset(t2, h2, s2) = t2 * n + y /\ y \in 0 .. n - 1
      /\ Disk!FormatOffset(t2, h2, s2) = t2 * n + z /\ z \in 0 .. n - 1
  BY Places
<1>3. x = y => h = h2 /\ s = s2
  BY Digits
<1> HIDE DEF n, x, y, z
<1>4. t * n + x = t2 * n + y => t = t2 /\ x = y
  BY <1>1, <1>2, Digits
<1>5. t * n + x = t2 * n + z => t = t2
  BY <1>1, <1>2, Digits
<1> QED
  BY <1>2, <1>3, <1>4, <1>5

(* A function changed at one argument is still a function. *)
LEMMA Updated ==
  ASSUME NEW A, NEW B, NEW f \in [A -> B], NEW x, NEW y \in B
  PROVE [f EXCEPT ![x] = y] \in [A -> B]
OBVIOUS

(* The mounted image agrees with the history, of which there is none. *)
LEMMA DiskInit == Geometry /\ Disk!Init => DiskInv
<1> SUFFICES ASSUME Geometry, Disk!Init PROVE DiskInv
  OBVIOUS
<1>1. <<0, 0, 0>> \in Disk!Address /\ 0 \in 0 .. Tracks - 1 /\ 0 \in 0 .. Heads - 1
  BY DEF Geometry, Disk!Address
<1>2. fetched \in [at : Disk!Address, got : Int]
  BY <1>1 DEF Disk!Init, Disk!Nothing, Disk!Any
<1>3. image \in [0 .. Size - 1 -> Int] /\ last \in [Disk!Address -> Int]
  BY DEF Disk!Init, Size, Disk!Any
<1>4. \A a \in Disk!Address : last[a] = Disk!Any
  BY DEF Disk!Init
<1> QED
  BY <1>1, <1>2, <1>3, <1>4 DEF Disk!Init, DiskInv, Disk!DiskReadsBack

(* Every function of the disk channel keeps image and history in           *)
(* agreement.                                                              *)
LEMMA DiskStep ==
  ASSUME Geometry, DiskInv, [Disk!Next]_(Disk!vars)
  PROVE DiskInv'
<1> DEFINE Place(a) == Disk!Offset(a[1], a[2], a[3])
<1>a. /\ image \in [0 .. Size - 1 -> Int] /\ last \in [Disk!Address -> Int]
      /\ track \in 0 .. Tracks - 1 /\ diskHead \in 0 .. Heads - 1 /\ changes \in Nat
      /\ fetched \in [at : Disk!Address, got : Int]
      /\ \A a \in Disk!Address : last[a] \in {Disk!Any, image[Place(a)]}
  BY DEF DiskInv
<1>b. \A a \in Disk!Address : /\ a[1] \in 0 .. Tracks - 1 /\ a[2] \in 0 .. Heads - 1
                              /\ a[3] \in 0 .. Sectors - 1 /\ a = <<a[1], a[2], a[3]>>
  BY DEF Disk!Address
<1>c. \A a \in Disk!Address : Place(a) \in 0 .. Size - 1
  BY <1>b, Places
<1>f. \A a, b \in Disk!Address : Place(a) = Place(b) => a = b
  BY <1>b, PlacesDiffer
<1>g. \A a \in Disk!Address, s \in 0 .. Sectors - 1 :
        a[1] # track => Place(a) # Disk!FormatOffset(track, diskHead, s)
  <2> SUFFICES ASSUME NEW a \in Disk!Address, NEW s \in 0 .. Sectors - 1,
                      Place(a) = Disk!FormatOffset(track, diskHead, s)
               PROVE a[1] = track
    OBVIOUS
  <2>1. PICK t \in 0 .. Tracks - 1, h \in 0 .. Heads - 1, r \in 0 .. Sectors - 1 :
          t = a[1] /\ h = a[2] /\ r = a[3]
    BY <1>b
  <2>2. Disk!Offset(t, h, r) = Disk!FormatOffset(track, diskHead, s)
    BY <2>1
  <2>3. track \in 0 .. Tracks - 1 /\ diskHead \in 0 .. Heads - 1
    BY <1>a
  <2>4. t = track
    BY <2>2, <2>3, PlacesDiffer
  <2> QED
    BY <2>1, <2>4
<1>d. 0 \in 0 .. Tracks - 1 /\ 0 \in 0 .. Heads - 1
  BY DEF Geometry
<1>e. Disk!Nothing \in [at : Disk!Address, got : Int]
  BY DEF Geometry, Disk!Nothing, Disk!Address, Disk!Any
<1>1. CASE /\ UNCHANGED <<image, last, changes, fetched>>
           /\ track' \in 0 .. Tracks - 1 /\ diskHead' \in 0 .. Heads - 1
  BY <1>1 DEF DiskInv, Disk!DiskReadsBack
<1>2. ASSUME NEW s \in 0 .. Sectors - 1, Disk!ReadSector(s) PROVE DiskInv'
  <2> DEFINE at == <<track, diskHead, s>>
  <2>1. at \in Disk!Address /\ Place(at) = Disk!Offset(track, diskHead, s)
    BY <1>a DEF Disk!Address
  <2> HIDE DEF Place
  <2>2. UNCHANGED <<image, last, changes, track, diskHead>>
    BY <1>2 DEF Disk!ReadSector, Disk!Stays
  <2>3. fetched' = Disk!Nothing \/ fetched' = [at |-> at, got |-> image[Place(at)]]
    BY <1>2, <2>1 DEF Disk!ReadSector
  <2>4. CASE fetched' = Disk!Nothing
    BY <1>e, <2>2, <2>4 DEF DiskInv, Disk!DiskReadsBack
  <2>5. CASE fetched' = [at |-> at, got |-> image[Place(at)]]
    <3>1. image[Place(at)] \in Int /\ last[at] \in {Disk!Any, image[Place(at)]}
      BY <1>a, <1>c, <2>1
    <3>2. /\ fetched'.at = at /\ fetched'.got = image[Place(at)]
          /\ fetched' \in [at : Disk!Address, got : Int]
      BY <2>1, <2>5, <3>1
    <3>3. Disk!DiskReadsBack'
      BY <2>2, <3>1, <3>2 DEF Disk!DiskReadsBack
    <3> QED
      BY <1>a, <2>2, <3>2, <3>3 DEF DiskInv
  <2> QED
    BY <2>3, <2>4, <2>5
<1>3. ASSUME NEW s \in 0 .. Sectors - 1, Disk!WriteSector(s) PROVE DiskInv'
  <2> DEFINE at == <<track, diskHead, s>>
  <2>1. at \in Disk!Address /\ Place(at) = Disk!Offset(track, diskHead, s)
    BY <1>a DEF Disk!Address
  <2> HIDE DEF Place, at
  <2>2. changes' = changes + 1 /\ fetched' = Disk!Nothing /\ UNCHANGED <<track, diskHead>>
    BY <1>3 DEF Disk!WriteSector, Disk!Change, Disk!Stays
  <2>3. changes' \in Nat
    BY <1>a, <2>2
  <2>4. CASE UNCHANGED <<image, last>>
    BY <1>e, <2>2, <2>3, <2>4 DEF DiskInv, Disk!DiskReadsBack
  <2>5. CASE /\ image' = [image EXCEPT ![Place(at)] = changes']
             /\ last' = [last EXCEPT ![at] = changes']
    <3>1. image' \in [0 .. Size - 1 -> Int] /\ last' \in [Disk!Address -> Int]
      <4>1. changes' \in Int
        BY <2>3
      <4>2. image' \in [0 .. Size - 1 -> Int]
        BY <1>a, <2>5, <4>1, Updated, Zenon
      <4>3. last' \in [Disk!Address -> Int]
        BY <1>a, <2>5, <4>1, Updated, Zenon
      <4> QED
        BY <4>2, <4>3
    <3>2. ASSUME NEW a \in Disk!Address PROVE last'[a] \in {Disk!Any, image'[Place(a)]}
      <4>1. CASE a = at
        BY <1>a, <1>c, <2>1, <2>5, <4>1
      <4>2. CASE a # at
        <5>1. Place(a) # Place(at)
          BY <1>f, <2>1, <4>2
        <5> QED
          BY <1>a, <1>c, <2>1, <2>5, <4>2, <5>1
      <4> QED
        BY <4>1, <4>2
    <3> QED
      BY <1>a, <1>e, <2>2, <2>3, <3>1, <3>2 DEF DiskInv, Disk!DiskReadsBack, Place
  <2> QED
    BY <1>3, <2>1, <2>4, <2>5 DEF Disk!WriteSector, at
<1>4. ASSUME NEW s \in 0 .. Sectors - 1, Disk!FormatSector(s) PROVE DiskInv'
  <2> DEFINE p == Disk!FormatOffset(track, diskHead, s)
  <2> HIDE DEF Place
  <2>1. changes' = changes + 1 /\ fetched' = Disk!Nothing /\ UNCHANGED <<track, diskHead>>
    BY <1>4 DEF Disk!FormatSector, Disk!Change, Disk!Stays
  <2>2. changes' \in Nat
    BY <1>a, <2>1
  <2>3. CASE UNCHANGED <<image, last>>
    BY <1>e, <2>1, <2>2, <2>3 DEF DiskInv, Disk!DiskReadsBack
  <2>4. CASE /\ image' = [image EXCEPT ![p] = 0]
             /\ last' = [a \in Disk!Address |-> IF a[1] = track THEN Disk!Any ELSE last[a]]
    <3>1. image' \in [0 .. Size - 1 -> Int] /\ last' \in [Disk!Address -> Int]
      <4>1. image' \in [0 .. Size - 1 -> Int]
        <5>1. 0 \in Int
          OBVIOUS
        <5> QED
          BY <1>a, <2>4, <5>1, Updated, Zenon
      <4>2. last' \in [Disk!Address -> Int]
        BY <1>a, <2>4 DEF Disk!Any
      <4> QED
        BY <4>1, <4>2
    <3> HIDE DEF p
    <3>2. ASSUME NEW a \in Disk!Address PROVE last'[a] \in {Disk!Any, image'[Place(a)]}
      <4>1. CASE a[1] = track
        BY <2>4, <4>1
      <4>2. CASE a[1] # track
        <5>1. Place(a) # p
          BY <1>g, <4>2 DEF p
        <5>2. image'[Place(a)] = image[Place(a)] /\ last'[a] = last[a]
          BY <1>a, <1>c, <2>4, <4>2, <5>1
        <5> QED
          BY <1>a, <5>2
      <4> QED
        BY <4>1, <4>2
    <3> QED
      BY <1>a, <1>e, <2>1, <2>2, <3>1, <3>2 DEF DiskInv, Disk!DiskReadsBack, Place
  <2> QED
    BY <1>4, <2>3, <2>4 DEF Disk!FormatSector
<1>5. CASE \/ Disk!ClearChannel \/ Disk!ReleaseUnit \/ Disk!ReserveUnit \/ Disk!ReturnToZero
           \/ Disk!ReadRegister \/ Disk!NoMode \/ Disk!EnterAddress \/ Disk!MasterClear
           \/ \E h \in 0 .. Heads - 1 : Disk!SelectHead(h)
           \/ \E t \in 0 .. Tracks - 1 : Disk!SelectCylinder(t)
           \/ \E s \in 0 .. Sectors - 1 : Disk!Refuse(s)
           \/ UNCHANGED Disk!vars
  <2>1. /\ UNCHANGED <<image, last, changes, fetched>>
        /\ track' \in {track, 0} \/ track' \in 0 .. Tracks - 1
        /\ diskHead' \in {diskHead, 0} \/ diskHead' \in 0 .. Heads - 1
    BY <1>5 DEF Disk!ClearChannel, Disk!ReleaseUnit, Disk!ReserveUnit, Disk!ReturnToZero,
         Disk!ReadRegister, Disk!NoMode, Disk!EnterAddress, Disk!MasterClear, Disk!SelectHead,
         Disk!SelectCylinder, Disk!Refuse, Disk!SelectMode, Disk!vars, Disk!position, Disk!history
  <2> QED
    BY <1>1, <1>a, <1>d, <2>1
<1> QED
  BY <1>2, <1>3, <1>4, <1>5 DEF Disk!Next, Disk!DoIo

(* IopDisk_c computes the same place for a sector when it writes and when  *)
(* it reads, and no two sectors share one: what ReadSector fetches is what *)
(* was last written there, for every geometry.                             *)
THEOREM DiskKeeps == ASSUME Geometry PROVE Disk!Spec => []Disk!DiskReadsBack
<1>1. Disk!Init => DiskInv
  BY DiskInit
<1>2. DiskInv /\ [Disk!Next]_(Disk!vars) => DiskInv'
  BY DiskStep
<1>3. DiskInv => Disk!DiskReadsBack
  BY DEF DiskInv
<1> QED
  BY <1>1, <1>2, <1>3, PTL DEF Disk!Spec

-----------------------------------------------------------------------------
(* The two tape drives *)

(* The flags of a head describe what is on its tape there. *)
Flags(h) ==
  h.exists =>
    /\ h.valid /\ h.mark => h.pos > 0 /\ h.items[h.pos] = 0
    /\ ~h.valid /\ h.mark => h.pos < Len(h.items) /\ h.items[h.pos + 1] = 0
    /\ Mt!InRecord(h) => h.pos < Len(h.items) /\ h.into \in 1 .. h.items[h.pos + 1] - 1

(* A head with its fields.  What PokedTapFile_c keeps (file, ofs, sizes)   *)
(* does not matter here.                                                   *)
HeadOK(h) ==
  /\ h = [items |-> h.items, exists |-> h.exists, pos |-> h.pos, into |-> h.into,
          valid |-> h.valid, mark |-> h.mark, end |-> h.end, file |-> h.file, ofs |-> h.ofs,
          sizes |-> h.sizes]
  /\ h.items \in Seq(Nat) /\ h.pos \in 0 .. Len(h.items) /\ h.into \in Nat
  /\ h.exists \in BOOLEAN /\ h.valid \in BOOLEAN /\ h.mark \in BOOLEAN
  /\ Flags(h)

(* The head after an operation that changes these members. *)
Moved(h, p, n, v, m, e) ==
  [items |-> h.items, exists |-> h.exists, pos |-> p, into |-> n, valid |-> v, mark |-> m,
   end |-> e, file |-> h.file, ofs |-> h.ofs, sizes |-> h.sizes]

(* When the moved head is well formed. *)
LEMMA MovedOK ==
  ASSUME NEW h, HeadOK(h), NEW p \in 0 .. Len(h.items), NEW n \in Nat, NEW v \in BOOLEAN,
         NEW m \in BOOLEAN, NEW e,
         h.exists /\ v /\ m => p > 0 /\ h.items[p] = 0,
         h.exists /\ ~v /\ m => p < Len(h.items) /\ h.items[p + 1] = 0,
         h.exists /\ v /\ ~m => p < Len(h.items) /\ n \in 1 .. h.items[p + 1] - 1
  PROVE HeadOK(Moved(h, p, n, v, m, e))
BY DEF HeadOK, Flags, Moved, Mt!InRecord

(* What SeekToNextRecord does: nothing without an image, else it leaves    *)
(* the record the head is in, meets the end of the tape or passes an item. *)
LEMMA NextMoves ==
  ASSUME NEW h, HeadOK(h), NEW r, r = Mt!SeekToNextRecord(h)
  PROVE /\ HeadOK(r)
        /\ \/ ~h.exists /\ r = h
           \/ /\ h.exists /\ Mt!InRecord(h)
              /\ r = Moved(h, h.pos + 1, 0, FALSE, h.mark, h.end)
           \/ /\ h.exists /\ ~Mt!InRecord(h) /\ h.pos = Len(h.items)
              /\ r = Moved(h, h.pos, h.into, h.valid, h.mark, TRUE)
           \/ /\ h.exists /\ ~Mt!InRecord(h) /\ h.pos # Len(h.items)
              /\ \E e \in BOOLEAN : /\ e <=> h.items[h.pos + 1] = 0
                                    /\ r = Moved(h, h.pos + 1, 0, e, e, h.end)
<1>a. /\ h.items \in Seq(Nat) /\ h.pos \in 0 .. Len(h.items) /\ h.into \in Nat
      /\ Len(h.items) \in Nat
      /\ h.exists \in BOOLEAN /\ h.valid \in BOOLEAN /\ h.mark \in BOOLEAN
  BY DEF HeadOK
<1>1. CASE ~h.exists
  BY <1>1 DEF Mt!SeekToNextRecord
<1>2. CASE h.exists /\ Mt!InRecord(h)
  <2>1. r = Moved(h, h.pos + 1, 0, FALSE, h.mark, h.end)
    BY <1>2 DEF Mt!SeekToNextRecord, Mt!Reset, HeadOK, Moved
  <2>2. h.pos + 1 \in 0 .. Len(h.items) /\ ~h.mark
    BY <1>a, <1>2 DEF HeadOK, Flags, Mt!InRecord
  <2>3. HeadOK(r)
    BY <1>a, <2>1, <2>2, MovedOK
  <2> QED
    BY <1>2, <2>1, <2>3
<1>3. CASE h.exists /\ ~Mt!InRecord(h) /\ h.pos = Len(h.items)
  <2>1. r = Moved(h, h.pos, h.into, h.valid, h.mark, TRUE)
    BY <1>3 DEF Mt!SeekToNextRecord, HeadOK, Moved
  <2>2. HeadOK(r)
    BY <1>3, <2>1 DEF HeadOK, Flags, Mt!InRecord, Moved
  <2> QED
    BY <1>3, <2>1, <2>2
<1>4. CASE h.exists /\ ~Mt!InRecord(h) /\ h.pos # Len(h.items)
  <2>1. PICK e \in BOOLEAN : e <=> h.items[h.pos + 1] = 0
    OBVIOUS
  <2>2. r = Moved(h, h.pos + 1, 0, e, e, h.end)
    BY <1>4, <2>1 DEF Mt!SeekToNextRecord, HeadOK, Moved
  <2>3. h.pos + 1 \in 0 .. Len(h.items) /\ h.pos + 1 > 0
    BY <1>a, <1>4
  <2>4. HeadOK(r)
    BY <1>a, <2>1, <2>2, <2>3, MovedOK
  <2> QED
    BY <1>4, <2>1, <2>2, <2>4
<1> QED
  BY <1>1, <1>2, <1>3, <1>4

(* What SeekToPrevRecord does: nothing without an image, else it stays at  *)
(* the beginning, goes to the front of the record the head is in, or goes  *)
(* back over the mark or record it is behind.                              *)
LEMMA PrevMoves ==
  ASSUME NEW h, HeadOK(h), NEW r, r = Mt!SeekToPrevRecord(h)
  PROVE /\ HeadOK(r)
        /\ \/ ~h.exists /\ r = h
           \/ /\ h.exists /\ (h.pos = 0 \/ Mt!InRecord(h))
              /\ r = Moved(h, h.pos, 0, FALSE, FALSE, FALSE)
           \/ /\ h.exists /\ ~Mt!InRecord(h) /\ h.pos # 0
              /\ \E e \in BOOLEAN : /\ e <=> h.items[h.pos] = 0
                                    /\ r = Moved(h, h.pos - 1, 0, FALSE, e, FALSE)
<1>a. /\ h.items \in Seq(Nat) /\ h.pos \in 0 .. Len(h.items) /\ h.into \in Nat
      /\ Len(h.items) \in Nat
      /\ h.exists \in BOOLEAN /\ h.valid \in BOOLEAN /\ h.mark \in BOOLEAN
  BY DEF HeadOK
<1>1. CASE ~h.exists
  BY <1>1 DEF Mt!SeekToPrevRecord, HeadOK
<1>2. CASE h.exists /\ (h.pos = 0 \/ Mt!InRecord(h))
  <2>1. r = Moved(h, h.pos, 0, FALSE, FALSE, FALSE)
    <3>1. CASE Mt!InRecord(h)
      <4>1. r = Moved(h, h.pos, 0, FALSE, h.mark, FALSE)
        BY <1>2, <3>1 DEF Mt!SeekToPrevRecord, Mt!Reset, HeadOK, Moved, Mt!InRecord
      <4>2. h.mark = FALSE
        BY <1>a, <3>1 DEF Mt!InRecord
      <4> QED
        BY <4>1, <4>2
    <3>2. CASE h.pos = 0 /\ ~Mt!InRecord(h)
      BY <1>2, <3>2 DEF Mt!SeekToPrevRecord, Mt!Reset, HeadOK, Moved, Mt!InRecord
    <3> QED
      BY <1>2, <3>1, <3>2
  <2>2. HeadOK(r)
    BY <1>a, <2>1, MovedOK
  <2> QED
    BY <1>2, <2>1, <2>2
<1>3. CASE h.exists /\ h.pos # 0 /\ ~Mt!InRecord(h)
  <2>1. PICK e \in BOOLEAN : e <=> h.items[h.pos] = 0
    OBVIOUS
  <2>2. r = Moved(h, h.pos - 1, 0, FALSE, e, FALSE)
    <3>1. CASE h.valid
      <4>1. r = Moved(h, h.pos - 1, 0, FALSE, h.mark, FALSE)
        BY <1>3, <3>1 DEF Mt!SeekToPrevRecord, Mt!Reset, HeadOK, Moved, Mt!InRecord
      <4>2. h.mark = e
        BY <1>a, <1>3, <2>1, <3>1 DEF HeadOK, Flags, Mt!InRecord
      <4> QED
        BY <4>1, <4>2
    <3>2. CASE ~h.valid
      BY <1>3, <2>1, <3>2 DEF Mt!SeekToPrevRecord, Mt!Reset, HeadOK, Moved, Mt!InRecord
    <3> QED
      BY <3>1, <3>2
  <2>3. PICK p \in 0 .. Len(h.items) : p = h.pos - 1
    BY <1>a, <1>3
  <2>4. p + 1 = h.pos /\ p < Len(h.items) /\ (e => h.items[p + 1] = 0)
    BY <1>a, <2>1, <2>3
  <2>5. HeadOK(Moved(h, p, 0, FALSE, e, FALSE))
    <3>1. 0 \in Nat /\ FALSE \in BOOLEAN
      OBVIOUS
    <3> QED
      BY <2>1, <2>3, <2>4, <3>1, MovedOK, Zenon
  <2>6. HeadOK(r)
    BY <2>2, <2>3, <2>5
  <2> QED
    BY <1>3, <2>1, <2>2, <2>6
<1> QED
  BY <1>1, <1>2, <1>3

(* What Read does: nothing without an image, else it meets the end of the  *)
(* tape, passes a mark, reads the rest of a record or stops in it.         *)
LEMMA ReadMoves ==
  ASSUME NEW h, HeadOK(h), NEW max \in Nat, h.exists => max > 0, NEW r, r = Mt!Read(h, max),
         NEW at, at = IF Mt!InRecord(h) THEN h.into ELSE 0
  PROVE /\ HeadOK(r)
        /\ \/ ~h.exists /\ r = h
           \/ /\ h.exists /\ ~Mt!InRecord(h) /\ h.pos = Len(h.items)
              /\ r = Moved(h, h.pos, h.into, h.valid, h.mark, TRUE)
           \/ /\ h.exists /\ ~Mt!InRecord(h) /\ h.pos < Len(h.items) /\ h.items[h.pos + 1] = 0
              /\ r = Moved(h, h.pos + 1, 0, TRUE, TRUE, h.end)
           \/ /\ h.exists /\ h.pos < Len(h.items) /\ h.items[h.pos + 1] # 0
              /\ max >= h.items[h.pos + 1] - at
              /\ r = Moved(h, h.pos + 1, 0, FALSE, FALSE, h.end)
           \/ /\ h.exists /\ h.pos < Len(h.items) /\ at + max \in 1 .. h.items[h.pos + 1] - 1
              /\ r = Moved(h, h.pos, at + max, TRUE, FALSE, h.end)
<1>a. /\ h.items \in Seq(Nat) /\ h.pos \in 0 .. Len(h.items) /\ h.into \in Nat
      /\ Len(h.items) \in Nat /\ at \in Nat
      /\ h.exists \in BOOLEAN /\ h.valid \in BOOLEAN /\ h.mark \in BOOLEAN
  BY DEF HeadOK
<1> DEFINE size == h.items[h.pos + 1]
<1>1. CASE ~h.exists
  BY <1>1 DEF Mt!Read
<1>2. CASE h.exists /\ ~Mt!InRecord(h) /\ h.pos = Len(h.items)
  <2>1. r = Moved(h, h.pos, h.into, h.valid, h.mark, TRUE)
    BY <1>2 DEF Mt!Read, HeadOK, Moved
  <2>2. HeadOK(r)
    BY <1>2, <2>1 DEF HeadOK, Flags, Mt!InRecord, Moved
  <2> QED
    BY <1>2, <2>1, <2>2
<1>3. CASE h.exists /\ (Mt!InRecord(h) \/ h.pos # Len(h.items))
  <2>1. h.pos < Len(h.items) /\ size \in Nat
    BY <1>a, <1>3 DEF HeadOK, Flags
  <2>2. PICK p \in 0 .. Len(h.items) : p = h.pos + 1 /\ p > 0
    BY <1>a, <2>1
  <2>3. 0 \in Nat /\ TRUE \in BOOLEAN /\ FALSE \in BOOLEAN
    OBVIOUS
  <2>4. CASE size = 0
    <3>1. r = Moved(h, h.pos + 1, 0, TRUE, TRUE, h.end)
      BY <1>3, <2>4 DEF Mt!Read, HeadOK, Moved
    <3>2. ~Mt!InRecord(h)
      BY <1>3, <2>4 DEF HeadOK, Flags
    <3>3. h.items[p] = 0
      BY <2>2, <2>4
    <3>4. HeadOK(Moved(h, p, 0, TRUE, TRUE, h.end))
      BY <2>2, <2>3, <3>3, MovedOK, Zenon
    <3> QED
      BY <1>3, <2>1, <2>2, <2>4, <3>1, <3>2, <3>4
  <2>5. CASE size # 0 /\ max >= size - at
    <3>1. r = Moved(h, h.pos + 1, 0, FALSE, FALSE, h.end)
      BY <1>3, <2>5 DEF Mt!Read, Mt!Reset, HeadOK, Moved
    <3>2. HeadOK(Moved(h, p, 0, FALSE, FALSE, h.end))
      BY <2>2, <2>3, MovedOK, Zenon
    <3> QED
      BY <1>3, <2>1, <2>2, <2>5, <3>1, <3>2
  <2>6. CASE size # 0 /\ ~(max >= size - at)
    <3>1. r = Moved(h, h.pos, at + max, TRUE, FALSE, h.end)
      BY <1>3, <2>6 DEF Mt!Read, HeadOK, Moved
    <3>2. at + max \in 1 .. size - 1 /\ at + max \in Nat
      <4>1. max > 0
        BY <1>3
      <4> HIDE DEF size
      <4> QED
        BY <1>a, <2>1, <2>6, <4>1, SMTT(20)
    <3>3. PICK n \in Nat : n = at + max
      BY <3>2
    <3>4. h.pos \in 0 .. Len(h.items) /\ h.pos < Len(h.items) /\ n \in 1 .. h.items[h.pos + 1] - 1
      BY <1>a, <2>1, <3>2, <3>3
    <3>5. HeadOK(Moved(h, h.pos, n, TRUE, FALSE, h.end))
      BY <2>3, <3>3, <3>4, MovedOK, Zenon
    <3> QED
      BY <1>3, <2>1, <3>1, <3>2, <3>3, <3>5
  <2> QED
    BY <2>4, <2>5, <2>6
<1> QED
  BY <1>1, <1>2, <1>3

(* A part of a tape is a tape, ... *)
LEMMA Part ==
  ASSUME NEW s \in Seq(Nat), NEW m \in Nat, m > 0, NEW n \in Nat, n <= Len(s)
  PROVE /\ SubSeq(s, m, n) \in Seq(Nat)
        /\ Len(SubSeq(s, m, n)) = IF m <= n THEN n - m + 1 ELSE 0
<1>1. m \in Int /\ n \in Int
  OBVIOUS
<1>2. \A i \in m .. n : s[i] \in Nat
  OBVIOUS
<1> QED
  BY <1>1, <1>2, SubSeqProperties, ZenonT(60)

(* ... and so is one that a record is added to. *)
LEMMA Appended ==
  ASSUME NEW s \in Seq(Nat), NEW n \in Nat, NEW t, t = s \o <<n>>
  PROVE t \in Seq(Nat) /\ Len(t) = Len(s) + 1 /\ t[Len(s) + 1] = n
<1>1. t = Append(s, n)
  BY AppendIsConcat, Zenon
<1>2. /\ Append(s, n) \in Seq(Nat) /\ Len(Append(s, n)) = Len(s) + 1
      /\ Append(s, n)[Len(s) + 1] = n
  BY AppendProperties, Zenon
<1> QED
  BY <1>1, <1>2, Zenon

(* WriteRecordInternal leaves the head behind the record or mark it wrote. *)
LEMMA WriteOK ==
  ASSUME NEW h, HeadOK(h), NEW size \in Nat PROVE HeadOK(Mt!WriteRecordInternal(h, size))
<1> SUFFICES ASSUME NEW r, r = Mt!WriteRecordInternal(h, size) PROVE HeadOK(r)
  OBVIOUS
<1>a. /\ h.items \in Seq(Nat) /\ h.pos \in 0 .. Len(h.items) /\ h.into \in Nat
      /\ Len(h.items) \in Nat
      /\ h.exists \in BOOLEAN /\ h.valid \in BOOLEAN /\ h.mark \in BOOLEAN
  BY DEF HeadOK
<1> DEFINE front == SubSeq(h.items, 1, h.pos)
<1>1. front \in Seq(Nat) /\ Len(front) = h.pos
  <2>1. 1 \in Nat /\ 1 > 0 /\ h.pos \in Nat /\ h.pos <= Len(h.items)
    BY <1>a
  <2>2. front \in Seq(Nat) /\ Len(front) = IF 1 <= h.pos THEN h.pos - 1 + 1 ELSE 0
    BY <1>a, <2>1, Part, Zenon
  <2> HIDE DEF front
  <2> QED
    BY <2>1, <2>2
<1>2. PICK rest \in Seq(Nat) : r.items = front \o <<size>> \o rest
  <2> DEFINE same == ~Mt!InRecord(h) /\ h.pos < Len(h.items) /\ h.items[h.pos + 1] = size
  <2>1. r.items = front \o <<size>>
                    \o (IF same THEN SubSeq(h.items, h.pos + 2, Len(h.items)) ELSE <<>>)
    BY DEF Mt!WriteRecordInternal, Mt!Reset, HeadOK
  <2>2. CASE same
    <3>1. SubSeq(h.items, h.pos + 2, Len(h.items)) \in Seq(Nat)
      <4>1. h.pos + 2 \in Nat /\ h.pos + 2 > 0 /\ Len(h.items) <= Len(h.items)
        BY <1>a
      <4> QED
        BY <1>a, <4>1, Part, Zenon
    <3> QED
      BY <2>1, <2>2, <3>1
  <2>3. CASE ~same
    <3>1. <<>> \in Seq(Nat)
      OBVIOUS
    <3>2. r.items = front \o <<size>> \o <<>>
      BY <2>1, <2>3
    <3> QED
      BY <3>1, <3>2, Zenon
  <2> QED
    BY <2>2, <2>3
<1> HIDE DEF front
<1>3. PICK front2 : front2 = front \o <<size>>
  OBVIOUS
<1>4. front2 \in Seq(Nat) /\ Len(front2) = h.pos + 1 /\ front2[h.pos + 1] = size
  <2>1. /\ front2 \in Seq(Nat) /\ Len(front2) = Len(front) + 1
        /\ front2[Len(front) + 1] = size
    BY <1>1, <1>3, Appended, Zenon
  <2>2. Len(front) + 1 = h.pos + 1
    BY <1>1
  <2> QED
    BY <2>1, <2>2, Zenon
<1>5. /\ r.items \in Seq(Nat) /\ Len(r.items) >= h.pos + 1 /\ r.items[h.pos + 1] = size
  <2>1. r.items = front2 \o rest
    BY <1>2, <1>3
  <2>2. Len(rest) \in Nat
    OBVIOUS
  <2> QED
    BY <1>a, <1>4, <2>1, <2>2, ConcatProperties
<1>6. PICK e \in BOOLEAN : e <=> size = 0
  OBVIOUS
<1>7. r = [items |-> r.items, exists |-> TRUE, pos |-> h.pos + 1, into |-> 0, valid |-> e,
           mark |-> e, end |-> FALSE, file |-> h.file, ofs |-> h.ofs, sizes |-> h.sizes]
  BY <1>6 DEF Mt!WriteRecordInternal, Mt!Reset, HeadOK
<1>8. /\ r.exists = TRUE /\ r.pos = h.pos + 1 /\ r.into = 0 /\ r.valid = e /\ r.mark = e
      /\ r.end = FALSE /\ r.file = h.file /\ r.ofs = h.ofs /\ r.sizes = h.sizes
  BY <1>7
<1>9. r = [items |-> r.items, exists |-> r.exists, pos |-> r.pos, into |-> r.into,
           valid |-> r.valid, mark |-> r.mark, end |-> r.end, file |-> r.file,
           ofs |-> r.ofs, sizes |-> r.sizes]
  BY <1>7, <1>8
<1>10. r.pos \in 0 .. Len(r.items) /\ r.into \in Nat /\ r.pos > 0
  <2>1. h.pos \in Nat /\ Len(r.items) \in Nat /\ h.pos + 1 <= Len(r.items)
    BY <1>a, <1>5
  <2>2. h.pos + 1 \in 0 .. Len(r.items) /\ 0 \in Nat /\ h.pos + 1 > 0
    BY <2>1
  <2> QED
    BY <1>8, <2>2
<1>11. Flags(r)
  BY <1>5, <1>6, <1>8, <1>10 DEF Flags, Mt!InRecord
<1> QED
  BY <1>5, <1>8, <1>9, <1>10, <1>11 DEF HeadOK

(* A head with the file index and the offset that PokedTapFile_c gives it *)
Placed(r, h, f, o) ==
  /\ r.items = h.items /\ r.exists = h.exists /\ r.pos = h.pos /\ r.into = h.into
  /\ r.valid = h.valid /\ r.mark = h.mark /\ r.end = h.end /\ r.sizes = h.sizes
  /\ r.file = f /\ r.ofs = o

(* The file index and the offset do not matter to the flags. *)
LEMMA PlacedOK ==
  ASSUME NEW h, HeadOK(h), NEW r, NEW f, NEW o, r = [h EXCEPT !.file = f, !.ofs = o]
  PROVE HeadOK(r) /\ Placed(r, h, f, o)
<1>1. r = [items |-> h.items, exists |-> h.exists, pos |-> h.pos, into |-> h.into,
           valid |-> h.valid, mark |-> h.mark, end |-> h.end, file |-> f, ofs |-> o,
           sizes |-> h.sizes]
  BY DEF HeadOK
<1>2. Placed(r, h, f, o)
  BY <1>1 DEF Placed
<1>3. r = [items |-> r.items, exists |-> r.exists, pos |-> r.pos, into |-> r.into,
           valid |-> r.valid, mark |-> r.mark, end |-> r.end, file |-> r.file, ofs |-> r.ofs,
           sizes |-> r.sizes]
  BY <1>1, <1>2 DEF Placed
<1> QED
  BY <1>2, <1>3 DEF HeadOK, Flags, Mt!InRecord, Placed

(* WriteEOF counts a file. *)
LEMMA FileOK ==
  ASSUME NEW h, HeadOK(h), NEW r, r = [h EXCEPT !.file = @ + 1] PROVE HeadOK(r)
<1>1. r = [h EXCEPT !.file = h.file + 1, !.ofs = h.ofs]
  BY DEF HeadOK
<1> QED
  BY <1>1, PlacedOK

(* A mounted tape has a well-formed head, in either drive. *)
LEMMA MountedOK ==
  ASSUME NEW items \in Seq(Nat), NEW there \in BOOLEAN, NEW m \in BOOLEAN
  PROVE HeadOK(Mt!NewTape(items, there, m)) /\ HeadOK(Bm!T!NewTape(items, there, m))
<1>1. ASSUME NEW e \in BOOLEAN, ~there \/ ~e, NEW sizes,
             NEW r, r = [items |-> items, exists |-> there, pos |-> 0, into |-> 0,
                         valid |-> FALSE, mark |-> e, end |-> FALSE, file |-> 0, ofs |-> 0,
                         sizes |-> sizes]
      PROVE HeadOK(r)
  <2>1. /\ r.items = items /\ r.exists = there /\ r.pos = 0 /\ r.into = 0 /\ r.valid = FALSE
        /\ r.mark = e /\ r.end = FALSE /\ r.file = 0 /\ r.ofs = 0 /\ r.sizes = sizes
    BY <1>1
  <2>2. r = [items |-> r.items, exists |-> r.exists, pos |-> r.pos, into |-> r.into,
             valid |-> r.valid, mark |-> r.mark, end |-> r.end, file |-> r.file, ofs |-> r.ofs,
             sizes |-> r.sizes]
    BY <1>1, <2>1
  <2>3. Flags(r)
    BY <1>1, <2>1 DEF Flags, Mt!InRecord
  <2>4. r.pos \in 0 .. Len(r.items) /\ r.into \in Nat /\ FALSE \in BOOLEAN
    BY <2>1
  <2> QED
    BY <1>1, <2>1, <2>2, <2>3, <2>4 DEF HeadOK
<1>2. PICK e \in BOOLEAN : (e <=> ~there /\ m) /\ e = (~there /\ m)
  OBVIOUS
<1>3. ~there \/ ~e
  BY <1>2
<1> DEFINE sizes == IF there THEN Mt!FileSizes(items) ELSE <<>>
           bsizes == IF there THEN Bm!T!FileSizes(items) ELSE <<>>
<1>4. HeadOK(Mt!NewTape(items, there, m))
  <2>1. Mt!NewTape(items, there, m) =
          [items |-> items, exists |-> there, pos |-> 0, into |-> 0, valid |-> FALSE,
           mark |-> e, end |-> FALSE, file |-> 0, ofs |-> 0, sizes |-> sizes]
    BY <1>2 DEF Mt!NewTape
  <2> HIDE DEF sizes
  <2> QED
    BY <1>1, <1>3, <2>1
<1>5. HeadOK(Bm!T!NewTape(items, there, m))
  <2>1. Bm!T!NewTape(items, there, m) =
          [items |-> items, exists |-> there, pos |-> 0, into |-> 0, valid |-> FALSE,
           mark |-> e, end |-> FALSE, file |-> 0, ofs |-> 0, sizes |-> bsizes]
    BY <1>2 DEF Bm!T!NewTape
  <2> HIDE DEF bsizes
  <2> QED
    BY <1>1, <1>3, <2>1
<1> QED
  BY <1>4, <1>5

(* An instance has definitions of its own of what it extends. *)
LEMMA SameCardinality ==
  \A S : Mt!Cardinality(S) = Cardinality(S) /\ Bm!T!Cardinality(S) = Cardinality(S)
BY Zenon DEF Mt!Cardinality, Bm!T!Cardinality, Cardinality

(* The marks among the first records of a tape: none of no records, and    *)
(* one more with every mark.                                               *)
LEMMA MarksCount ==
  ASSUME NEW items \in Seq(Nat)
  PROVE /\ Mt!MarksBefore(items, 0) = 0
        /\ \A n \in 0 .. Len(items) : Mt!MarksBefore(items, n) \in Nat
        /\ \A n \in 1 .. Len(items) : Mt!MarksBefore(items, n) =
             Mt!MarksBefore(items, n - 1) + (IF items[n] = 0 THEN 1 ELSE 0)
<1> DEFINE M(n) == {i \in 1 .. n : items[i] = 0}
<1>1. ASSUME NEW n \in Nat PROVE IsFiniteSet(M(n)) /\ Cardinality(M(n)) \in Nat
  <2>1. IsFiniteSet(1 .. n)
    BY FS_Interval
  <2> QED
    BY <2>1, FS_Subset, FS_CardinalityType
<1>2. M(0) = {}
  OBVIOUS
<1>3. ASSUME NEW n \in 1 .. Len(items)
      PROVE Cardinality(M(n)) = Cardinality(M(n - 1)) + (IF items[n] = 0 THEN 1 ELSE 0)
  <2>1. n - 1 \in Nat
    OBVIOUS
  <2>2. CASE items[n] = 0
    <3>1. M(n) = M(n - 1) \cup {n} /\ n \notin M(n - 1)
      BY <2>2
    <3> HIDE DEF M
    <3>2. Cardinality(M(n - 1) \cup {n}) = Cardinality(M(n - 1)) + 1
      BY <1>1, <2>1, <3>1, FS_AddElement
    <3> QED
      BY <2>2, <3>1, <3>2
  <2>3. CASE items[n] # 0
    <3>1. M(n) = M(n - 1)
      BY <2>3
    <3> HIDE DEF M
    <3> QED
      BY <1>1, <2>1, <2>3, <3>1
  <2> QED
    BY <2>2, <2>3
<1>4. \A n : Mt!MarksBefore(items, n) = Cardinality(M(n))
  BY SameCardinality DEF Mt!MarksBefore
<1> HIDE DEF M
<1>5. \A n \in 0 .. Len(items) : n \in Nat
  OBVIOUS
<1> QED
  BY <1>1, <1>2, <1>3, <1>4, <1>5, FS_EmptySet

(* No two marks have as many marks before them. *)
LEMMA MarksGrow ==
  ASSUME NEW items \in Seq(Nat), NEW m \in 0 .. Len(items), NEW n \in 1 .. Len(items), m < n,
         items[n] = 0
  PROVE Mt!MarksBefore(items, m) < Mt!MarksBefore(items, n)
<1> DEFINE M(k) == {i \in 1 .. k : items[i] = 0}
<1>1. IsFiniteSet(M(n))
  <2>1. n \in Nat
    OBVIOUS
  <2>2. IsFiniteSet(1 .. n)
    BY <2>1, FS_Interval
  <2> QED
    BY <2>2, FS_Subset
<1>2. M(m) \subseteq M(n) /\ n \in M(n) /\ n \notin M(m)
  OBVIOUS
<1>3. \A k : Mt!MarksBefore(items, k) = Cardinality(M(k))
  BY SameCardinality DEF Mt!MarksBefore
<1> HIDE DEF M
<1>4. Cardinality(M(m)) <= Cardinality(M(n)) /\ Cardinality(M(m)) # Cardinality(M(n))
  BY <1>1, <1>2, FS_Subset
<1>5. Cardinality(M(m)) \in Nat /\ Cardinality(M(n)) \in Nat
  BY <1>1, <1>2, FS_Subset, FS_CardinalityType
<1> QED
  BY <1>3, <1>4, <1>5

(* The words since the last mark, record by record *)
LEMMA WordsCount ==
  ASSUME NEW items \in Seq(Nat)
  PROVE /\ Mt!WordsSinceMark(items)[0] = 0
        /\ \A n \in 1 .. Len(items) : Mt!WordsSinceMark(items)[n] =
             IF items[n] = 0 THEN 0 ELSE Mt!WordsSinceMark(items)[n - 1] + items[n]
        /\ \A n \in 0 .. Len(items) : Mt!WordsSinceMark(items)[n] \in Nat
<1> DEFINE Is(g, l) ==
             g = [n \in 0 .. l |-> IF n = 0 \/ items[n] = 0 THEN 0 ELSE g[n - 1] + items[n]]
           L == Len(items)
           f == CHOOSE g : Is(g, L)
<1>1. Mt!WordsSinceMark(items) = f
  BY DEF Mt!WordsSinceMark
<1>2. L \in Nat
  OBVIOUS
<1>3. \E g : Is(g, L)
  <2> DEFINE S == {l \in Nat : \E g : Is(g, l)}
  <2>1. 0 \in S
    <3>1. Is([n \in 0 .. 0 |-> 0], 0)
      OBVIOUS
    <3> QED
      BY <3>1
  <2>2. ASSUME NEW l \in Nat, l \in S PROVE l + 1 \in S
    <3> SUFFICES \E g : Is(g, l + 1)
      OBVIOUS
    <3>1. PICK h : Is(h, l)
      BY <2>2
    <3> DEFINE next == IF items[l + 1] = 0 THEN 0 ELSE h[l] + items[l + 1]
               g == [n \in 0 .. l + 1 |-> IF n <= l THEN h[n] ELSE next]
    <3>2. \A n \in 0 .. l : h[n] = IF n = 0 \/ items[n] = 0 THEN 0 ELSE h[n - 1] + items[n]
      BY <3>1
    <3>3. (\A n \in 0 .. l : g[n] = h[n]) /\ g[l + 1] = next
      OBVIOUS
    <3>4. ASSUME NEW n \in 0 .. l + 1
          PROVE g[n] = IF n = 0 \/ items[n] = 0 THEN 0 ELSE g[n - 1] + items[n]
      <4> HIDE DEF g
      <4>1. CASE n \in 0 .. l
        <5>1. n # 0 => n - 1 \in 0 .. l
          BY <4>1
        <5> QED
          BY <3>2, <3>3, <4>1, <5>1
      <4>2. CASE n = l + 1
        <5>1. n - 1 = l /\ l \in 0 .. l /\ n # 0
          BY <4>2
        <5> QED
          BY <3>3, <4>2, <5>1
      <4> QED
        BY <4>1, <4>2
    <3>5. Is(g, l + 1)
      BY <3>4
    <3> QED
      BY <3>5
  <2> HIDE DEF S
  <2>3. L \in S
    BY <1>2, <2>1, <2>2, SetInduction
  <2> QED
    BY <2>3 DEF S
<1>4. Is(f, L)
  <2> HIDE DEF Is
  <2> QED
    BY <1>3
<1> HIDE DEF f
<1>5. \A n \in 0 .. L : f[n] = IF n = 0 \/ items[n] = 0 THEN 0 ELSE f[n - 1] + items[n]
  BY <1>4
<1>6. \A n \in 0 .. L : f[n] \in Nat
  <2> DEFINE S == {n \in Nat : n <= L => f[n] \in Nat}
  <2>1. 0 \in S
    BY <1>5
  <2>2. ASSUME NEW n \in Nat, n \in S PROVE n + 1 \in S
    <3> SUFFICES ASSUME n + 1 <= L PROVE f[n + 1] \in Nat
      OBVIOUS
    <3>1. n + 1 \in 1 .. L /\ (n + 1) - 1 = n /\ f[n] \in Nat /\ items[n + 1] \in Nat
      BY <2>2
    <3>2. f[n + 1] = IF items[n + 1] = 0 THEN 0 ELSE f[n] + items[n + 1]
      BY <1>5, <3>1
    <3> QED
      BY <3>1, <3>2
  <2>3. Nat \subseteq S
    <3> HIDE DEF S
    <3> QED
      BY <2>1, <2>2, SetInduction
  <2> QED
    BY <2>3
<1> QED
  BY <1>1, <1>5, <1>6

(* UpdateForNewFile puts the size of the file in front of a mark where     *)
(* SeekToPrevRecord looks for it.                                          *)
LEMMA FileSizeFound ==
  ASSUME NEW items \in Seq(Nat), NEW n \in 1 .. Len(items), items[n] = 0,
         NEW file, file = Mt!MarksBefore(items, n)
  PROVE /\ file <= Len(Mt!FileSizes(items))
        /\ Mt!FileSizes(items)[file] = Mt!WordsSinceMark(items)[n - 1]
<1> DEFINE marks == {i \in 1 .. Len(items) : items[i] = 0}
           End(f) == CHOOSE i \in marks : Mt!MarksBefore(items, i) = f
           all == Cardinality(marks)
<1>1. Mt!FileSizes(items) = [f \in 1 .. all |-> Mt!WordsSinceMark(items)[End(f) - 1]]
  BY SameCardinality DEF Mt!FileSizes
<1>2. n \in marks
  OBVIOUS
<1>3. \A i \in marks : Mt!MarksBefore(items, i) = file => i = n
  <2> SUFFICES ASSUME NEW i \in marks, Mt!MarksBefore(items, i) = file, i # n PROVE FALSE
    OBVIOUS
  <2>1. i \in 1 .. Len(items) /\ items[i] = 0 /\ i \in 0 .. Len(items) /\ n \in 0 .. Len(items)
    OBVIOUS
  <2>2. file \in Nat
    BY MarksCount
  <2>3. CASE i < n
    <3>1. Mt!MarksBefore(items, i) < Mt!MarksBefore(items, n)
      BY <2>1, <2>3, MarksGrow
    <3> QED
      BY <2>2, <3>1
  <2>4. CASE n < i
    <3>1. Mt!MarksBefore(items, n) < Mt!MarksBefore(items, i)
      BY <2>1, <2>4, MarksGrow
    <3> QED
      BY <2>2, <3>1
  <2> QED
    BY <2>1, <2>3, <2>4
<1>4. End(file) = n
  <2> HIDE DEF marks
  <2> QED
    BY <1>2, <1>3
<1>5. all \in Nat /\ file \in 1 .. all
  <2>1. IsFiniteSet(1 .. Len(items))
    BY FS_Interval
  <2>2. IsFiniteSet(marks)
    BY <2>1, FS_Subset
  <2>3. {i \in 1 .. n : items[i] = 0} \subseteq marks
    OBVIOUS
  <2>4. file = Cardinality({i \in 1 .. n : items[i] = 0})
    BY SameCardinality DEF Mt!MarksBefore
  <2>5. file <= all /\ all \in Nat
    <3> DEFINE first == {i \in 1 .. n : items[i] = 0}
    <3>1. first \subseteq marks /\ file = Cardinality(first)
      BY <2>3, <2>4
    <3> HIDE DEF marks, first
    <3> QED
      BY <2>2, <3>1, FS_Subset, FS_CardinalityType
  <2>6. file \in Nat /\ file > 0
    <3>1. n - 1 \in 0 .. Len(items) /\ n \in 0 .. Len(items)
      OBVIOUS
    <3>2. /\ Mt!MarksBefore(items, n) = Mt!MarksBefore(items, n - 1) + 1
          /\ Mt!MarksBefore(items, n - 1) \in Nat
      BY <3>1, MarksCount
    <3> QED
      BY <3>2
  <2> HIDE DEF all
  <2> QED
    BY <2>5, <2>6
<1> HIDE DEF marks, all, End
<1>6. Len(Mt!FileSizes(items)) = all
  BY <1>1, <1>5
<1> QED
  BY <1>1, <1>4, <1>5, <1>6

(* PokedTapFile_c::SeekToNextRecord counts the file whose end it meets and *)
(* adds what it passes to the offset.                                      *)
LEMMA NextPlaced ==
  ASSUME NEW h, HeadOK(h), NEW q, q = Mt!SeekToNextRecord(h), NEW r, r = Mt!PokedNext(h)
  PROVE /\ HeadOK(r)
        /\ IF Mt!State(q, TRUE) \in {"file", "end"} THEN Placed(r, q, h.file + 1, 0)
           ELSE Placed(r, q, h.file, h.ofs + Mt!WordsPassed(h, h.items[h.pos + 1]))
<1>1. HeadOK(q)
  BY NextMoves
<1>2. q.file = h.file /\ q.ofs = h.ofs
  BY NextMoves DEF Moved
<1> DEFINE o == h.ofs + Mt!WordsPassed(h, h.items[h.pos + 1])
<1>3. CASE Mt!State(q, TRUE) \in {"file", "end"}
  <2>1. r = [q EXCEPT !.file = @ + 1, !.ofs = 0]
    BY <1>3 DEF Mt!PokedNext
  <2>2. r = [q EXCEPT !.file = h.file + 1, !.ofs = 0]
    BY <1>1, <1>2, <2>1 DEF HeadOK
  <2> QED
    BY <1>1, <1>3, <2>2, PlacedOK
<1>4. CASE Mt!State(q, TRUE) \notin {"file", "end"}
  <2>1. r = [q EXCEPT !.ofs = @ + Mt!WordsPassed(h, h.items[h.pos + 1])]
    BY <1>4 DEF Mt!PokedNext
  <2>2. r = [q EXCEPT !.ofs = o]
    BY <1>1, <1>2, <2>1 DEF HeadOK
  <2> HIDE DEF o
  <2>3. r = [q EXCEPT !.file = h.file, !.ofs = o]
    BY <1>1, <1>2, <2>2 DEF HeadOK
  <2>4. HeadOK(r) /\ Placed(r, q, h.file, o)
    BY <1>1, <2>3, PlacedOK
  <2> QED
    BY <1>4, <2>4 DEF o
<1> QED
  BY <1>3, <1>4

(* SeekToPrevRecord does it the other way, ... *)
LEMMA PrevPlaced ==
  ASSUME NEW h, HeadOK(h), NEW junk, NEW q, q = Mt!SeekToPrevRecord(h),
         NEW r, r = Mt!PokedPrev(h, junk)
  PROVE /\ HeadOK(r)
        /\ CASE Mt!State(q, FALSE) = "begin" -> Placed(r, q, 0, 0)
             [] Mt!State(q, FALSE) = "file" ->
                  Placed(r, q, h.file - 1,
                         IF h.file <= Len(h.sizes) THEN h.sizes[h.file] ELSE junk)
             [] OTHER -> Placed(r, q, h.file,
                                h.ofs - (IF Mt!InRecord(h) THEN h.into ELSE h.items[h.pos]))
<1>1. HeadOK(q)
  BY PrevMoves
<1>2. q.file = h.file /\ q.ofs = h.ofs
  BY PrevMoves DEF Moved
<1>3. CASE Mt!State(q, FALSE) = "begin"
  <2>1. r = [q EXCEPT !.file = 0, !.ofs = 0]
    BY <1>3 DEF Mt!PokedPrev
  <2> QED
    BY <1>1, <1>3, <2>1, PlacedOK
<1>4. CASE Mt!State(q, FALSE) = "file"
  <2> DEFINE o == IF h.file <= Len(h.sizes) THEN h.sizes[h.file] ELSE junk
  <2>1. r = [q EXCEPT !.file = @ - 1, !.ofs = o]
    BY <1>4 DEF Mt!PokedPrev
  <2> HIDE DEF o
  <2>2. r = [q EXCEPT !.file = h.file - 1, !.ofs = o]
    BY <1>1, <1>2, <2>1 DEF HeadOK
  <2>3. HeadOK(r) /\ Placed(r, q, h.file - 1, o)
    BY <1>1, <2>2, PlacedOK
  <2> QED
    BY <1>4, <2>3 DEF o
<1>5. CASE Mt!State(q, FALSE) \notin {"begin", "file"}
  <2> DEFINE n == IF Mt!InRecord(h) THEN h.into ELSE h.items[h.pos]
  <2>1. r = [q EXCEPT !.ofs = @ - n]
    BY <1>5 DEF Mt!PokedPrev
  <2> HIDE DEF n
  <2>2. r = [q EXCEPT !.file = h.file, !.ofs = h.ofs - n]
    BY <1>1, <1>2, <2>1 DEF HeadOK
  <2>3. HeadOK(r) /\ Placed(r, q, h.file, h.ofs - n)
    BY <1>1, <2>2, PlacedOK
  <2> QED
    BY <1>5, <2>3 DEF n
<1> QED
  BY <1>3, <1>4, <1>5

(* ... and Read adds what it reads. *)
LEMMA ReadPlaced ==
  ASSUME NEW h, HeadOK(h), NEW max \in Nat, h.exists => max > 0, NEW q, q = Mt!Read(h, max),
         NEW r, r = Mt!PokedRead(h, max)
  PROVE /\ HeadOK(r)
        /\ IF Mt!State(q, TRUE) \in {"file", "end"} THEN Placed(r, q, h.file + 1, 0)
           ELSE Placed(r, q, h.file, h.ofs + Mt!WordsRead(h, max))
<1>0. PICK at : at = IF Mt!InRecord(h) THEN h.into ELSE 0
  OBVIOUS
<1>1. HeadOK(q)
  BY <1>0, ReadMoves
<1>2. q.file = h.file /\ q.ofs = h.ofs
  BY <1>0, ReadMoves DEF Moved
<1> DEFINE o == h.ofs + Mt!WordsRead(h, max)
<1>3. CASE Mt!State(q, TRUE) \in {"file", "end"}
  <2>1. r = [q EXCEPT !.file = @ + 1, !.ofs = 0]
    BY <1>3 DEF Mt!PokedRead
  <2>2. r = [q EXCEPT !.file = h.file + 1, !.ofs = 0]
    BY <1>1, <1>2, <2>1 DEF HeadOK
  <2> QED
    BY <1>1, <1>3, <2>2, PlacedOK
<1>4. CASE Mt!State(q, TRUE) \notin {"file", "end"}
  <2>1. r = [q EXCEPT !.ofs = @ + Mt!WordsRead(h, max)]
    BY <1>4 DEF Mt!PokedRead
  <2>2. r = [q EXCEPT !.ofs = o]
    BY <1>1, <1>2, <2>1 DEF HeadOK
  <2> HIDE DEF o
  <2>3. r = [q EXCEPT !.file = h.file, !.ofs = o]
    BY <1>1, <1>2, <2>2 DEF HeadOK
  <2>4. HeadOK(r) /\ Placed(r, q, h.file, o)
    BY <1>1, <2>3, PlacedOK
  <2> QED
    BY <1>4, <2>4 DEF o
<1> QED
  BY <1>3, <1>4

(* A head without an image is at the beginning, and one that has met the   *)
(* end is there.                                                           *)
Whole(h) ==
  /\ ~h.exists => h.items = <<>> /\ ~h.valid
  /\ h.end => h.pos = Len(h.items) /\ ~Mt!InRecord(h)

(* mFileSizes is that of the tape. *)
Sized(h) == h.exists => h.sizes = Mt!FileSizes(h.items)

(* mCurFileIdx and mCurFileOfs are those of the head. *)
Marks(h) == Mt!MarksBefore(h.items, h.pos)
Words(h) == Mt!WordsSinceMark(h.items)[h.pos] + (IF Mt!InRecord(h) THEN h.into ELSE 0)
Exact(h) == ~h.end /\ h.file = Marks(h) /\ h.ofs = Words(h)

(* The same tape *)
Same(h, r) == r.items = h.items /\ r.exists = h.exists /\ r.sizes = h.sizes

(* The counts at a place of a tape and at the next one *)
LEMMA Counts ==
  ASSUME NEW h, HeadOK(h)
  PROVE /\ Mt!MarksBefore(h.items, 0) = 0 /\ Mt!WordsSinceMark(h.items)[0] = 0
        /\ h.pos < Len(h.items) =>
             /\ Mt!MarksBefore(h.items, h.pos + 1) =
                  Mt!MarksBefore(h.items, h.pos) + (IF h.items[h.pos + 1] = 0 THEN 1 ELSE 0)
             /\ Mt!WordsSinceMark(h.items)[h.pos + 1] =
                  IF h.items[h.pos + 1] = 0 THEN 0
                  ELSE Mt!WordsSinceMark(h.items)[h.pos] + h.items[h.pos + 1]
        /\ h.pos > 0 =>
             /\ Mt!MarksBefore(h.items, h.pos) =
                  Mt!MarksBefore(h.items, h.pos - 1) + (IF h.items[h.pos] = 0 THEN 1 ELSE 0)
             /\ Mt!WordsSinceMark(h.items)[h.pos] =
                  IF h.items[h.pos] = 0 THEN 0
                  ELSE Mt!WordsSinceMark(h.items)[h.pos - 1] + h.items[h.pos]
             /\ Mt!MarksBefore(h.items, h.pos - 1) \in Nat
             /\ Mt!WordsSinceMark(h.items)[h.pos - 1] \in Nat
        /\ Mt!MarksBefore(h.items, h.pos) \in Nat
        /\ Mt!WordsSinceMark(h.items)[h.pos] \in Nat
<1>1. h.items \in Seq(Nat) /\ h.pos \in 0 .. Len(h.items) /\ Len(h.items) \in Nat
  BY DEF HeadOK
<1>2. PICK items \in Seq(Nat) : items = h.items
  BY <1>1
<1>3. h.pos > 0 => h.pos \in 1 .. Len(items) /\ h.pos - 1 \in 0 .. Len(items)
  BY <1>1, <1>2
<1>4. h.pos < Len(items) => h.pos + 1 \in 1 .. Len(items) /\ (h.pos + 1) - 1 = h.pos
  BY <1>1, <1>2
<1>5. h.pos \in 0 .. Len(items)
  BY <1>1, <1>2
<1> DEFINE M(n) == Mt!MarksBefore(items, n)
           W == Mt!WordsSinceMark(items)
<1>6. /\ M(0) = 0
      /\ \A n \in 0 .. Len(items) : M(n) \in Nat
      /\ \A n \in 1 .. Len(items) : M(n) = M(n - 1) + (IF items[n] = 0 THEN 1 ELSE 0)
  BY MarksCount
<1>7. /\ W[0] = 0
      /\ \A n \in 1 .. Len(items) : W[n] = IF items[n] = 0 THEN 0 ELSE W[n - 1] + items[n]
      /\ \A n \in 0 .. Len(items) : W[n] \in Nat
  BY WordsCount
<1>8. /\ \A n : Mt!MarksBefore(h.items, n) = M(n)
      /\ Mt!WordsSinceMark(h.items) = W
  BY <1>2
<1> HIDE DEF M, W
<1>9. M(0) = 0 /\ W[0] = 0 /\ M(h.pos) \in Nat /\ W[h.pos] \in Nat
  BY <1>5, <1>6, <1>7
<1>10. ASSUME h.pos < Len(items)
       PROVE /\ M(h.pos + 1) = M(h.pos) + (IF items[h.pos + 1] = 0 THEN 1 ELSE 0)
             /\ W[h.pos + 1] = IF items[h.pos + 1] = 0 THEN 0 ELSE W[h.pos] + items[h.pos + 1]
  <2>1. PICK n \in 1 .. Len(items) : n = h.pos + 1 /\ n - 1 = h.pos
    BY <1>4, <1>10
  <2> QED
    BY <1>6, <1>7, <2>1
<1>11. ASSUME h.pos > 0
       PROVE /\ M(h.pos) = M(h.pos - 1) + (IF items[h.pos] = 0 THEN 1 ELSE 0)
             /\ W[h.pos] = IF items[h.pos] = 0 THEN 0 ELSE W[h.pos - 1] + items[h.pos]
             /\ M(h.pos - 1) \in Nat /\ W[h.pos - 1] \in Nat
  BY <1>3, <1>6, <1>7, <1>11
<1> QED
  BY <1>2, <1>8, <1>9, <1>10, <1>11

(* A step forward, by what it finds *)
LEMMA NextSteps ==
  ASSUME NEW h, HeadOK(h), Whole(h), NEW r, r = Mt!PokedNext(h)
  PROVE /\ HeadOK(r) /\ Whole(r) /\ Same(h, r)
        /\ Exact(h) => Exact(r) \/ Mt!State(r, TRUE) = "end"
        /\ CASE Mt!State(r, TRUE) = "end" -> r.pos = Len(h.items) /\ Marks(r) = Marks(h)
             [] Mt!State(r, TRUE) = "file" -> r.items[r.pos] = 0 /\ Marks(r) = Marks(h) + 1
             [] OTHER -> r.pos = h.pos + 1 /\ Marks(r) = Marks(h)
<1>1. PICK q : q = Mt!SeekToNextRecord(h)
  OBVIOUS
<1>2. /\ HeadOK(r)
      /\ IF Mt!State(q, TRUE) \in {"file", "end"} THEN Placed(r, q, h.file + 1, 0)
         ELSE Placed(r, q, h.file, h.ofs + Mt!WordsPassed(h, h.items[h.pos + 1]))
  BY <1>1, NextPlaced
<1>3. Mt!State(r, TRUE) = Mt!State(q, TRUE)
  BY <1>2 DEF Placed, Mt!State, Mt!InRecord
<1>a. /\ h.items \in Seq(Nat) /\ h.pos \in 0 .. Len(h.items) /\ h.into \in Nat
      /\ Len(h.items) \in Nat
      /\ h.exists \in BOOLEAN /\ h.valid \in BOOLEAN /\ h.mark \in BOOLEAN
  BY DEF HeadOK
<1>4. CASE ~h.exists /\ q = h
  <2>1. Mt!State(q, TRUE) = "end"
    BY <1>4 DEF Mt!State
  <2>2. Placed(r, h, h.file + 1, 0)
    BY <1>2, <1>4, <2>1
  <2>3. h.items = <<>> /\ ~h.valid /\ h.pos = Len(h.items)
    BY <1>a, <1>4 DEF Whole
  <2> QED
    BY <1>2, <1>3, <2>1, <2>2, <2>3 DEF Placed, Same, Whole, Mt!InRecord, Marks
<1>5. CASE /\ h.exists /\ Mt!InRecord(h)
           /\ q = Moved(h, h.pos + 1, 0, FALSE, h.mark, h.end)
  <2>1. ~h.end /\ ~h.mark /\ h.pos < Len(h.items) /\ h.into \in 1 .. h.items[h.pos + 1] - 1
    BY <1>5 DEF Whole, HeadOK, Flags, Mt!InRecord
  <2>2. /\ q.items = h.items /\ q.exists /\ q.pos = h.pos + 1 /\ ~q.valid /\ ~q.mark /\ ~q.end
        /\ q.exists = h.exists /\ q.sizes = h.sizes
    BY <1>5, <2>1 DEF Moved
  <2>3. Mt!State(q, TRUE) = "record"
    BY <1>a, <2>2 DEF Mt!State
  <2>4. Placed(r, q, h.file, h.ofs + (h.items[h.pos + 1] - h.into))
    BY <1>2, <1>5, <2>3 DEF Mt!WordsPassed
  <2>5. Whole(r) /\ Same(h, r) /\ r.pos = h.pos + 1 /\ ~Mt!InRecord(r) /\ ~r.end
    BY <2>2, <2>4 DEF Whole, Same, Placed, Mt!InRecord
  <2>6. h.items[h.pos + 1] \in Nat \ {0}
    BY <1>a, <2>1, SMTT(20)
  <2>7. Marks(r) = Marks(h) /\ Marks(h) \in Nat
    BY <2>1, <2>5, <2>6, Counts DEF Marks, Same
  <2>8. Exact(h) => Exact(r)
    <3> SUFFICES ASSUME Exact(h) PROVE Exact(r)
      OBVIOUS
    <3>1. /\ Mt!WordsSinceMark(h.items)[h.pos + 1] =
               Mt!WordsSinceMark(h.items)[h.pos] + h.items[h.pos + 1]
          /\ Mt!WordsSinceMark(h.items)[h.pos] \in Nat
      BY <2>1, <2>6, Counts
    <3>2. h.ofs = Mt!WordsSinceMark(h.items)[h.pos] + h.into
      BY <1>5 DEF Exact, Words
    <3>3. r.ofs = Mt!WordsSinceMark(h.items)[h.pos + 1] + 0
      BY <1>a, <2>4, <2>6, <3>1, <3>2 DEF Placed
    <3>4. r.ofs = Words(r)
      BY <2>5, <3>3 DEF Words, Same
    <3>5. r.file = Marks(r)
      BY <2>4, <2>7 DEF Exact, Placed
    <3> QED
      BY <2>5, <3>4, <3>5 DEF Exact
  <2> QED
    BY <1>2, <1>3, <2>3, <2>5, <2>7, <2>8
<1>6. CASE /\ h.exists /\ ~Mt!InRecord(h) /\ h.pos = Len(h.items)
           /\ q = Moved(h, h.pos, h.into, h.valid, h.mark, TRUE)
  <2>1. /\ q.items = h.items /\ q.exists = h.exists /\ q.exists /\ q.pos = h.pos /\ q.end
        /\ q.valid = h.valid /\ q.mark = h.mark /\ q.sizes = h.sizes
    BY <1>6 DEF Moved
  <2>2. Mt!State(q, TRUE) = "end"
    BY <2>1 DEF Mt!State
  <2>3. Placed(r, q, h.file + 1, 0)
    BY <1>2, <2>2
  <2> QED
    BY <1>2, <1>3, <1>6, <2>1, <2>2, <2>3 DEF Placed, Same, Whole, Mt!InRecord, Marks
<1>7. CASE /\ h.exists /\ ~Mt!InRecord(h) /\ h.pos # Len(h.items)
           /\ \E e \in BOOLEAN : /\ e <=> h.items[h.pos + 1] = 0
                                 /\ q = Moved(h, h.pos + 1, 0, e, e, h.end)
  <2>0. PICK e \in BOOLEAN : /\ e <=> h.items[h.pos + 1] = 0
                             /\ q = Moved(h, h.pos + 1, 0, e, e, h.end)
    BY <1>7
  <2>1. ~h.end /\ h.pos < Len(h.items) /\ h.items[h.pos + 1] \in Nat
    BY <1>a, <1>7 DEF Whole
  <2>2. /\ q.items = h.items /\ q.exists /\ q.pos = h.pos + 1 /\ q.valid = e /\ q.mark = e
        /\ ~q.end /\ q.exists = h.exists /\ q.sizes = h.sizes /\ q.into = 0
    BY <1>7, <2>0, <2>1 DEF Moved
  <2>3. Mt!State(q, TRUE) = IF e THEN "file" ELSE "record"
    BY <1>a, <2>2 DEF Mt!State
  <2>4. /\ e => Placed(r, q, h.file + 1, 0)
        /\ ~e => Placed(r, q, h.file, h.ofs + h.items[h.pos + 1])
    BY <1>2, <1>7, <2>3 DEF Mt!WordsPassed
  <2>5. Whole(r) /\ Same(h, r) /\ r.pos = h.pos + 1 /\ ~Mt!InRecord(r) /\ ~r.end
    BY <2>0, <2>2, <2>4 DEF Whole, Same, Placed, Mt!InRecord
  <2>6. Marks(r) = Marks(h) + (IF e THEN 1 ELSE 0) /\ Marks(h) \in Nat
    BY <2>0, <2>1, <2>5, Counts DEF Marks, Same
  <2>7. Exact(h) => Exact(r)
    <3> SUFFICES ASSUME Exact(h) PROVE Exact(r)
      OBVIOUS
    <3>1. /\ Mt!WordsSinceMark(h.items)[h.pos + 1] =
               IF e THEN 0 ELSE Mt!WordsSinceMark(h.items)[h.pos] + h.items[h.pos + 1]
          /\ Mt!WordsSinceMark(h.items)[h.pos] \in Nat
      BY <2>0, <2>1, Counts
    <3>2. h.ofs = Mt!WordsSinceMark(h.items)[h.pos] + 0
      BY <1>7 DEF Exact, Words
    <3>3. r.ofs = Mt!WordsSinceMark(h.items)[h.pos + 1] + 0
      BY <2>1, <2>4, <3>1, <3>2 DEF Placed
    <3>4. r.ofs = Words(r)
      BY <2>5, <3>3 DEF Words, Same
    <3>5. r.file = Marks(r)
      BY <2>4, <2>6 DEF Exact, Placed
    <3> QED
      BY <2>5, <3>4, <3>5 DEF Exact
  <2>8. e => r.items[r.pos] = 0
    BY <2>0, <2>5 DEF Same
  <2>9. CASE e
    BY <1>2, <1>3, <2>3, <2>5, <2>6, <2>7, <2>8, <2>9
  <2>10. CASE ~e
    <3>1. Mt!State(r, TRUE) = "record"
      BY <1>3, <2>3, <2>10
    <3>2. Marks(r) = Marks(h)
      <4>1. Marks(r) = Marks(h) + 0
        BY <2>6, <2>10, Zenon
      <4> QED
        BY <2>6, <4>1
    <3> QED
      BY <1>2, <2>5, <2>7, <3>1, <3>2
  <2> QED
    BY <2>9, <2>10
<1> QED
  <2>1. \/ ~h.exists /\ q = h
        \/ /\ h.exists /\ Mt!InRecord(h)
           /\ q = Moved(h, h.pos + 1, 0, FALSE, h.mark, h.end)
        \/ /\ h.exists /\ ~Mt!InRecord(h) /\ h.pos = Len(h.items)
           /\ q = Moved(h, h.pos, h.into, h.valid, h.mark, TRUE)
        \/ /\ h.exists /\ ~Mt!InRecord(h) /\ h.pos # Len(h.items)
           /\ \E e \in BOOLEAN : /\ e <=> h.items[h.pos + 1] = 0
                                 /\ q = Moved(h, h.pos + 1, 0, e, e, h.end)
    BY <1>1, NextMoves DEF Moved
  <2> QED
    BY <2>1, <1>4, <1>5, <1>6, <1>7

(* A step backward, by what it finds.  One to the beginning of the tape    *)
(* does not say whether it passed a mark.                                  *)
LEMMA PrevSteps ==
  ASSUME NEW h, HeadOK(h), Whole(h), NEW junk, NEW r, r = Mt!PokedPrev(h, junk)
  PROVE /\ HeadOK(r) /\ Whole(r) /\ Same(h, r)
        /\ Exact(h) /\ Sized(h) => Exact(r)
        /\ IF Mt!State(r, FALSE) = "file"
           THEN r.items[r.pos + 1] = 0 /\ Marks(r) = Marks(h) - 1 /\ h.pos > 0
           ELSE Marks(r) = Marks(h) \/ (r.pos = 0 /\ ~Mt!InRecord(r))
        /\ h.pos = 0 /\ ~Mt!InRecord(h) => r.pos = 0 /\ ~Mt!InRecord(r)
<1>1. PICK q : q = Mt!SeekToPrevRecord(h)
  OBVIOUS
<1>2. /\ HeadOK(r)
      /\ CASE Mt!State(q, FALSE) = "begin" -> Placed(r, q, 0, 0)
           [] Mt!State(q, FALSE) = "file" ->
                Placed(r, q, h.file - 1,
                       IF h.file <= Len(h.sizes) THEN h.sizes[h.file] ELSE junk)
           [] OTHER -> Placed(r, q, h.file,
                              h.ofs - (IF Mt!InRecord(h) THEN h.into ELSE h.items[h.pos]))
  BY <1>1, PrevPlaced
<1>3. PICK f, o : Placed(r, q, f, o)
  BY <1>2
<1>4. Mt!State(r, FALSE) = Mt!State(q, FALSE)
  BY <1>3 DEF Placed, Mt!State, Mt!InRecord
<1>a. /\ h.items \in Seq(Nat) /\ h.pos \in 0 .. Len(h.items) /\ h.into \in Nat
      /\ Len(h.items) \in Nat
      /\ h.exists \in BOOLEAN /\ h.valid \in BOOLEAN /\ h.mark \in BOOLEAN
  BY DEF HeadOK
<1>b. Marks(h) \in Nat
  BY Counts DEF Marks
<1>5. CASE ~h.exists /\ q = h
  <2>1. Mt!State(q, FALSE) = "begin"
    BY <1>5 DEF Mt!State
  <2>2. Placed(r, h, 0, 0)
    BY <1>2, <1>5, <2>1
  <2>3. h.items = <<>> /\ ~h.valid /\ h.pos = 0
    BY <1>a, <1>5 DEF Whole
  <2>4. /\ Same(h, r) /\ r.pos = 0 /\ ~Mt!InRecord(r) /\ ~Mt!InRecord(h) /\ Whole(r)
        /\ r.end = h.end
    BY <2>2, <2>3 DEF Placed, Same, Whole, Mt!InRecord
  <2>5. Marks(r) = 0 /\ Words(r) = 0
    <3>1. /\ Mt!MarksBefore(h.items, 0) = 0 /\ Mt!WordsSinceMark(h.items)[0] = 0
      BY Counts
    <3> QED
      BY <2>4, <3>1 DEF Marks, Words, Same
  <2>6. r.file = 0 /\ r.ofs = 0
    BY <2>2 DEF Placed
  <2> QED
    BY <1>2, <1>4, <2>1, <2>4, <2>5, <2>6 DEF Exact
<1>6. CASE /\ h.exists /\ (h.pos = 0 \/ Mt!InRecord(h))
           /\ q = Moved(h, h.pos, 0, FALSE, FALSE, FALSE)
  <2>1. /\ q.items = h.items /\ q.exists /\ q.pos = h.pos /\ ~q.valid /\ ~q.mark /\ ~q.end
        /\ q.exists = h.exists /\ q.sizes = h.sizes
    BY <1>6 DEF Moved
  <2>2. Mt!State(q, FALSE) = IF h.pos = 0 THEN "begin" ELSE "record"
    BY <2>1 DEF Mt!State, Mt!InRecord
  <2>3. /\ Same(h, r) /\ r.pos = h.pos /\ ~Mt!InRecord(r) /\ ~r.end /\ Whole(r)
    BY <1>3, <2>1 DEF Placed, Same, Whole, Mt!InRecord
  <2>4. Marks(r) = Marks(h)
    BY <2>3 DEF Marks, Same
  <2>5. Exact(h) => Exact(r)
    <3> SUFFICES ASSUME Exact(h) PROVE Exact(r)
      OBVIOUS
    <3>1. Words(r) = Mt!WordsSinceMark(h.items)[h.pos] /\ Words(r) \in Nat
      <4>1. Mt!WordsSinceMark(h.items)[h.pos] \in Nat
        BY Counts
      <4> QED
        BY <2>3, <4>1 DEF Words, Same
    <3>2. CASE h.pos = 0
      <4>1. Placed(r, q, 0, 0)
        BY <1>2, <2>2, <3>2
      <4>2. /\ Mt!MarksBefore(h.items, 0) = 0 /\ Mt!WordsSinceMark(h.items)[0] = 0
        BY Counts
      <4>3. Marks(r) = 0 /\ Words(r) = 0
        BY <2>4, <3>1, <3>2, <4>2 DEF Marks
      <4> QED
        BY <2>3, <4>1, <4>3 DEF Exact, Placed
    <3>3. CASE h.pos # 0
      <4>1. Mt!State(q, FALSE) = "record" /\ Mt!InRecord(h)
        BY <1>6, <2>2, <3>3
      <4>2. Placed(r, q, h.file, h.ofs - h.into)
        BY <1>2, <4>1
      <4>3. h.ofs = Mt!WordsSinceMark(h.items)[h.pos] + h.into
        BY <4>1 DEF Exact, Words
      <4>4. r.ofs = Words(r)
        BY <1>a, <3>1, <4>2, <4>3 DEF Placed
      <4> QED
        BY <2>3, <2>4, <4>2, <4>4 DEF Exact, Placed
    <3> QED
      BY <3>2, <3>3
  <2>6. Mt!State(r, FALSE) # "file"
    BY <1>4, <2>2
  <2> QED
    BY <1>2, <2>3, <2>4, <2>5, <2>6
<1>7. CASE /\ h.exists /\ ~Mt!InRecord(h) /\ h.pos # 0
           /\ \E e \in BOOLEAN : /\ e <=> h.items[h.pos] = 0
                                 /\ q = Moved(h, h.pos - 1, 0, FALSE, e, FALSE)
  <2>0. PICK e \in BOOLEAN : /\ e <=> h.items[h.pos] = 0
                             /\ q = Moved(h, h.pos - 1, 0, FALSE, e, FALSE)
    BY <1>7
  <2>1. /\ q.items = h.items /\ q.exists /\ q.pos = h.pos - 1 /\ ~q.valid /\ q.mark = e /\ ~q.end
        /\ q.exists = h.exists /\ q.sizes = h.sizes
    BY <1>7, <2>0 DEF Moved
  <2>2. Mt!State(q, FALSE) = IF h.pos - 1 = 0 THEN "begin" ELSE IF e THEN "file" ELSE "record"
    BY <2>1 DEF Mt!State, Mt!InRecord
  <2>3. /\ Same(h, r) /\ r.pos = h.pos - 1 /\ ~Mt!InRecord(r) /\ ~r.end /\ Whole(r)
    BY <1>3, <2>1 DEF Placed, Same, Whole, Mt!InRecord
  <2>4. /\ Mt!MarksBefore(h.items, h.pos) =
             Mt!MarksBefore(h.items, h.pos - 1) + (IF e THEN 1 ELSE 0)
        /\ Mt!WordsSinceMark(h.items)[h.pos] =
             IF e THEN 0 ELSE Mt!WordsSinceMark(h.items)[h.pos - 1] + h.items[h.pos]
        /\ Mt!MarksBefore(h.items, h.pos - 1) \in Nat
        /\ Mt!WordsSinceMark(h.items)[h.pos - 1] \in Nat
    <3>1. h.pos > 0
      BY <1>a, <1>7
    <3> QED
      BY <2>0, <3>1, Counts
  <2>5. /\ Marks(r) = Mt!MarksBefore(h.items, h.pos - 1)
        /\ Words(r) = Mt!WordsSinceMark(h.items)[h.pos - 1]
    BY <2>3, <2>4 DEF Marks, Words, Same
  <2>6. Marks(h) = Marks(r) + (IF e THEN 1 ELSE 0) /\ Marks(r) \in Nat
    BY <2>4, <2>5 DEF Marks
  <2>7. Exact(h) /\ Sized(h) => Exact(r)
    <3> SUFFICES ASSUME Exact(h), Sized(h) PROVE r.file = Marks(r) /\ r.ofs = Words(r)
      BY <2>3 DEF Exact
    <3>1. CASE h.pos - 1 = 0
      <4>1. Placed(r, q, 0, 0)
        BY <1>2, <2>2, <3>1
      <4>2. /\ Mt!MarksBefore(h.items, 0) = 0 /\ Mt!WordsSinceMark(h.items)[0] = 0
        BY Counts
      <4> QED
        BY <2>5, <3>1, <4>1, <4>2 DEF Placed
    <3>2. CASE h.pos - 1 # 0 /\ e
      <4>1. Mt!State(q, FALSE) = "file"
        BY <2>2, <3>2
      <4>2. h.file = Mt!MarksBefore(h.items, h.pos) /\ h.sizes = Mt!FileSizes(h.items)
        BY <1>7 DEF Exact, Marks, Sized
      <4> DEFINE items == h.items
                 n == h.pos
      <4>3. items \in Seq(Nat) /\ n \in 1 .. Len(items) /\ items = h.items /\ n = h.pos
        BY <1>a, <1>7
      <4>4. /\ h.file <= Len(Mt!FileSizes(items))
            /\ Mt!FileSizes(items)[h.file] = Mt!WordsSinceMark(items)[n - 1]
        <5>1. items[n] = 0 /\ h.file = Mt!MarksBefore(items, n)
          BY <2>0, <3>2, <4>2, <4>3
        <5> HIDE DEF items, n
        <5> QED
          BY <4>3, <5>1, FileSizeFound
      <4>5. Placed(r, q, h.file - 1, Mt!WordsSinceMark(h.items)[h.pos - 1])
        BY <1>2, <4>1, <4>2, <4>3, <4>4
      <4>6. h.file = Marks(r) + 1
        BY <2>4, <2>5, <3>2, <4>2
      <4> QED
        BY <2>5, <2>6, <4>5, <4>6 DEF Placed
    <3>3. CASE h.pos - 1 # 0 /\ ~e
      <4>1. Mt!State(q, FALSE) = "record"
        BY <2>2, <3>3
      <4>2. Placed(r, q, h.file, h.ofs - h.items[h.pos])
        BY <1>2, <1>7, <4>1
      <4>3. h.ofs = Mt!WordsSinceMark(h.items)[h.pos - 1] + h.items[h.pos] + 0
        BY <1>7, <2>4, <3>3 DEF Exact, Words
      <4>4. h.items[h.pos] \in Nat
        BY <1>a, <1>7
      <4>5. r.ofs = Words(r)
        BY <2>4, <2>5, <4>2, <4>3, <4>4 DEF Placed
      <4>6. r.file = Marks(r)
        BY <2>6, <3>3, <4>2 DEF Exact, Placed
      <4> QED
        BY <4>5, <4>6
    <3> QED
      BY <3>1, <3>2, <3>3
  <2>8. CASE h.pos - 1 = 0
    <3>1. Mt!State(r, FALSE) # "file" /\ r.pos = 0
      BY <1>4, <2>2, <2>3, <2>8
    <3> QED
      BY <1>2, <1>7, <2>3, <2>7, <3>1
  <2>9. CASE h.pos - 1 # 0 /\ e
    <3>1. r.items[r.pos + 1] = 0
      <4>1. r.pos + 1 = h.pos /\ h.items[h.pos] = 0 /\ r.items = h.items
        BY <1>a, <2>0, <2>3, <2>9 DEF Same
      <4> QED
        BY <4>1
    <3>2. Marks(r) = Marks(h) - 1 /\ h.pos > 0
      BY <1>a, <1>7, <2>6, <2>9, SMTT(20)
    <3>3. Mt!State(r, FALSE) = "file"
      BY <1>4, <2>2, <2>9
    <3> QED
      BY <1>2, <1>7, <2>3, <2>7, <2>9, <3>1, <3>2, <3>3
  <2>10. CASE h.pos - 1 # 0 /\ ~e
    <3>1. Mt!State(r, FALSE) # "file"
      BY <1>4, <2>2, <2>10
    <3>2. Marks(r) = Marks(h)
      BY <2>6, <2>10
    <3> QED
      BY <1>2, <1>7, <2>3, <2>7, <3>1, <3>2
  <2> QED
    BY <2>8, <2>9, <2>10
<1> QED
  <2>1. \/ ~h.exists /\ q = h
        \/ /\ h.exists /\ (h.pos = 0 \/ Mt!InRecord(h))
           /\ q = Moved(h, h.pos, 0, FALSE, FALSE, FALSE)
        \/ /\ h.exists /\ ~Mt!InRecord(h) /\ h.pos # 0
           /\ \E e \in BOOLEAN : /\ e <=> h.items[h.pos] = 0
                                 /\ q = Moved(h, h.pos - 1, 0, FALSE, e, FALSE)
    BY <1>1, PrevMoves DEF Moved
  <2> QED
    BY <2>1, <1>5, <1>6, <1>7

(* A read *)
LEMMA ReadSteps ==
  ASSUME NEW h, HeadOK(h), Whole(h), NEW max \in Nat, h.exists => max > 0,
         NEW r, r = Mt!PokedRead(h, max)
  PROVE /\ HeadOK(r) /\ Whole(r) /\ Same(h, r)
        /\ Exact(h) => Exact(r) \/ Mt!State(r, TRUE) = "end"
<1>1. PICK q : q = Mt!Read(h, max)
  OBVIOUS
<1>2. /\ HeadOK(r)
      /\ IF Mt!State(q, TRUE) \in {"file", "end"} THEN Placed(r, q, h.file + 1, 0)
         ELSE Placed(r, q, h.file, h.ofs + Mt!WordsRead(h, max))
  BY <1>1, ReadPlaced
<1>3. PICK at : at = IF Mt!InRecord(h) THEN h.into ELSE 0
  OBVIOUS
<1>4. Mt!State(r, TRUE) = Mt!State(q, TRUE)
  BY <1>2 DEF Placed, Mt!State, Mt!InRecord
<1>a. /\ h.items \in Seq(Nat) /\ h.pos \in 0 .. Len(h.items) /\ h.into \in Nat
      /\ Len(h.items) \in Nat /\ at \in Nat
      /\ h.exists \in BOOLEAN /\ h.valid \in BOOLEAN /\ h.mark \in BOOLEAN
  BY <1>3 DEF HeadOK
<1>b. Mt!WordsSinceMark(h.items)[h.pos] \in Nat /\ Marks(h) \in Nat
  BY Counts DEF Marks
<1>c. Words(h) = Mt!WordsSinceMark(h.items)[h.pos] + at
  BY <1>3 DEF Words
<1>5. CASE ~h.exists /\ q = h
  <2>1. Mt!State(q, TRUE) = "end"
    BY <1>5 DEF Mt!State
  <2>2. Placed(r, h, h.file + 1, 0)
    BY <1>2, <1>5, <2>1
  <2> QED
    BY <1>2, <1>4, <2>1, <2>2 DEF Placed, Same, Whole, Mt!InRecord
<1>6. CASE /\ h.exists /\ ~Mt!InRecord(h) /\ h.pos = Len(h.items)
           /\ q = Moved(h, h.pos, h.into, h.valid, h.mark, TRUE)
  <2>1. /\ q.items = h.items /\ q.exists = h.exists /\ q.exists /\ q.pos = h.pos /\ q.end
        /\ q.valid = h.valid /\ q.mark = h.mark /\ q.sizes = h.sizes
    BY <1>6 DEF Moved
  <2>2. Mt!State(q, TRUE) = "end"
    BY <2>1 DEF Mt!State
  <2>3. Placed(r, q, h.file + 1, 0)
    BY <1>2, <2>2
  <2> QED
    BY <1>2, <1>4, <1>6, <2>1, <2>2, <2>3, ZenonT(40) DEF Placed, Same, Whole, Mt!InRecord
<1>7. CASE /\ h.exists /\ ~Mt!InRecord(h) /\ h.pos < Len(h.items) /\ h.items[h.pos + 1] = 0
           /\ q = Moved(h, h.pos + 1, 0, TRUE, TRUE, h.end)
  <2>1. ~h.end
    BY <1>a, <1>7 DEF Whole
  <2>2. /\ q.items = h.items /\ q.exists /\ q.pos = h.pos + 1 /\ q.valid /\ q.mark /\ ~q.end
        /\ q.exists = h.exists /\ q.sizes = h.sizes
    BY <1>7, <2>1 DEF Moved
  <2>3. Mt!State(q, TRUE) = "file"
    BY <1>a, <2>2 DEF Mt!State
  <2>4. Placed(r, q, h.file + 1, 0)
    BY <1>2, <2>3
  <2>5. Whole(r) /\ Same(h, r) /\ r.pos = h.pos + 1 /\ ~Mt!InRecord(r) /\ ~r.end
    BY <2>2, <2>4 DEF Whole, Same, Placed, Mt!InRecord
  <2>6. Marks(r) = Marks(h) + 1 /\ Words(r) = 0
    BY <1>7, <2>5, Counts DEF Marks, Words, Same
  <2> QED
    BY <1>2, <2>4, <2>5, <2>6 DEF Exact, Placed
<1>8. CASE /\ h.exists /\ h.pos < Len(h.items) /\ h.items[h.pos + 1] # 0
           /\ max >= h.items[h.pos + 1] - at
           /\ q = Moved(h, h.pos + 1, 0, FALSE, FALSE, h.end)
  <2>1. ~h.end
    BY <1>a, <1>8 DEF Whole
  <2>2. /\ q.items = h.items /\ q.exists /\ q.pos = h.pos + 1 /\ ~q.valid /\ ~q.mark /\ ~q.end
        /\ q.exists = h.exists /\ q.sizes = h.sizes
    BY <1>8, <2>1 DEF Moved
  <2>3. Mt!State(q, TRUE) = "record"
    BY <1>a, <2>2 DEF Mt!State
  <2>a. h.items[h.pos + 1] \in Nat
    BY <1>a, <1>8, SMTT(20)
  <2>4. Mt!WordsRead(h, max) = h.items[h.pos + 1] - at
    <3>1. Mt!WordsPassed(h, h.items[h.pos + 1]) = h.items[h.pos + 1] - at
      BY <1>3, <2>a DEF Mt!WordsPassed
    <3>2. PICK n \in Int : n = h.items[h.pos + 1] - at
      BY <1>a, <2>a
    <3>3. Mt!WordsRead(h, max) = IF n < max THEN n ELSE max
      BY <1>8, <3>1, <3>2 DEF Mt!WordsRead
    <3> QED
      BY <1>8, <3>2, <3>3
  <2>5. Placed(r, q, h.file, h.ofs + (h.items[h.pos + 1] - at))
    BY <1>2, <2>3, <2>4
  <2>6. Whole(r) /\ Same(h, r) /\ r.pos = h.pos + 1 /\ ~Mt!InRecord(r) /\ ~r.end
    BY <2>2, <2>5 DEF Whole, Same, Placed, Mt!InRecord
  <2>7. Marks(r) = Marks(h)
    BY <1>b, <1>8, <2>6, Counts DEF Marks, Same
  <2>8. Exact(h) => Exact(r)
    <3> SUFFICES ASSUME Exact(h) PROVE r.ofs = Words(r)
      BY <2>5, <2>6, <2>7 DEF Exact, Placed
    <3>1. Words(r) = Mt!WordsSinceMark(h.items)[h.pos] + h.items[h.pos + 1] + 0
      BY <1>8, <1>b, <2>a, <2>6, Counts DEF Words, Same
    <3>2. h.ofs = Mt!WordsSinceMark(h.items)[h.pos] + at
      BY <1>c DEF Exact
    <3>3. r.ofs = h.ofs + (h.items[h.pos + 1] - at)
      BY <2>5 DEF Placed
    <3> QED
      BY <1>a, <1>b, <2>a, <3>1, <3>2, <3>3, SMTT(20)
  <2> QED
    BY <1>2, <2>6, <2>8
<1>9. CASE /\ h.exists /\ h.pos < Len(h.items) /\ at + max \in 1 .. h.items[h.pos + 1] - 1
           /\ q = Moved(h, h.pos, at + max, TRUE, FALSE, h.end)
  <2>1. ~h.end
    BY <1>a, <1>9 DEF Whole
  <2>2. /\ q.items = h.items /\ q.exists /\ q.pos = h.pos /\ q.valid /\ ~q.mark /\ ~q.end
        /\ q.exists = h.exists /\ q.sizes = h.sizes /\ q.into = at + max
    BY <1>9, <2>1 DEF Moved
  <2>3. Mt!State(q, TRUE) = "record"
    BY <2>2 DEF Mt!State, Mt!InRecord
  <2>a. h.items[h.pos + 1] \in Nat
    BY <1>a, <1>9, SMTT(20)
  <2>4. Mt!WordsRead(h, max) = max
    <3>1. Mt!WordsPassed(h, h.items[h.pos + 1]) = h.items[h.pos + 1] - at
      BY <1>3, <2>a DEF Mt!WordsPassed
    <3>2. PICK n \in Int : n = h.items[h.pos + 1] - at
      BY <1>a, <2>a
    <3>3. Mt!WordsRead(h, max) = IF n < max THEN n ELSE max
      BY <1>9, <3>1, <3>2 DEF Mt!WordsRead
    <3>4. ~(n < max)
      <4>1. PICK w \in Nat : w = h.items[h.pos + 1]
        BY <2>a
      <4>2. at + max \in 1 .. w - 1 /\ n = w - at
        BY <1>9, <3>2, <4>1
      <4>3. at \in Nat /\ n \in Int /\ max \in Nat
        BY <1>a
      <4>4. at + max <= w - 1
        BY <4>2
      <4> QED
        BY <4>1, <4>2, <4>3, <4>4
    <3> QED
      BY <3>3, <3>4
  <2>5. Placed(r, q, h.file, h.ofs + max)
    BY <1>2, <2>3, <2>4
  <2>6. Whole(r) /\ Same(h, r) /\ r.pos = h.pos /\ Mt!InRecord(r) /\ r.into = at + max /\ ~r.end
    BY <2>1, <2>2, <2>5 DEF Whole, Same, Placed, Mt!InRecord
  <2>7. Marks(r) = Marks(h)
    BY <2>6 DEF Marks, Same
  <2>8. Exact(h) => Exact(r)
    <3> SUFFICES ASSUME Exact(h) PROVE r.ofs = Words(r)
      BY <2>5, <2>6, <2>7 DEF Exact, Placed
    <3>1. Words(r) = Mt!WordsSinceMark(h.items)[h.pos] + (at + max)
      BY <2>6 DEF Words, Same
    <3>2. h.ofs = Mt!WordsSinceMark(h.items)[h.pos] + at
      BY <1>c DEF Exact
    <3>3. r.ofs = h.ofs + max
      BY <2>5 DEF Placed
    <3> QED
      BY <1>a, <1>b, <3>1, <3>2, <3>3
  <2> QED
    BY <1>2, <2>6, <2>8
<1> QED
  <2>1. \/ ~h.exists /\ q = h
        \/ /\ h.exists /\ ~Mt!InRecord(h) /\ h.pos = Len(h.items)
           /\ q = Moved(h, h.pos, h.into, h.valid, h.mark, TRUE)
        \/ /\ h.exists /\ ~Mt!InRecord(h) /\ h.pos < Len(h.items) /\ h.items[h.pos + 1] = 0
           /\ q = Moved(h, h.pos + 1, 0, TRUE, TRUE, h.end)
        \/ /\ h.exists /\ h.pos < Len(h.items) /\ h.items[h.pos + 1] # 0
           /\ max >= h.items[h.pos + 1] - at
           /\ q = Moved(h, h.pos + 1, 0, FALSE, FALSE, h.end)
        \/ /\ h.exists /\ h.pos < Len(h.items) /\ at + max \in 1 .. h.items[h.pos + 1] - 1
           /\ q = Moved(h, h.pos, at + max, TRUE, FALSE, h.end)
    BY <1>1, <1>3, ReadMoves DEF Moved
  <2> QED
    BY <2>1, <1>5, <1>6, <1>7, <1>8, <1>9

(* A rewind counts from the beginning again. *)
LEMMA RewindSteps ==
  ASSUME NEW h, HeadOK(h), Whole(h), NEW r, r = Mt!PokedRewind(h)
  PROVE HeadOK(r) /\ Whole(r) /\ Same(h, r) /\ Exact(r)
<1>1. PICK q : q = Mt!SeekToBeginningOfTape(h)
  OBVIOUS
<1>2. q = Moved(h, 0, 0, FALSE, FALSE, FALSE)
  <2>1. Mt!Reset(h) = Moved(h, h.pos, 0, FALSE, h.mark, h.end)
    <3> SUFFICES ASSUME NEW s, s = Mt!Reset(h)
                 PROVE s = Moved(h, h.pos, 0, FALSE, h.mark, h.end)
      OBVIOUS
    <3> QED
      BY DEF Mt!Reset, HeadOK, Moved
  <2>2. q = [Moved(h, h.pos, 0, FALSE, h.mark, h.end) EXCEPT !.pos = 0, !.end = FALSE,
                                                             !.mark = FALSE]
    BY <1>1, <2>1 DEF Mt!SeekToBeginningOfTape
  <2> QED
    BY <2>2 DEF Moved
<1>3. HeadOK(q)
  <2>1. 0 \in 0 .. Len(h.items) /\ 0 \in Nat /\ FALSE \in BOOLEAN
    BY DEF HeadOK
  <2> QED
    BY <1>2, <2>1, MovedOK
<1>4. r = [q EXCEPT !.file = 0, !.ofs = 0]
  BY <1>1 DEF Mt!PokedRewind
<1>5. HeadOK(r) /\ Placed(r, q, 0, 0)
  BY <1>3, <1>4, PlacedOK
<1>6. /\ q.items = h.items /\ q.exists = h.exists /\ q.pos = 0 /\ ~q.valid /\ ~q.end
      /\ q.sizes = h.sizes
  BY <1>2 DEF Moved
<1>7. /\ Mt!MarksBefore(h.items, 0) = 0 /\ Mt!WordsSinceMark(h.items)[0] = 0
  BY Counts
<1>8. /\ r.pos = 0 /\ r.items = h.items /\ ~Mt!InRecord(r) /\ ~r.end /\ Same(h, r) /\ Whole(r)
      /\ r.file = 0 /\ r.ofs = 0
  BY <1>5, <1>6 DEF Placed, Mt!InRecord, Same, Whole
<1>9. Marks(r) = 0 /\ Words(r) = 0
  BY <1>7, <1>8 DEF Marks, Words
<1> QED
  BY <1>5, <1>8, <1>9 DEF Exact

(* What is mounted is rewound. *)
LEMMA MountSteps ==
  ASSUME NEW items \in Seq(Nat), NEW there \in BOOLEAN, there \/ items = <<>>,
         NEW m \in BOOLEAN, NEW r, r = Mt!NewTape(items, there, m)
  PROVE Whole(r) /\ Sized(r) /\ Exact(r)
<1>1. /\ r.items = items /\ r.exists = there /\ r.pos = 0 /\ r.valid = FALSE /\ r.end = FALSE
      /\ r.file = 0 /\ r.ofs = 0 /\ r.sizes = IF there THEN Mt!FileSizes(items) ELSE <<>>
  BY DEF Mt!NewTape
<1>2. Whole(r) /\ Sized(r) /\ ~Mt!InRecord(r)
  BY <1>1 DEF Whole, Sized, Mt!InRecord
<1>3. Mt!MarksBefore(items, 0) = 0 /\ Mt!WordsSinceMark(items)[0] = 0
  BY MarksCount, WordsCount
<1>4. Marks(r) = 0 /\ Words(r) = 0
  BY <1>1, <1>2, <1>3 DEF Marks, Words
<1> QED
  BY <1>1, <1>2, <1>4 DEF Exact

(* A written head is not at the end it met. *)
LEMMA WriteSteps ==
  ASSUME NEW h, HeadOK(h), NEW size \in Nat, NEW r, r = Mt!WriteRecordInternal(h, size)
  PROVE Whole(r) /\ Whole([r EXCEPT !.file = @ + 1])
<1>1. r.exists = TRUE /\ r.end = FALSE
  BY DEF Mt!WriteRecordInternal, Mt!Reset, HeadOK
<1>2. HeadOK(r)
  BY WriteOK
<1>3. PICK s : s = [r EXCEPT !.file = @ + 1]
  OBVIOUS
<1>4. s.exists = TRUE /\ s.end = FALSE
  BY <1>1, <1>2, <1>3 DEF HeadOK
<1> QED
  BY <1>1, <1>3, <1>4 DEF Whole

(* Both drives use the same image file. *)
LEMMA SameOperators ==
  ASSUME NEW h, NEW n
  PROVE /\ Bm!T!PokedNext(h) = Mt!PokedNext(h)
        /\ Bm!T!PokedPrev(h, n) = Mt!PokedPrev(h, n)
        /\ Bm!T!PokedRead(h, n) = Mt!PokedRead(h, n)
        /\ Bm!T!PokedRewind(h) = Mt!PokedRewind(h)
        /\ Bm!T!WriteRecordInternal(h, n) = Mt!WriteRecordInternal(h, n)
        /\ Bm!T!WordsRead(h, n) = Mt!WordsRead(h, n)
        /\ Bm!T!PrevAsserts(h) <=> Mt!PrevAsserts(h)
        /\ Bm!T!State(h, n) = Mt!State(h, n)
        /\ Bm!Marks(h) = Mt!MarksBefore(h.items, h.pos)
<1>0. Bm!Marks(h) = Mt!MarksBefore(h.items, h.pos)
  BY SameCardinality DEF Bm!Marks, Bm!T!MarksBefore, Mt!MarksBefore
<1> USE DEF Bm!T!InRecord, Mt!InRecord, Bm!T!State, Mt!State, Bm!T!Reset, Mt!Reset,
            Bm!T!WordsPassed, Mt!WordsPassed, Bm!T!WordsRead, Mt!WordsRead
<1>1. Bm!T!PokedNext(h) = Mt!PokedNext(h)
  BY DEF Bm!T!PokedNext, Mt!PokedNext, Bm!T!SeekToNextRecord, Mt!SeekToNextRecord
<1>2. Bm!T!PokedPrev(h, n) = Mt!PokedPrev(h, n)
  BY DEF Bm!T!PokedPrev, Mt!PokedPrev, Bm!T!SeekToPrevRecord, Mt!SeekToPrevRecord
<1>3. Bm!T!PokedRead(h, n) = Mt!PokedRead(h, n)
  BY DEF Bm!T!PokedRead, Mt!PokedRead, Bm!T!Read, Mt!Read
<1>4. Bm!T!PokedRewind(h) = Mt!PokedRewind(h)
  BY DEF Bm!T!PokedRewind, Mt!PokedRewind, Bm!T!SeekToBeginningOfTape, Mt!SeekToBeginningOfTape
<1>5. Bm!T!WriteRecordInternal(h, n) = Mt!WriteRecordInternal(h, n)
  BY DEF Bm!T!WriteRecordInternal, Mt!WriteRecordInternal
<1>6. Bm!T!WordsRead(h, n) = Mt!WordsRead(h, n) /\ Bm!T!State(h, n) = Mt!State(h, n)
  OBVIOUS
<1>7. Bm!T!PrevAsserts(h) <=> Mt!PrevAsserts(h)
  BY DEF Bm!T!PrevAsserts, Mt!PrevAsserts, Bm!T!SeekToPrevRecord, Mt!SeekToPrevRecord
<1> QED
  BY <1>0, <1>1, <1>2, <1>3, <1>4, <1>5, <1>6, <1>7

(* A command repeats one of four steps over the tape.  Both drives step    *)
(* forward ...                                                             *)
Forth(mode, s) ==
  CASE mode = "forward" ->
         LET next == Mt!PokedNext(s.h)
             hit == Mt!State(next, TRUE) \in {"file", "end"}
         IN  IF s.stop THEN s
             ELSE [h |-> next, left |-> IF hit THEN s.left ELSE s.left - 1, stop |-> hit]
    [] mode = "advance" ->
         LET next == Bm!T!PokedNext(s.h)
         IN  IF s.stop THEN s
             ELSE [h |-> next, stop |-> Bm!T!State(next, TRUE) \in {"file", "end"}]

(* ... and backward. *)
Back(mode, junk, s) ==
  CASE mode = "backward" ->
         LET prev == Mt!PokedPrev(s.h, junk)
             hit == Mt!State(prev, FALSE) = "file"
         IN  IF s.stop \/ ~s.ok THEN s
             ELSE IF ~Mt!PrevAsserts(s.h) THEN [s EXCEPT !.ok = FALSE]
             ELSE [h |-> prev, left |-> IF hit THEN s.left ELSE s.left - 1, stop |-> hit,
                   ok |-> TRUE]
    [] mode = "reverse" ->
         LET prev == Bm!T!PokedPrev(s.h, junk)
         IN  IF s.stop \/ ~s.ok THEN s
             ELSE IF ~Bm!T!PrevAsserts(s.h) THEN [s EXCEPT !.ok = FALSE]
             ELSE [h |-> prev, ok |-> TRUE, stop |-> Bm!T!State(prev, FALSE) = "file"]

(* A loop forward from a head h that has taken n steps has passed at least *)
(* n items and no mark; one that has stopped is behind the first mark or   *)
(* at the end.                                                             *)
Ahead(h, s, n) ==
  /\ HeadOK(s.h) /\ Whole(s.h) /\ Same(h, s.h) /\ s.stop \in BOOLEAN
  /\ Exact(h) => Exact(s.h) \/ Mt!State(s.h, TRUE) = "end"
  /\ ~s.stop => s.h.pos >= n /\ Marks(s.h) = Marks(h) /\ (Exact(h) => Exact(s.h))
  /\ s.stop => IF Mt!State(s.h, TRUE) = "end"
               THEN s.h.pos = Len(h.items) /\ Marks(s.h) = Marks(h)
               ELSE s.h.items[s.h.pos] = 0 /\ Marks(s.h) = Marks(h) + 1

(* A loop backward that has stopped is in front of the first mark. *)
Behind(h, s) ==
  /\ {"h", "stop", "ok"} \subseteq DOMAIN s /\ s.stop \in BOOLEAN /\ s.ok \in BOOLEAN
  /\ HeadOK(s.h) /\ Whole(s.h) /\ Same(h, s.h)
  /\ Exact(h) /\ Sized(h) => Exact(s.h)
  /\ IF s.stop THEN s.h.items[s.h.pos + 1] = 0 /\ Marks(s.h) = Marks(h) - 1
     ELSE Marks(s.h) = Marks(h) \/ (s.h.pos = 0 /\ ~Mt!InRecord(s.h))

(* A step forward *)
LEMMA AheadStep ==
  ASSUME NEW mode \in {"forward", "advance"}, NEW h, HeadOK(h), NEW n \in Nat, NEW s,
         Ahead(h, s, n)
  PROVE Ahead(h, Forth(mode, s), n + 1)
<1>1. CASE s.stop
  <2>1. Forth(mode, s) = s
    <3>1. CASE mode = "forward"
      BY <1>1, <3>1 DEF Forth
    <3>2. CASE mode = "advance"
      BY <1>1, <3>2 DEF Forth
    <3> QED
      BY <3>1, <3>2
  <2> QED
    BY <1>1, <2>1 DEF Ahead
<1>2. CASE ~s.stop
  <2>1. PICK g : g = s.h
    OBVIOUS
  <2>2. PICK next : next = Mt!PokedNext(g) /\ next = Bm!T!PokedNext(g)
    BY SameOperators
  <2>3. PICK r : r = Forth(mode, s)
    OBVIOUS
  <2>4. r.h = next /\ r.stop \in BOOLEAN /\ (r.stop <=> Mt!State(next, TRUE) \in {"file", "end"})
    <3>1. Bm!T!State(next, TRUE) = Mt!State(next, TRUE)
      BY SameOperators
    <3>2. PICK hit \in BOOLEAN : hit = (Mt!State(next, TRUE) \in {"file", "end"})
      <4>1. (Mt!State(next, TRUE) \in {"file", "end"}) \in BOOLEAN
        OBVIOUS
      <4> QED
        BY <4>1
    <3>3. CASE mode = "forward"
      <4>1. r = [h |-> next, left |-> IF hit THEN s.left ELSE s.left - 1, stop |-> hit]
        BY <1>2, <2>1, <2>2, <2>3, <3>2, <3>3 DEF Forth
      <4> QED
        BY <3>2, <4>1
    <3>4. CASE mode = "advance"
      <4>1. r = [h |-> next, stop |-> hit]
        BY <1>2, <2>1, <2>2, <2>3, <3>1, <3>2, <3>4 DEF Forth
      <4> QED
        BY <3>2, <4>1
    <3> QED
      BY <3>3, <3>4
  <2>5. /\ HeadOK(g) /\ Whole(g) /\ Same(h, g) /\ g.pos >= n /\ Marks(g) = Marks(h)
        /\ Exact(h) => Exact(g)
    BY <1>2, <2>1 DEF Ahead
  <2>6. /\ HeadOK(next) /\ Whole(next) /\ Same(g, next)
        /\ Exact(g) => Exact(next) \/ Mt!State(next, TRUE) = "end"
        /\ CASE Mt!State(next, TRUE) = "end" -> next.pos = Len(g.items) /\ Marks(next) = Marks(g)
             [] Mt!State(next, TRUE) = "file" ->
                  next.items[next.pos] = 0 /\ Marks(next) = Marks(g) + 1
             [] OTHER -> next.pos = g.pos + 1 /\ Marks(next) = Marks(g)
    BY <2>2, <2>5, NextSteps
  <2>7. Same(h, next) /\ g.items = h.items
    BY <2>5, <2>6 DEF Same
  <2>8. g.pos \in Nat
    BY <2>5 DEF HeadOK
  <2>9. Ahead(h, r, n + 1)
    <3>1. CASE Mt!State(next, TRUE) = "end"
      BY <2>4, <2>5, <2>6, <2>7, <3>1 DEF Ahead
    <3>2. CASE Mt!State(next, TRUE) = "file"
      BY <2>4, <2>5, <2>6, <2>7, <3>2 DEF Ahead
    <3>3. CASE Mt!State(next, TRUE) \notin {"file", "end"}
      <4>1. next.pos = g.pos + 1 /\ Marks(next) = Marks(g)
        BY <2>6, <3>3
      <4>2. g.pos >= n /\ next.pos >= n + 1
        BY <2>5, <2>8, <4>1
      <4> QED
        BY <2>4, <2>5, <2>6, <2>7, <3>3, <4>1, <4>2 DEF Ahead
    <3> QED
      BY <3>1, <3>2, <3>3
  <2> QED
    BY <2>3, <2>9
<1> QED
  BY <1>1, <1>2 DEF Ahead

(* A step backward *)
LEMMA BehindStep ==
  ASSUME NEW mode \in {"backward", "reverse"}, NEW junk, NEW h, HeadOK(h), NEW s,
         Behind(h, s)
  PROVE Behind(h, Back(mode, junk, s))
<1>1. CASE s.stop \/ ~s.ok
  <2>1. Back(mode, junk, s) = s
    <3>1. CASE mode = "backward"
      BY <1>1, <3>1 DEF Back
    <3>2. CASE mode = "reverse"
      BY <1>1, <3>2 DEF Back
    <3> QED
      BY <3>1, <3>2
  <2> QED
    BY <2>1
<1>2. CASE ~s.stop /\ s.ok
  <2>1. PICK g : g = s.h
    OBVIOUS
  <2>2. PICK prev : prev = Mt!PokedPrev(g, junk) /\ prev = Bm!T!PokedPrev(g, junk)
    BY SameOperators
  <2>3. PICK r : r = Back(mode, junk, s)
    OBVIOUS
  <2>4. \/ r = [s EXCEPT !.ok = FALSE]
        \/ /\ {"h", "stop", "ok"} \subseteq DOMAIN r
           /\ r.h = prev /\ r.ok = TRUE /\ r.stop \in BOOLEAN
           /\ r.stop <=> Mt!State(prev, FALSE) = "file"
    <3>1. Bm!T!State(prev, FALSE) = Mt!State(prev, FALSE)
      BY SameOperators
    <3>2. CASE mode = "backward"
      BY <1>2, <2>1, <2>2, <2>3, <3>2 DEF Back
    <3>3. CASE mode = "reverse"
      BY <1>2, <2>1, <2>2, <2>3, <3>1, <3>3 DEF Back
    <3> QED
      BY <3>2, <3>3
  <2>5. CASE r = [s EXCEPT !.ok = FALSE]
    <3>1. DOMAIN r = DOMAIN s /\ r.h = s.h /\ r.stop = s.stop /\ r.ok = FALSE
      BY <2>5 DEF Behind
    <3> QED
      BY <2>3, <3>1 DEF Behind
  <2>6. CASE /\ {"h", "stop", "ok"} \subseteq DOMAIN r
             /\ r.h = prev /\ r.ok = TRUE /\ r.stop \in BOOLEAN
             /\ r.stop <=> Mt!State(prev, FALSE) = "file"
    <3>1. /\ HeadOK(g) /\ Whole(g) /\ Same(h, g)
          /\ Exact(h) /\ Sized(h) => Exact(g)
          /\ Marks(g) = Marks(h) \/ (g.pos = 0 /\ ~Mt!InRecord(g))
      BY <1>2, <2>1 DEF Behind
    <3>2. /\ HeadOK(prev) /\ Whole(prev) /\ Same(g, prev)
          /\ Exact(g) /\ Sized(g) => Exact(prev)
          /\ IF Mt!State(prev, FALSE) = "file"
             THEN prev.items[prev.pos + 1] = 0 /\ Marks(prev) = Marks(g) - 1 /\ g.pos > 0
             ELSE Marks(prev) = Marks(g) \/ (prev.pos = 0 /\ ~Mt!InRecord(prev))
          /\ g.pos = 0 /\ ~Mt!InRecord(g) => prev.pos = 0 /\ ~Mt!InRecord(prev)
      BY <2>2, <3>1, PrevSteps
    <3>3. Same(h, prev) /\ (Sized(h) => Sized(g))
      BY <3>1, <3>2 DEF Same, Sized
    <3>4. Behind(h, r)
      <4>1. CASE Mt!State(prev, FALSE) = "file"
        <5>1. prev.items[prev.pos + 1] = 0 /\ Marks(prev) = Marks(g) - 1 /\ g.pos > 0
          BY <3>2, <4>1
        <5>2. Marks(prev) = Marks(h) - 1
          BY <3>1, <5>1
        <5> QED
          BY <2>6, <3>1, <3>2, <3>3, <4>1, <5>1, <5>2 DEF Behind
      <4>2. CASE Mt!State(prev, FALSE) # "file"
        BY <2>6, <3>1, <3>2, <3>3, <4>2 DEF Behind
      <4> QED
        BY <4>1, <4>2
    <3> QED
      BY <2>3, <3>4
  <2> QED
    BY <2>4, <2>5, <2>6
<1> QED
  BY <1>1, <1>2 DEF Behind

(* A step in one of the two directions *)
OneStep(mode, junk, s) ==
  IF mode \in {"forward", "advance"} THEN Forth(mode, s) ELSE Back(mode, junk, s)

(* The recursive function of a loop of n steps *)
Run(g, n, mode, junk, a) ==
  g = [k \in 0 .. n |-> IF k = 0 THEN a ELSE OneStep(mode, junk, g[k - 1])]

(* What a recursive function defines exists: the runs of every length do. *)
LEMMA Runs == ASSUME NEW mode, NEW junk, NEW a, NEW L \in Nat PROVE \E g : Run(g, L, mode, junk, a)
<1> DEFINE Ran == {n \in Nat : \E g : Run(g, n, mode, junk, a)}
<1>1. 0 \in Ran
  <2>1. Run([k \in 0 .. 0 |-> a], 0, mode, junk, a)
    BY DEF Run
  <2> QED
    BY <2>1
<1>2. ASSUME NEW n \in Nat, n \in Ran PROVE n + 1 \in Ran
  <2> SUFFICES \E g : Run(g, n + 1, mode, junk, a)
    OBVIOUS
  <2>1. PICK h : Run(h, n, mode, junk, a)
    BY <1>2
  <2>2. \A k \in 0 .. n : h[k] = IF k = 0 THEN a ELSE OneStep(mode, junk, h[k - 1])
    BY <2>1 DEF Run
  <2> DEFINE g == [k \in 0 .. n + 1 |-> IF k <= n THEN h[k] ELSE OneStep(mode, junk, h[n])]
  <2>3. (\A k \in 0 .. n : g[k] = h[k]) /\ g[n + 1] = OneStep(mode, junk, h[n])
    OBVIOUS
  <2>4. ASSUME NEW k \in 0 .. n + 1
        PROVE g[k] = IF k = 0 THEN a ELSE OneStep(mode, junk, g[k - 1])
    <3> HIDE DEF g
    <3>1. CASE k \in 0 .. n
      <4>1. k # 0 => k - 1 \in 0 .. n
        BY <3>1
      <4> QED
        BY <2>2, <2>3, <3>1, <4>1
    <3>2. CASE k = n + 1
      <4>1. k - 1 = n /\ n \in 0 .. n /\ k # 0
        BY <3>2
      <4> QED
        BY <2>3, <3>2, <4>1
    <3> QED
      BY <3>1, <3>2
  <2>5. Run(g, n + 1, mode, junk, a)
    BY <2>4 DEF Run
  <2> QED
    BY <2>5
<1>3. L \in Ran
  <2> HIDE DEF Ran
  <2> QED
    BY <1>1, <1>2, SetInduction
<1> QED
  BY <1>3

(* A loop forward has gone as far as it has taken steps, or stopped. *)
LEMMA RunAhead ==
  ASSUME NEW mode \in {"forward", "advance"}, NEW junk, NEW a, NEW L \in Nat, NEW h, HeadOK(h),
         Ahead(h, a, 0), NEW f,
         \A k \in 0 .. L : f[k] = IF k = 0 THEN a ELSE OneStep(mode, junk, f[k - 1])
  PROVE Ahead(h, f[L], L)
<1> DEFINE S == {k \in 0 .. L : Ahead(h, f[k], k)}
<1>1. 0 \in S
  <2>1. f[0] = a
    OBVIOUS
  <2> QED
    BY <2>1
<1>2. ASSUME NEW n \in 0 .. L - 1, n \in S PROVE n + 1 \in S
  <2> SUFFICES Ahead(h, f[n + 1], n + 1)
    OBVIOUS
  <2>1. n \in Nat /\ n + 1 \in 0 .. L /\ n + 1 # 0 /\ (n + 1) - 1 = n
    OBVIOUS
  <2>2. f[n + 1] = Forth(mode, f[n])
    BY <2>1 DEF OneStep
  <2>3. Ahead(h, f[n], n)
    BY <1>2
  <2>4. Ahead(h, Forth(mode, f[n]), n + 1)
    BY <2>1, <2>3, AheadStep
  <2> QED
    BY <2>2, <2>4
<1>3. L \in S
  <2> HIDE DEF S
  <2> QED
    BY <1>1, <1>2, UpTo
<1> QED
  BY <1>3

(* A loop backward that has stopped is in front of a mark. *)
LEMMA RunBehind ==
  ASSUME NEW mode \in {"backward", "reverse"}, NEW junk, NEW a, NEW L \in Nat, NEW h, HeadOK(h),
         Behind(h, a), NEW f,
         \A k \in 0 .. L : f[k] = IF k = 0 THEN a ELSE OneStep(mode, junk, f[k - 1])
  PROVE Behind(h, f[L])
<1> DEFINE S == {k \in 0 .. L : Behind(h, f[k])}
<1>1. 0 \in S
  <2>1. f[0] = a
    OBVIOUS
  <2> QED
    BY <2>1
<1>2. ASSUME NEW n \in 0 .. L - 1, n \in S PROVE n + 1 \in S
  <2> SUFFICES Behind(h, f[n + 1])
    OBVIOUS
  <2>1. n \in Nat /\ n + 1 \in 0 .. L /\ n + 1 # 0 /\ (n + 1) - 1 = n
    OBVIOUS
  <2>2. f[n + 1] = Back(mode, junk, f[n])
    BY <2>1 DEF OneStep
  <2>3. Behind(h, f[n])
    BY <1>2
  <2>4. Behind(h, Back(mode, junk, f[n]))
    BY <2>3, BehindStep
  <2> QED
    BY <2>2, <2>4
<1>3. L \in S
  <2> HIDE DEF S
  <2> QED
    BY <1>1, <1>2, UpTo
<1> QED
  BY <1>3

(* The loop of a skip forward, ... *)
LEMMA SpaceForwardOK ==
  ASSUME NEW n \in Nat, HeadOK(tapeHead), Whole(tapeHead), Mt!SpaceForward(n)
  PROVE \E s : tapeHead' = s.h /\ Ahead(tapeHead, s, n)
<1> DEFINE L == n
           a == [h |-> tapeHead, left |-> n, stop |-> FALSE]
           then(s) == LET next == Mt!PokedNext(s.h)
                          hit == Mt!State(next, TRUE) \in {"file", "end"}
                      IN  IF s.stop THEN s
                          ELSE [h |-> next, left |-> IF hit THEN s.left ELSE s.left - 1,
                                stop |-> hit]
           IsRun(g) == g = [k \in 0 .. L |-> IF k = 0 THEN a ELSE then(g[k - 1])]
           f == CHOOSE g : IsRun(g)
<1>1. tapeHead' = f[L].h
  BY DEF Mt!SpaceForward
<1>2. Ahead(tapeHead, a, 0)
  <2>1. tapeHead.pos >= 0
    BY DEF HeadOK
  <2> QED
    BY <2>1 DEF Ahead, Same
<1>3. Ahead(tapeHead, f[L], n)
  <2>1. \A s : then(s) = OneStep("forward", 0, s)
    BY DEF OneStep, Forth
  <2> HIDE DEF then, a
  <2>2. \A g : IsRun(g) <=> Run(g, L, "forward", 0, a)
    BY <2>1 DEF Run
  <2>3. \E g : IsRun(g)
    BY <2>2, Runs
  <2>4. Run(f, L, "forward", 0, a)
    BY <2>2, <2>3
  <2> HIDE DEF f
  <2>5. PICK g : g = f
    OBVIOUS
  <2>6. \A k \in 0 .. L : g[k] = IF k = 0 THEN a ELSE OneStep("forward", 0, g[k - 1])
    BY <2>4, <2>5 DEF Run
  <2>7. Ahead(tapeHead, g[L], L)
    BY <1>2, <2>6, RunAhead
  <2> QED
    BY <2>5, <2>7
<1> HIDE DEF f, L
<1> QED
  BY <1>1, <1>3

(* ... of a skip backward, ... *)
LEMMA SpaceBackwardOK ==
  ASSUME NEW n \in Nat, HeadOK(tapeHead), Whole(tapeHead), Mt!SpaceBackward(n)
  PROVE \E s : tapeHead' = s.h /\ Behind(tapeHead, s)
<1> DEFINE L == n
           a == [h |-> tapeHead, left |-> n, stop |-> FALSE, ok |-> TRUE]
           then(s, junk) ==
             LET prev == Mt!PokedPrev(s.h, junk)
                 hit == Mt!State(prev, FALSE) = "file"
             IN  IF s.stop \/ ~s.ok THEN s
                 ELSE IF ~Mt!PrevAsserts(s.h) THEN [s EXCEPT !.ok = FALSE]
                 ELSE [h |-> prev, left |-> IF hit THEN s.left ELSE s.left - 1, stop |-> hit,
                       ok |-> TRUE]
           IsRun(g, junk) == g = [k \in 0 .. L |-> IF k = 0 THEN a ELSE then(g[k - 1], junk)]
           f(junk) == CHOOSE g : IsRun(g, junk)
<1>1. \E junk \in 0 .. 1 : tapeHead' = f(junk)[L].h
  BY DEF Mt!SpaceBackward
<1>2. Behind(tapeHead, a)
  BY DEF Behind, Same
<1>3. ASSUME NEW junk PROVE Behind(tapeHead, f(junk)[L])
  <2>1. \A s : then(s, junk) = OneStep("backward", junk, s)
    BY DEF OneStep, Back
  <2> HIDE DEF then, a
  <2>2. \A g : IsRun(g, junk) <=> Run(g, L, "backward", junk, a)
    BY <2>1 DEF Run
  <2>3. \E g : IsRun(g, junk)
    BY <2>2, Runs
  <2>4. Run(f(junk), L, "backward", junk, a)
    BY <2>2, <2>3
  <2> HIDE DEF f
  <2>5. PICK g : g = f(junk)
    OBVIOUS
  <2>6. \A k \in 0 .. L : g[k] = IF k = 0 THEN a ELSE OneStep("backward", junk, g[k - 1])
    BY <2>4, <2>5 DEF Run
  <2>7. Behind(tapeHead, g[L])
    BY <1>2, <2>6, RunBehind
  <2> QED
    BY <2>5, <2>7
<1> HIDE DEF f, L
<1> QED
  BY <1>1, <1>3

(* ... and those of the block multiplexer's drive, back to a mark ... *)
LEMMA BackspaceFileOK ==
  ASSUME HeadOK(bmxHead), Whole(bmxHead), Bm!BackspaceFile
  PROVE \/ bmxHead' = bmxHead /\ (bmxFailed' \/ hung')
        \/ \E s : bmxHead' = s.h /\ Behind(bmxHead, s) /\ s.stop
<1> DEFINE L == Bm!Steps
           a == [h |-> bmxHead, ok |-> TRUE, stop |-> FALSE]
           then(s, junk) ==
             LET prev == Bm!T!PokedPrev(s.h, junk)
             IN  IF s.stop \/ ~s.ok THEN s
                 ELSE IF ~Bm!T!PrevAsserts(s.h) THEN [s EXCEPT !.ok = FALSE]
                 ELSE [h |-> prev, ok |-> TRUE, stop |-> Bm!T!State(prev, FALSE) = "file"]
           IsRun(g, junk) == g = [k \in 0 .. L |-> IF k = 0 THEN a ELSE then(g[k - 1], junk)]
           f(junk) == CHOOSE g : IsRun(g, junk)
<1>1. \/ bmxHead' = bmxHead /\ (bmxFailed' \/ hung')
      \/ \E junk \in 0 .. 1 : bmxHead' = f(junk)[L].h /\ f(junk)[L].stop
  BY DEF Bm!BackspaceFile, Bm!Fails, Bm!Hangs, Bm!tape
<1>2. L \in Nat
  BY DEF HeadOK, Bm!Steps
<1>3. Behind(bmxHead, a)
  BY DEF Behind, Same
<1>4. ASSUME NEW junk PROVE Behind(bmxHead, f(junk)[L])
  <2>1. \A s : then(s, junk) = OneStep("reverse", junk, s)
    BY DEF OneStep, Back
  <2> HIDE DEF then, a, L
  <2>2. \A g : IsRun(g, junk) <=> Run(g, L, "reverse", junk, a)
    BY <2>1 DEF Run
  <2>3. \E g : IsRun(g, junk)
    BY <1>2, <2>2, Runs
  <2>4. Run(f(junk), L, "reverse", junk, a)
    BY <2>2, <2>3
  <2> HIDE DEF f
  <2>5. PICK g : g = f(junk)
    OBVIOUS
  <2>6. \A k \in 0 .. L : g[k] = IF k = 0 THEN a ELSE OneStep("reverse", junk, g[k - 1])
    BY <2>4, <2>5 DEF Run
  <2>7. Behind(bmxHead, g[L])
    BY <1>2, <1>3, <2>6, RunBehind
  <2> QED
    BY <2>5, <2>7
<1> HIDE DEF f, L
<1> QED
  BY <1>1, <1>4

(* ... and forward to one.  There are fewer items on the tape than steps,  *)
(* so the loop has stopped.                                                *)
LEMMA ForwardSpaceFileOK ==
  ASSUME HeadOK(bmxHead), Whole(bmxHead), Bm!ForwardSpaceFile
  PROVE \E s : /\ bmxHead' = s.h /\ Ahead(bmxHead, s, Bm!Steps) /\ s.stop
               /\ bmxStatus' = Bm!Bits(FALSE, Mt!State(s.h, TRUE) = "end")
<1> DEFINE L == Bm!Steps
           a == [h |-> bmxHead, stop |-> FALSE]
           then(s) ==
             LET next == Bm!T!PokedNext(s.h)
             IN  IF s.stop THEN s
                 ELSE [h |-> next, stop |-> Bm!T!State(next, TRUE) \in {"file", "end"}]
           IsRun(g) == g = [k \in 0 .. L |-> IF k = 0 THEN a ELSE then(g[k - 1])]
           f == CHOOSE g : IsRun(g)
<1>1. bmxHead' = f[L].h /\ bmxStatus' = Bm!Bits(FALSE, Bm!T!State(f[L].h, TRUE) = "end")
  BY DEF Bm!ForwardSpaceFile, Bm!Ends
<1>2. L \in Nat
  BY DEF HeadOK, Bm!Steps
<1>3. Ahead(bmxHead, a, 0)
  <2>1. bmxHead.pos >= 0
    BY DEF HeadOK
  <2> QED
    BY <2>1 DEF Ahead, Same
<1>4. Ahead(bmxHead, f[L], L)
  <2>1. \A s : then(s) = OneStep("advance", 0, s)
    BY DEF OneStep, Forth
  <2> HIDE DEF then, a, L
  <2>2. \A g : IsRun(g) <=> Run(g, L, "advance", 0, a)
    BY <2>1 DEF Run
  <2>3. \E g : IsRun(g)
    BY <1>2, <2>2, Runs
  <2>4. Run(f, L, "advance", 0, a)
    BY <2>2, <2>3
  <2> HIDE DEF f
  <2>5. PICK g : g = f
    OBVIOUS
  <2>6. \A k \in 0 .. L : g[k] = IF k = 0 THEN a ELSE OneStep("advance", 0, g[k - 1])
    BY <2>4, <2>5 DEF Run
  <2>7. Ahead(bmxHead, g[L], L)
    BY <1>2, <1>3, <2>6, RunAhead
  <2> QED
    BY <2>5, <2>7
<1> HIDE DEF f
<1>5. PICK s : s = f[L]
  OBVIOUS
<1>6. Ahead(bmxHead, s, L) /\ Bm!T!State(s.h, TRUE) = Mt!State(s.h, TRUE)
  BY <1>4, <1>5, SameOperators
<1>7. s.stop
  <2>1. s.stop \/ s.h.pos >= L
    BY <1>6 DEF Ahead
  <2>2. s.h.pos <= Len(bmxHead.items) /\ s.h.pos \in Nat
    BY <1>6 DEF Ahead, Same, HeadOK
  <2>3. Len(bmxHead.items) \in Nat /\ L = Len(bmxHead.items) + 2
    BY DEF HeadOK, Bm!Steps
  <2> QED
    BY <2>1, <2>2, <2>3
<1> QED
  BY <1>1, <1>5, <1>6, <1>7

(* The inductive invariant of the expander's drive.  Only a tape that was  *)
(* not written has the file sizes that were counted when it was mounted,   *)
(* and a step back over a mark takes the offset from them; and the file    *)
(* index and the offset are right unless the tape was written, its end was *)
(* met since the last rewind, or an assertion has failed.                  *)
TapeInv ==
  /\ HeadOK(tapeHead) /\ Whole(tapeHead)
  /\ ~written => Sized(tapeHead)
  /\ ~(written \/ ended \/ tapeFailed) => Exact(tapeHead)

(* It holds at the start, ... *)
LEMMA TapeInit == ASSUME TapeImages \subseteq Seq(Nat), Mt!Init PROVE TapeInv
<1>1. PICK items \in TapeImages, m \in BOOLEAN :
        tapeHead \in {Mt!NewTape(items, TRUE, m), Mt!NewTape(<<>>, FALSE, m)}
  BY DEF Mt!Init
<1>2. items \in Seq(Nat) /\ <<>> \in Seq(Nat) /\ TRUE \in BOOLEAN /\ FALSE \in BOOLEAN
  OBVIOUS
<1>3. HeadOK(Mt!NewTape(items, TRUE, m)) /\ HeadOK(Mt!NewTape(<<>>, FALSE, m))
  BY <1>2, MountedOK, Zenon
<1>4. PICK there \in BOOLEAN, tape \in Seq(Nat) :
        (there \/ tape = <<>>) /\ tapeHead = Mt!NewTape(tape, there, m)
  BY <1>1, <1>2
<1>5. Whole(tapeHead) /\ Sized(tapeHead) /\ Exact(tapeHead)
  BY <1>4, MountSteps
<1> QED
  BY <1>1, <1>3, <1>5 DEF TapeInv

(* ... and every order keeps it: a read, ... *)
LEMMA TapeRead ==
  ASSUME TapeInv, NEW n \in Nat, n > 0, Mt!ReadForward(n) PROVE TapeInv'
<1>a. HeadOK(tapeHead) /\ Whole(tapeHead)
  BY DEF TapeInv
<1>1. /\ tapeHead' = Mt!PokedRead(tapeHead, n) /\ UNCHANGED <<written, tapeFailed>>
      /\ ended' = (ended \/ Mt!State(tapeHead', TRUE) = "end")
  BY DEF Mt!ReadForward
<1>2. PICK r : r = tapeHead'
  OBVIOUS
<1>3. /\ HeadOK(r) /\ Whole(r) /\ Same(tapeHead, r)
      /\ Exact(tapeHead) => Exact(r) \/ Mt!State(r, TRUE) = "end"
  BY <1>a, <1>1, <1>2, ReadSteps
<1>4. Sized(tapeHead) => Sized(r)
  BY <1>3 DEF Sized, Same
<1>5. ~ended' => ~ended /\ Mt!State(r, TRUE) # "end"
  BY <1>1, <1>2
<1>6. /\ ~written' => Sized(r)
      /\ ~(written' \/ ended' \/ tapeFailed') => Exact(r)
  BY <1>1, <1>3, <1>4, <1>5 DEF TapeInv
<1> QED
  BY <1>2, <1>3, <1>6 DEF TapeInv

(* ... a skip forward ... *)
LEMMA TapeForward ==
  ASSUME TapeInv, NEW n \in Nat, Mt!SpaceForward(n) PROVE TapeInv'
<1>a. HeadOK(tapeHead) /\ Whole(tapeHead)
  BY DEF TapeInv
<1>1. /\ UNCHANGED <<written, tapeFailed>>
      /\ ended' = (ended \/ Mt!State(tapeHead', TRUE) = "end")
  BY DEF Mt!SpaceForward
<1>2. PICK s : tapeHead' = s.h /\ Ahead(tapeHead, s, n)
  BY <1>a, SpaceForwardOK
<1>3. PICK r : r = tapeHead'
  OBVIOUS
<1>4. /\ HeadOK(r) /\ Whole(r) /\ Same(tapeHead, r)
      /\ Exact(tapeHead) => Exact(r) \/ Mt!State(r, TRUE) = "end"
  BY <1>2, <1>3 DEF Ahead
<1>5. Sized(tapeHead) => Sized(r)
  BY <1>4 DEF Sized, Same
<1>6. ~ended' => ~ended /\ Mt!State(r, TRUE) # "end"
  BY <1>1, <1>3
<1>7. /\ ~written' => Sized(r)
      /\ ~(written' \/ ended' \/ tapeFailed') => Exact(r)
  BY <1>1, <1>4, <1>5, <1>6 DEF TapeInv
<1> QED
  BY <1>3, <1>4, <1>7 DEF TapeInv

(* ... or backward, ... *)
LEMMA TapeBackward ==
  ASSUME TapeInv, NEW n \in Nat, Mt!SpaceBackward(n), ~tapeFailed PROVE TapeInv'
<1>a. HeadOK(tapeHead) /\ Whole(tapeHead)
  BY DEF TapeInv
<1>1. UNCHANGED <<written, ended>>
  BY DEF Mt!SpaceBackward
<1>2. PICK s : tapeHead' = s.h /\ Behind(tapeHead, s)
  BY <1>a, SpaceBackwardOK
<1>3. PICK r : r = tapeHead'
  OBVIOUS
<1>4. /\ HeadOK(r) /\ Whole(r) /\ Same(tapeHead, r)
      /\ Exact(tapeHead) /\ Sized(tapeHead) => Exact(r)
  BY <1>2, <1>3 DEF Behind
<1>5. Sized(tapeHead) => Sized(r)
  BY <1>4 DEF Sized, Same
<1>6. /\ ~written' => Sized(r)
      /\ ~(written' \/ ended' \/ tapeFailed') => Exact(r)
  BY <1>1, <1>4, <1>5 DEF TapeInv
<1> QED
  BY <1>3, <1>4, <1>6 DEF TapeInv

(* ... and the rest. *)
LEMMA TapeStep ==
  ASSUME TapeImages \subseteq Seq(Nat), MaxSize \in Nat, TapeInv, [Mt!Next]_(Mt!vars)
  PROVE TapeInv'
<1>a. HeadOK(tapeHead) /\ Whole(tapeHead)
  BY DEF TapeInv
<1>1. ASSUME NEW n \in 1 .. MaxSize, Mt!ReadForward(n) PROVE TapeInv'
  BY <1>1, TapeRead
<1>2. ASSUME NEW n \in 1 .. MaxSize, Mt!SpaceForward(n) PROVE TapeInv'
  BY <1>2, TapeForward
<1>3. ASSUME NEW n \in 1 .. MaxSize, Mt!SpaceBackward(n), ~tapeFailed PROVE TapeInv'
  BY <1>3, TapeBackward
<1>4. ASSUME NEW n \in 1 .. MaxSize, Mt!WriteForward(n) PROVE TapeInv'
  <2>1. tapeHead' = Mt!WriteRecordInternal(tapeHead, n) /\ written' = TRUE /\ n \in Nat
    BY <1>4 DEF Mt!WriteForward
  <2>2. HeadOK(tapeHead') /\ Whole(tapeHead')
    BY <1>a, <2>1, WriteOK, WriteSteps
  <2> QED
    BY <2>1, <2>2 DEF TapeInv
<1>5. CASE Mt!Rewind
  <2>1. tapeHead' = Mt!PokedRewind(tapeHead) /\ UNCHANGED <<written, tapeFailed>>
    BY <1>5 DEF Mt!Rewind
  <2>2. HeadOK(tapeHead') /\ Whole(tapeHead') /\ Same(tapeHead, tapeHead') /\ Exact(tapeHead')
    BY <1>a, <2>1, RewindSteps
  <2> QED
    BY <2>1, <2>2 DEF TapeInv, Same, Sized
<1>6. CASE Mt!WriteEOF
  <2>1. PICK r : r = Mt!WriteRecordInternal(tapeHead, 0)
    OBVIOUS
  <2>2. tapeHead' = [r EXCEPT !.file = @ + 1] /\ written' = TRUE
    BY <1>6, <2>1 DEF Mt!WriteEOF
  <2>3. HeadOK(r) /\ Whole([r EXCEPT !.file = @ + 1])
    BY <1>a, <2>1, WriteOK, WriteSteps
  <2>4. HeadOK(tapeHead') /\ Whole(tapeHead')
    BY <2>2, <2>3, FileOK
  <2> QED
    BY <2>2, <2>4 DEF TapeInv
<1>7. ASSUME NEW items \in TapeImages, Mt!MountTape(items) PROVE TapeInv'
  <2>1. PICK there \in BOOLEAN :
          (there \/ items = <<>>) /\ tapeHead' = Mt!NewTape(items, there, tapeHead.mark)
    BY <1>7 DEF Mt!MountTape
  <2>2. items \in Seq(Nat) /\ tapeHead.mark \in BOOLEAN
    BY <1>a DEF HeadOK
  <2>3. HeadOK(tapeHead') /\ Whole(tapeHead') /\ Sized(tapeHead') /\ Exact(tapeHead')
    BY <2>1, <2>2, MountedOK, MountSteps
  <2> QED
    BY <2>3 DEF TapeInv
<1>8. CASE Mt!Clear \/ UNCHANGED Mt!vars
  BY <1>8 DEF Mt!Clear, Mt!vars, TapeInv
<1> QED
  BY <1>1, <1>2, <1>3, <1>4, <1>5, <1>6, <1>7, <1>8 DEF Mt!Next

(* The flags mCurRecordValid and mCurRecordEof of TapFile_c describe what  *)
(* is on the tape at the head, for every tape and every sequence of orders *)
(* to the drive of the expander: reads that stop in a record, skips,       *)
(* writes that cut a tape off, rewinds and mounts.  And as long as the     *)
(* tape is not written and its end not met, mCurFileIdx and mCurFileOfs of *)
(* PokedTapFile_c are those of the head.                                   *)
THEOREM TapeExact ==
  ASSUME TapeImages \subseteq Seq(Nat), MaxSize \in Nat
  PROVE Mt!Spec => [](Mt!MarkFlagsExact /\ Mt!PokeOffsetExact)
<1>1. Mt!Init => TapeInv
  BY TapeInit
<1>2. TapeInv /\ [Mt!Next]_(Mt!vars) => TapeInv'
  BY TapeStep
<1>3. TapeInv => Mt!MarkFlagsExact
  BY DEF TapeInv, HeadOK, Flags, Mt!MarkFlagsExact
<1>4. TapeInv => Mt!PokeOffsetExact
  BY DEF TapeInv, Exact, Marks, Words, Mt!PokeOffsetExact
<1> QED
  BY <1>1, <1>2, <1>3, <1>4, PTL DEF Mt!Spec

(* The tape is well formed, and so is mByteCounter. *)
BmxInv == HeadOK(bmxHead) /\ Whole(bmxHead) /\ counter \in Nat

(* A mounted tape of this drive *)
LEMMA BmxMounted ==
  ASSUME NEW items \in Seq(Nat), NEW there \in BOOLEAN, there \/ items = <<>>, NEW m \in BOOLEAN
  PROVE Whole(Bm!T!NewTape(items, there, m))
<1>1. PICK r : r = Bm!T!NewTape(items, there, m)
  OBVIOUS
<1>2. /\ r.items = items /\ r.exists = there /\ r.valid = FALSE /\ r.end = FALSE
  BY <1>1 DEF Bm!T!NewTape
<1> QED
  BY <1>1, <1>2 DEF Whole

(* It holds at the start, ... *)
LEMMA BmxInit == ASSUME BmxImages \subseteq Seq(Nat), Bm!Init PROVE BmxInv
<1>1. PICK items \in BmxImages :
        bmxHead \in {Bm!T!NewTape(items, TRUE, FALSE), Bm!T!NewTape(<<>>, FALSE, FALSE)}
  BY DEF Bm!Init
<1>2. items \in Seq(Nat) /\ <<>> \in Seq(Nat) /\ TRUE \in BOOLEAN /\ FALSE \in BOOLEAN
  OBVIOUS
<1>3. HeadOK(Bm!T!NewTape(items, TRUE, FALSE)) /\ HeadOK(Bm!T!NewTape(<<>>, FALSE, FALSE))
  BY <1>2, MountedOK, Zenon
<1>4. counter = 0
  BY DEF Bm!Init
<1>5. ASSUME NEW tape \in Seq(Nat), NEW there \in BOOLEAN, there \/ tape = <<>>
      PROVE Whole(Bm!T!NewTape(tape, there, FALSE))
  BY <1>2, <1>5, BmxMounted
<1>6. Whole(bmxHead)
  BY <1>1, <1>2, <1>5
<1> QED
  BY <1>1, <1>3, <1>4, <1>6 DEF BmxInv

(* A read moves at most as many bytes as were asked for. *)
LEMMA WordsLeft ==
  ASSUME NEW h, HeadOK(h), NEW max \in Nat PROVE max - Mt!WordsRead(h, max) \in Nat
<1>1. CASE h.exists /\ (Mt!InRecord(h) \/ h.pos < Len(h.items))
  <2>1. h.items[h.pos + 1] \in Nat /\ h.into \in Nat
    BY <1>1 DEF HeadOK, Flags
  <2> DEFINE n == Mt!WordsPassed(h, h.items[h.pos + 1])
  <2>2. n \in Int
    BY <2>1 DEF Mt!WordsPassed
  <2>3. Mt!WordsRead(h, max) = IF n < max THEN n ELSE max
    BY <1>1 DEF Mt!WordsRead
  <2> HIDE DEF n
  <2> QED
    BY <2>2, <2>3
<1>2. CASE ~(h.exists /\ (Mt!InRecord(h) \/ h.pos < Len(h.items)))
  BY <1>2 DEF Mt!WordsRead
<1> QED
  BY <1>1, <1>2

(* ... and every function of the channel and every command keeps it so. *)
LEMMA BmxStep ==
  ASSUME BmxImages \subseteq Seq(Nat), MaxSize \in Nat, SenseSize \in Nat, BmxInv,
         [Bm!Next]_(Bm!vars)
  PROVE BmxInv'
<1>a. HeadOK(bmxHead) /\ Whole(bmxHead) /\ counter \in Nat
  BY DEF BmxInv
<1> SUFFICES HeadOK(bmxHead') /\ Whole(bmxHead') /\ counter' \in Nat
  BY DEF BmxInv
<1>1. CASE Bm!Channel
  BY <1>1, <1>a DEF Bm!Channel, Bm!ClearChannel, Bm!ResetDevices, Bm!InterfaceDisconnect,
     Bm!ReadRequestIn, Bm!AsynchronousIo, Bm!DelayDiagnostics, Bm!EnterLocalMemoryAddress,
     Bm!Tick, Bm!MasterClear, Bm!EnterByteCount, Bm!EnterDeviceAddress, Bm!Idle, Bm!tape, Bm!regs
<1>2. CASE \/ Bm!NoDevice \/ Bm!TestIo \/ Bm!Sense \/ Bm!ReadBackward \/ Bm!ModeSetting
  BY <1>2, <1>a DEF Bm!NoDevice, Bm!TestIo, Bm!Sense, Bm!ReadBackward, Bm!ModeSetting,
     Bm!Fails, Bm!Ends, Bm!tape, Bm!regs
<1>3. CASE Bm!ReadRecord
  <2>1. CASE counter = 0 /\ bmxHead.exists
    BY <1>3, <1>a, <2>1 DEF Bm!ReadRecord, Bm!Fails, Bm!tape, Bm!regs
  <2>2. CASE ~(counter = 0 /\ bmxHead.exists)
    <3>1. /\ bmxHead' = Bm!T!PokedRead(bmxHead, counter)
          /\ counter' = counter - Bm!T!WordsRead(bmxHead, counter)
      BY <1>3, <2>2 DEF Bm!ReadRecord, Bm!Ends
    <3>2. /\ bmxHead' = Mt!PokedRead(bmxHead, counter)
          /\ counter' = counter - Mt!WordsRead(bmxHead, counter)
      BY <3>1, SameOperators
    <3>3. bmxHead.exists => counter > 0
      BY <1>a, <2>2
    <3> QED
      BY <1>a, <3>2, <3>3, ReadSteps, WordsLeft
  <2> QED
    BY <2>1, <2>2
<1>4. CASE Bm!WriteRecord
  <2>1. CASE counter = 0
    BY <1>4, <1>a, <2>1 DEF Bm!WriteRecord, Bm!Fails, Bm!tape, Bm!regs
  <2>2. CASE counter # 0
    <3>1. bmxHead' = Bm!T!WriteRecordInternal(bmxHead, counter) /\ counter' = 0
      BY <1>4, <2>2 DEF Bm!WriteRecord, Bm!Ends
    <3>2. bmxHead' = Mt!WriteRecordInternal(bmxHead, counter)
      BY <3>1, SameOperators
    <3> QED
      BY <1>a, <3>1, <3>2, WriteOK, WriteSteps
  <2> QED
    BY <2>1, <2>2
<1>5. CASE Bm!Rewind
  <2>1. bmxHead' = Bm!T!PokedRewind(bmxHead) /\ counter' = 0
    BY <1>5 DEF Bm!Rewind, Bm!Ends
  <2>2. bmxHead' = Mt!PokedRewind(bmxHead)
    BY <2>1, SameOperators
  <2> QED
    BY <1>a, <2>1, <2>2, RewindSteps
<1>6. CASE Bm!WriteTapeMark
  <2>1. /\ bmxHead' = [Bm!T!WriteRecordInternal(bmxHead, 0) EXCEPT !.file = @ + 1]
        /\ counter' = 0
    BY <1>6 DEF Bm!WriteTapeMark, Bm!Ends
  <2>2. PICK r : r = Mt!WriteRecordInternal(bmxHead, 0) /\ r = Bm!T!WriteRecordInternal(bmxHead, 0)
    BY SameOperators
  <2>3. HeadOK(r) /\ Whole([r EXCEPT !.file = @ + 1])
    BY <1>a, <2>2, WriteOK, WriteSteps
  <2> QED
    BY <2>1, <2>2, <2>3, FileOK
<1>7. CASE Bm!BackspaceBlock
  <2>1. CASE ~Bm!T!PrevAsserts(bmxHead)
    BY <1>7, <1>a, <2>1 DEF Bm!BackspaceBlock, Bm!Fails, Bm!tape, Bm!regs
  <2>2. CASE Bm!T!PrevAsserts(bmxHead)
    <3>1. PICK junk : bmxHead' = Bm!T!PokedPrev(bmxHead, junk)
      BY <1>7, <2>2 DEF Bm!BackspaceBlock
    <3>2. counter' = 0
      BY <1>7, <2>2 DEF Bm!BackspaceBlock, Bm!Ends
    <3>3. bmxHead' = Mt!PokedPrev(bmxHead, junk)
      BY <3>1, SameOperators
    <3> QED
      BY <1>a, <3>2, <3>3, PrevSteps
  <2> QED
    BY <2>1, <2>2
<1>8. CASE Bm!ForwardSpaceBlock
  <2>1. bmxHead' = Bm!T!PokedNext(bmxHead) /\ counter' = 0
    BY <1>8 DEF Bm!ForwardSpaceBlock, Bm!Ends
  <2>2. bmxHead' = Mt!PokedNext(bmxHead)
    BY <2>1, SameOperators
  <2> QED
    BY <1>a, <2>1, <2>2, NextSteps
<1>9. CASE Bm!BackspaceFile
  <2>1. counter' \in {counter, 0}
    BY <1>9 DEF Bm!BackspaceFile, Bm!Fails, Bm!Hangs, Bm!Ends, Bm!regs
  <2>2. HeadOK(bmxHead') /\ Whole(bmxHead')
    BY <1>9, <1>a, BackspaceFileOK DEF Behind
  <2> QED
    BY <1>a, <2>1, <2>2
<1>10. CASE Bm!ForwardSpaceFile
  <2>1. counter' = 0
    BY <1>10 DEF Bm!ForwardSpaceFile, Bm!Ends
  <2>2. HeadOK(bmxHead') /\ Whole(bmxHead')
    BY <1>10, <1>a, ForwardSpaceFileOK DEF Ahead
  <2> QED
    BY <2>1, <2>2
<1>11. ASSUME NEW items \in BmxImages, Bm!MountTape(items)
       PROVE HeadOK(bmxHead') /\ Whole(bmxHead') /\ counter' \in Nat
  <2>1. PICK there \in BOOLEAN :
          (there \/ items = <<>>) /\ bmxHead' = Bm!T!NewTape(items, there, bmxHead.mark)
    BY <1>11 DEF Bm!MountTape
  <2>2. items \in Seq(Nat) /\ bmxHead.mark \in BOOLEAN
    BY <1>a DEF HeadOK
  <2>3. HeadOK(bmxHead') /\ Whole(bmxHead')
    BY <2>1, <2>2, MountedOK, BmxMounted
  <2> QED
    BY <1>11, <1>a, <2>3 DEF Bm!MountTape, Bm!regs
<1>12. CASE UNCHANGED Bm!vars
  BY <1>12, <1>a DEF Bm!vars, Bm!tape, Bm!regs
<1> QED
  BY <1>1, <1>2, <1>3, <1>4, <1>5, <1>6, <1>7, <1>8, <1>9, <1>10, <1>11, <1>12
  DEF Bm!Next, Bm!Command

(* A file command passes one mark and stops next to it, or says that it    *)
(* met the end.                                                            *)
LEMMA OneFile ==
  ASSUME BmxInv
  PROVE /\ ~bmxFailed' /\ ~hung' /\ Bm!BackspaceFile =>
             /\ Bm!Marks(bmxHead') = Bm!Marks(bmxHead) - 1
             /\ bmxHead'.items[bmxHead'.pos + 1] = 0
        /\ Bm!ForwardSpaceFile =>
             IF "check" \in bmxStatus'
             THEN Bm!Marks(bmxHead') = Bm!Marks(bmxHead) /\ bmxHead'.pos = Len(bmxHead.items)
             ELSE Bm!Marks(bmxHead') = Bm!Marks(bmxHead) + 1 /\ bmxHead'.items[bmxHead'.pos] = 0
<1>a. HeadOK(bmxHead) /\ Whole(bmxHead)
  BY DEF BmxInv
<1>b. ASSUME NEW h PROVE Bm!Marks(h) = Marks(h)
  BY SameOperators DEF Marks
<1>1. ASSUME ~bmxFailed', ~hung', Bm!BackspaceFile
      PROVE Bm!Marks(bmxHead') = Bm!Marks(bmxHead) - 1 /\ bmxHead'.items[bmxHead'.pos + 1] = 0
  <2>1. PICK s : bmxHead' = s.h /\ Behind(bmxHead, s) /\ s.stop
    BY <1>a, <1>1, BackspaceFileOK
  <2>2. s.h.items[s.h.pos + 1] = 0 /\ Marks(s.h) = Marks(bmxHead) - 1
    BY <2>1 DEF Behind
  <2> QED
    BY <1>b, <2>1, <2>2
<1>2. ASSUME Bm!ForwardSpaceFile
      PROVE IF "check" \in bmxStatus'
            THEN Bm!Marks(bmxHead') = Bm!Marks(bmxHead) /\ bmxHead'.pos = Len(bmxHead.items)
            ELSE Bm!Marks(bmxHead') = Bm!Marks(bmxHead) + 1 /\ bmxHead'.items[bmxHead'.pos] = 0
  <2>1. PICK s : /\ bmxHead' = s.h /\ Ahead(bmxHead, s, Bm!Steps) /\ s.stop
                 /\ bmxStatus' = Bm!Bits(FALSE, Mt!State(s.h, TRUE) = "end")
    BY <1>a, <1>2, ForwardSpaceFileOK
  <2>2. "check" \in bmxStatus' <=> Mt!State(s.h, TRUE) = "end"
    BY <2>1 DEF Bm!Bits
  <2>3. IF Mt!State(s.h, TRUE) = "end"
        THEN s.h.pos = Len(bmxHead.items) /\ Marks(s.h) = Marks(bmxHead)
        ELSE s.h.items[s.h.pos] = 0 /\ Marks(s.h) = Marks(bmxHead) + 1
    BY <2>1 DEF Ahead
  <2> QED
    BY <1>b, <2>1, <2>2, <2>3
<1> QED
  BY <1>1, <1>2

(* The same for the drive of the block multiplexer, whose commands also    *)
(* move over whole files: the flags are right, and spacing by a file       *)
(* passes one mark and stops next to it.                                   *)
THEOREM BmxExact ==
  ASSUME BmxImages \subseteq Seq(Nat), MaxSize \in Nat, SenseSize \in Nat
  PROVE Bm!Spec => []Bm!MarkFlagsExact /\ Bm!SpacesOneFile
<1>1. Bm!Init => BmxInv
  BY BmxInit
<1>2. BmxInv /\ [Bm!Next]_(Bm!vars) => BmxInv'
  BY BmxStep
<1>3. BmxInv => Bm!MarkFlagsExact
  BY DEF BmxInv, HeadOK, Flags, Bm!MarkFlagsExact, Bm!T!MarkFlagsExact, Mt!InRecord, Bm!T!InRecord
<1> DEFINE Spaces ==
      /\ ~bmxFailed' /\ ~hung' /\ Bm!BackspaceFile =>
           /\ Bm!Marks(bmxHead') = Bm!Marks(bmxHead) - 1
           /\ bmxHead'.items[bmxHead'.pos + 1] = 0
      /\ Bm!ForwardSpaceFile =>
           IF "check" \in bmxStatus'
           THEN Bm!Marks(bmxHead') = Bm!Marks(bmxHead) /\ bmxHead'.pos = Len(bmxHead.items)
           ELSE Bm!Marks(bmxHead') = Bm!Marks(bmxHead) + 1 /\ bmxHead'.items[bmxHead'.pos] = 0
<1>4. BmxInv => [Spaces]_(Bm!vars)
  BY OneFile
<1>5. Bm!SpacesOneFile <=> [][Spaces]_(Bm!vars)
  BY PTL DEF Bm!SpacesOneFile
<1> HIDE DEF Spaces
<1> QED
  BY <1>1, <1>2, <1>3, <1>4, <1>5, PTL DEF Bm!Spec

(* A behaviour of the peripherals is one of each of them: the channels     *)
(* share no state, and the parts a step does not belong to stutter.        *)
LEMMA PartsApart == IopSpec => Exp!Spec /\ Disk!Spec /\ Mt!Spec /\ Bm!Spec /\ Conc!Spec
<1>1. IopInit => Exp!Init /\ Disk!Init /\ Mt!Init /\ Bm!Init /\ Conc!Init
  BY DEF IopInit
<1>2. [IopNext]_<<part, vars, diskVars, linkVars, tapeVars, bmxVars, expVars, concVars>> =>
        /\ [Exp!Next]_(Exp!vars) /\ [Disk!Next]_(Disk!vars)
        /\ [Mt!Next]_(Mt!vars) /\ [Bm!Next]_(Bm!vars) /\ [Conc!Next]_(Conc!vars)
  <2>1. /\ UNCHANGED expVars => UNCHANGED Exp!vars
        /\ UNCHANGED diskVars => UNCHANGED Disk!vars
        /\ UNCHANGED tapeVars => UNCHANGED Mt!vars
        /\ UNCHANGED bmxVars => UNCHANGED Bm!vars
    BY DEF expVars, diskVars, tapeVars, bmxVars, Exp!vars, Exp!channelVars, Exp!interruptVars,
           Exp!deviceVars, Disk!vars, Disk!position, Disk!history, Mt!vars, Bm!vars, Bm!tape,
           Bm!regs
  <2>2. UNCHANGED concVars => UNCHANGED Conc!vars
    BY DEF concVars, Conc!vars, Conc!network, Conc!machine, Conc!channels, Conc!history,
           Conc!bounds
  <2> QED
    BY <2>1, <2>2 DEF IopNext
<1> QED
  BY <1>1, <1>2, PTL DEF IopSpec, Exp!Spec, Disk!Spec, Mt!Spec, Bm!Spec, Conc!Spec

(* IopExpChannel_c::IntStatusChanged: the interrupt the channel of the     *)
(* expander remembers is the one its devices have, in the system of all    *)
(* peripherals.                                                            *)
THEOREM InterruptsAreAnnounced ==
  ASSUME Lengths \subseteq Nat PROVE IopSpec => []InterruptsAnnounced
<1>1. Exp!InterruptsAnnounced => InterruptsAnnounced
  BY DEF InterruptsAnnounced
<1> QED
  BY <1>1, PartsApart, ExpanderAnnounces, PTL

(* IopDisk_c::ReadSector fetches what WriteSector stored last. *)
THEOREM SectorsReadBack == ASSUME Geometry PROVE IopSpec => []DiskReadsBack
<1>1. Disk!DiskReadsBack => DiskReadsBack
  BY DEF DiskReadsBack
<1> QED
  BY <1>1, PartsApart, DiskKeeps, PTL

(* mCurRecordValid and mCurRecordEof of TapFile_c are right for both       *)
(* drives.                                                                 *)
THEOREM MarksExact ==
  ASSUME TapeImages \subseteq Seq(Nat), BmxImages \subseteq Seq(Nat), MaxSize \in Nat,
         SenseSize \in Nat
  PROVE IopSpec => []MarkFlagsExact
<1>1. Mt!MarkFlagsExact /\ Bm!MarkFlagsExact => MarkFlagsExact
  BY DEF MarkFlagsExact
<1> QED
  BY <1>1, PartsApart, TapeExact, BmxExact, PTL

(* mCurFileIdx and mCurFileOfs of PokedTapFile_c are the file and the      *)
(* offset of the head on a tape that was only read: a patch of the         *)
(* configuration is applied to the byte it names.                          *)
THEOREM PatchesExact ==
  ASSUME TapeImages \subseteq Seq(Nat), MaxSize \in Nat PROVE IopSpec => []PokeOffsetExact
<1>1. Mt!PokeOffsetExact => PokeOffsetExact
  BY DEF PokeOffsetExact
<1> QED
  BY <1>1, PartsApart, TapeExact, PTL

(* A file command of IopBmxTape_c passes one mark and stops next to it, or *)
(* reports the end of the tape.                                            *)
THEOREM FilesSpaced ==
  ASSUME BmxImages \subseteq Seq(Nat), MaxSize \in Nat, SenseSize \in Nat
  PROVE IopSpec => SpacesOneFile
<1>1. Bm!SpacesOneFile <=> SpacesOneFile
  BY DEF SpacesOneFile
<1> QED
  BY <1>1, PartsApart, BmxExact, PTL
=============================================================================

------------------------------- MODULE CpuInst -------------------------------
(***************************************************************************)
(* What the instructions of one mainframe CPU compute                      *)
(* (cray_cpu_inst_0000_0037.h to cray_cpu_inst_0140_0177.h).  SoftCpu      *)
(* models exchanges, interrupts and semaphores; here one CPU runs between  *)
(* two exchanges and its registers are values.  A program is a set of      *)
(* instructions [op, i, j, k, n]: op is the octal operation code, followed *)
(* by the sub-code where one is decoded, n the constant (jk, jkm or mn).   *)
(***************************************************************************)
EXTENDS CrayTypes, Sequences, SequencesExt

CONSTANTS AW,          \* bits of an address (32)
          XW,          \* bits of an address in X-MP mode (24)
          SW,          \* bits of a displacement in X-MP mode (22)
          MemSize,     \* words of memory
          Semaphores,  \* semaphores of a cluster (32)
          Contexts,    \* initial [cpu, mem, sm, prog, left]
          ReciprocApprox(_)   \* the table driven approximation, any function

VARIABLES cpu,         \* mState and mCallStack
          mem,         \* the mainframe's memory
          sm,          \* semaphores of the CPU's cluster
          prog,        \* the instructions of the program
          left,        \* bound: instructions still to execute
          last         \* the instruction executed last
vars == <<cpu, mem, sm, prog, left, last>>

VecSize == W
NoInst == [op |-> "none", i |-> 0, j |-> 0, k |-> 0, n |-> 0]

Init ==
  \E c \in Contexts :
    /\ cpu = c.cpu
    /\ mem = c.mem
    /\ sm = c.sm
    /\ prog = c.prog
    /\ left = c.left
    /\ last = NoInst

-----------------------------------------------------------------------------
(* Register operands: index 0 stands for a constant in some fields.        *)
AddrMod(c) == 2^(IF c.x THEN XW ELSE AW)
SignExtend(c, a) == IF a >= AddrMod(c) \div 2 THEN a - AddrMod(c) ELSE a

RefAi(c, r) == c.a[r] % AddrMod(c)
RefAj(c, r) == IF r = 0 THEN 0 ELSE RefAi(c, r)
RefAk(c, r) == IF r = 0 THEN 1 ELSE RefAi(c, r)
RefSj(c, r) == IF r = 0 THEN {} ELSE c.s[r]
RefSk(c, r) == IF r = 0 THEN {W - 1} ELSE c.s[r]
RefB(c, r) == c.b[r] % AddrMod(c)

SetA(c, r, a) == [c EXCEPT !.a[r] = a % AddrMod(c)]
SetS(c, r, w) == [c EXCEPT !.s[r] = w]

(* SingleStep: what Decode returns is added to P, and Tick counts.         *)
Execute(ins, c, parcels) ==
  /\ cpu' = [c EXCEPT !.p = (@ + parcels) % 2^AW]
  /\ last' = ins
  /\ left' = left - 1
  /\ UNCHANGED prog

Quiet(ins, c, parcels) == Execute(ins, c, parcels) /\ UNCHANGED <<mem, sm>>

-----------------------------------------------------------------------------
(* 0005-0007.  mCallStack keeps the state at every call; only its P is     *)
(* ever looked at.                                                         *)
Jump(ins) ==
  /\ ins.op \in {"0005", "0006", "0007"}
  /\ Quiet(ins,
       CASE ins.op = "0005" ->
              [cpu EXCEPT !.p = RefB(cpu, ins.n),
                          !.calls = IF @ # <<>> /\ Last(@) = RefB(cpu, ins.n)
                                    THEN Front(@) ELSE @]
         [] ins.op = "0006" -> [cpu EXCEPT !.p = ins.n % 2^XW]
         [] ins.op = "0007" ->
              [cpu EXCEPT !.b[0] = ((cpu.p + 2) % 2^AW) % AddrMod(cpu),
                          !.calls = Append(@, (cpu.p + 2) % 2^AW),
                          !.p = ins.n % 2^XW], 0)

(* 0010-0013 test A0; with the high bit of i set they load Ah (X-MP mode). *)
Branch(ins, taken) ==
  IF ins.i < 4
  THEN IF taken THEN Quiet(ins, [cpu EXCEPT !.p = ins.n], 0) ELSE Quiet(ins, cpu, 2)
  ELSE Quiet(ins, IF cpu.x THEN SetA(cpu, ins.j, ins.n % 2^XW) ELSE cpu, 2)

BranchOnA(ins) ==
  /\ ins.op \in {"0010", "0011", "0012", "0013"}
  /\ Branch(ins, CASE ins.op = "0010" -> RefAi(cpu, 0) = 0
                   [] ins.op = "0011" -> RefAi(cpu, 0) # 0
                   [] ins.op = "0012" -> SignExtend(cpu, RefAi(cpu, 0)) >= 0
                   [] ins.op = "0013" -> SignExtend(cpu, RefAi(cpu, 0)) < 0)

BranchOnS(ins) ==
  /\ ins.op \in {"0014", "0015", "0016", "0017"}
  /\ Branch(ins, CASE ins.op = "0014" -> cpu.s[0] = {}
                   [] ins.op = "0015" -> cpu.s[0] # {}
                   [] ins.op = "0016" -> ~IsNegative(cpu.s[0])
                   [] ins.op = "0017" -> IsNegative(cpu.s[0]))

-----------------------------------------------------------------------------
(* 0020-0022: constants; the long forms have a parcel more in Y-MP mode.   *)
Long(c) == IF c.x THEN 2 ELSE 3

LoadAConst(ins) ==
  /\ ins.op \in {"0020", "0021", "0022"}
  /\ CASE ins.op = "0020" -> Quiet(ins, SetA(cpu, ins.i, ins.n), Long(cpu))
       [] ins.op = "0021" -> Quiet(ins, SetA(cpu, ins.i, -ins.n - 1), Long(cpu))
       [] ins.op = "0022" -> Quiet(ins, SetA(cpu, ins.i, ins.n), 1)

TransmitA(ins) ==
  /\ ins.op \in {"00230", "00231", "0024", "0025"}
  /\ Quiet(ins,
       CASE ins.op = "00230" -> SetA(cpu, ins.i, Num(RefSj(cpu, ins.j)))
         [] ins.op = "00231" -> SetA(cpu, ins.i, cpu.vl)
         [] ins.op = "0024"  -> SetA(cpu, ins.i, RefB(cpu, ins.n))
         [] ins.op = "0025"  -> [cpu EXCEPT !.b[ins.n] = RefAi(cpu, ins.i)], 1)

(* 0026-0027: counts of one bits and of leading zeros; the shared B        *)
(* registers exist only in a cluster.                                      *)
CountA(ins) ==
  /\ ins.op \in {"00260", "00261", "00267", "00270", "00277"}
  /\ Quiet(ins,
       CASE ins.op = "00260" -> SetA(cpu, ins.i, PopulationCnt(RefSj(cpu, ins.j)))
         [] ins.op = "00261" -> SetA(cpu, ins.i, PopulationCntParity(RefSj(cpu, ins.j)))
         [] ins.op = "00267" -> SetA(cpu, ins.i, IF cpu.cluster = 0 THEN 0 ELSE cpu.sb[ins.j])
         [] ins.op = "00270" -> SetA(cpu, ins.i, LeadingZeroCnt(RefSj(cpu, ins.j)))
         [] ins.op = "00277" -> IF cpu.cluster = 0 THEN cpu
                                ELSE [cpu EXCEPT !.sb[ins.j] = RefAi(cpu, ins.i)], 1)

ArithmeticA(ins) ==
  /\ ins.op \in {"0030", "0031", "0032"}
  /\ LET j == RefAj(cpu, ins.j)
         k == RefAk(cpu, ins.k)
     IN  Quiet(ins, SetA(cpu, ins.i, CASE ins.op = "0030" -> j + k
                                       [] ins.op = "0031" -> j - k
                                       [] ins.op = "0032" -> j * k), 1)

(* VL Ak and VM Sj: a length of 0 stands for the whole register.           *)
SetVector(ins) ==
  /\ ins.op \in {"00020", "00030"}
  /\ Quiet(ins,
       IF ins.op = "00030" THEN [cpu EXCEPT !.vm = RefSj(cpu, ins.j)]
       ELSE LET n == RefAk(cpu, ins.k) % VecSize
            IN  [cpu EXCEPT !.vl = IF n = 0 THEN VecSize ELSE n], 1)

-----------------------------------------------------------------------------
(* Memory operands.  A reference beyond the limit reads 0 or is dropped,   *)
(* or throws when operand range errors are enabled: the instruction stops  *)
(* where it is, P stays on it and the error flag is set.                   *)
Physical(c, addr) == ((addr + c.base) % 2^AW) % MemSize
Beyond(c, addr) == Physical(c, addr) >= c.limit
ReadDataMem(c, m, addr) == IF Beyond(c, addr) THEN {} ELSE m[Physical(c, addr)]

(* How many of the n references at(0), at(1)... are made before a throw.   *)
Reach(c, at(_), n) ==
  LET bad == {e \in 0 .. n - 1 : Beyond(c, at(e))}
  IN  IF c.ore /\ bad # {} THEN Min(bad) ELSE n

Indices(n) == [e \in 1 .. n |-> e - 1]

WriteDataMem(c, m, addr, w) ==
  IF Beyond(c, addr) THEN m ELSE [m EXCEPT ![Physical(c, addr)] = w]

WriteElements(c, m, at(_), value(_), n) ==
  FoldLeft(LAMBDA f, e : WriteDataMem(c, f, at(e), value(e)), m, Indices(n))

(* 0034-0037: blocks of B and T registers; the register number wraps.      *)
BlockTransfer(ins, c, m) ==
  LET n == RefAi(c, ins.i) % (2 * VecSize)
      at(e) == RefAi(c, 0) + e
      reg(e) == (ins.n + e) % VecSize
      done == Reach(c, at, n)
      value(e) == IF ins.op = "0035" THEN ToWord(RefB(c, reg(e))) ELSE c.t[reg(e)]
      load(f, r(_)) == FoldLeft(LAMBDA g, e : [g EXCEPT ![reg(e)] = r(ReadDataMem(c, m, at(e)))],
                                f, Indices(done))
  IN  [cpu |-> CASE ins.op = "0034" ->
                      [c EXCEPT !.b = load(@, LAMBDA w : (Num(w) % 2^AW) % AddrMod(c))]
                 [] ins.op = "0036" -> [c EXCEPT !.t = load(@, LAMBDA w : w)]
                 [] OTHER -> c,
       mem |-> IF ins.op \in {"0035", "0037"} THEN WriteElements(c, m, at, value, done) ELSE m,
       threw |-> done < n]

(* 010-013: A and S registers; the displacement is signed in X-MP mode.    *)
ScalarMem(ins, c, m) ==
  LET offset == IF ~c.x THEN ins.n
                ELSE IF (ins.n \div 2^(SW - 1)) % 2 = 1 THEN (ins.n % 2^SW) - 2^SW ELSE ins.n
      sum == (RefAj(c, ins.j) + offset) % 2^AW
      at(e) == IF c.xmp /\ ~c.ema THEN sum % 2^SW ELSE sum
      done == Reach(c, at, 1)
      value(e) == IF ins.op = "0110" THEN ToWord(RefAi(c, ins.i)) ELSE c.s[ins.i]
      w == ReadDataMem(c, m, at(0))
  IN  [cpu |-> CASE done = 0 -> c
                 [] ins.op = "0100" -> SetA(c, ins.i, Num(w) % 2^AW)
                 [] ins.op = "0120" -> SetS(c, ins.i, w)
                 [] OTHER -> c,
       mem |-> IF ins.op \in {"0110", "0130"} THEN WriteElements(c, m, at, value, done) ELSE m,
       threw |-> done = 0]

(* 0176-0177: a vector from or to memory, with a stride or by an index     *)
(* vector.                                                                 *)
VectorMem(ins, c, m) ==
  LET index(e) == IF ins.op \in {"01760", "01770"} THEN SignExtend(c, RefAk(c, ins.k)) * e
                  ELSE Num(c.v[ins.k][e])
      at(e) == (RefAi(c, 0) + index(e)) % 2^AW
      done == Reach(c, at, c.vl)
      value(e) == c.v[ins.j][e]
  IN  [cpu |-> IF ins.op \in {"01770", "01771"} THEN c
               ELSE [c EXCEPT !.v[ins.i] = [e \in DOMAIN @ |->
                       IF e < done THEN ReadDataMem(c, m, at(e)) ELSE @[e]]],
       mem |-> IF ins.op \in {"01770", "01771"} THEN WriteElements(c, m, at, value, done) ELSE m,
       threw |-> done < c.vl]

MemOps == {"0034", "0035", "0036", "0037", "0100", "0110", "0120", "0130",
           "01760", "01761", "01770", "01771"}

MemEffect(ins, c, m) ==
  CASE ins.op \in {"0034", "0035", "0036", "0037"} -> BlockTransfer(ins, c, m)
    [] ins.op \in {"0100", "0110", "0120", "0130"} -> ScalarMem(ins, c, m)
    [] ins.op \in {"01760", "01761", "01770", "01771"} -> VectorMem(ins, c, m)

(* Mutant: P moves on although the instruction threw. *)
MemoryInstSkips(ins) ==
  /\ ins.op \in MemOps
  /\ \E r \in {MemEffect(ins, cpu, mem)} :
       /\ mem' = r.mem
       /\ Execute(ins, [r.cpu EXCEPT !.range = r.threw],
                  IF ins.op \in {"0100", "0110", "0120", "0130"} THEN Long(cpu) ELSE 1)
       /\ UNCHANGED sm

MemoryInst(ins) ==
  /\ ins.op \in MemOps
  /\ \E r \in {MemEffect(ins, cpu, mem)} :
       /\ mem' = r.mem
       /\ Execute(ins, [r.cpu EXCEPT !.range = r.threw],
                  CASE r.threw -> 0
                    [] ins.op \in {"0100", "0110", "0120", "0130"} -> Long(cpu)
                    [] OTHER -> 1)
       /\ UNCHANGED sm

-----------------------------------------------------------------------------
(* 0040-0077: scalar registers.                                            *)
LoadSConst(ins) ==
  /\ ins.op \in {"0040", "0041", "0042", "0043"}
  /\ CASE ins.op = "0040" -> Quiet(ins, SetS(cpu, ins.i, ToWord(ins.n)), Long(cpu))
       [] ins.op = "0041" -> Quiet(ins, SetS(cpu, ins.i, ToWord(-ins.n - 1)), Long(cpu))
       [] ins.op = "0042" -> Quiet(ins, SetS(cpu, ins.i, ShiftRight(Bits, ins.n)), 1)
       [] ins.op = "0043" -> Quiet(ins, SetS(cpu, ins.i, ShiftLeft(Bits, W - ins.n)), 1)

Logical(op, si, sj, sk) ==
  CASE op = "0044" -> sj \cap sk
    [] op = "0045" -> sj \ sk
    [] op = "0046" -> Xor(sj, sk)
    [] op = "0047" -> Xor(Complement(sj), sk)
    [] op = "0050" -> (sj \cap sk) \cup (si \ sk)
    [] op = "0051" -> sj \cup sk

LogicalS(ins) ==
  /\ ins.op \in {"0044", "0045", "0046", "0047", "0050", "0051"}
  /\ Quiet(ins, SetS(cpu, ins.i, Logical(ins.op, cpu.s[ins.i], RefSj(cpu, ins.j),
                                         RefSk(cpu, ins.k))), 1)

ShiftS(ins) ==
  /\ ins.op \in {"0052", "0053", "0054", "0055", "0056", "0057"}
  /\ LET si == cpu.s[ins.i]
         sj == RefSj(cpu, ins.j)
         ak == RefAk(cpu, ins.k)
     IN  Quiet(ins,
           CASE ins.op = "0052" -> SetS(cpu, 0, ShiftLeft(si, ins.n))
             [] ins.op = "0053" -> SetS(cpu, 0, ShiftRight(si, W - ins.n))
             [] ins.op = "0054" -> SetS(cpu, ins.i, ShiftLeft(si, ins.n))
             [] ins.op = "0055" -> SetS(cpu, ins.i, ShiftRight(si, W - ins.n))
             [] ins.op = "0056" -> SetS(cpu, ins.i, DoubleShiftLeft(si, sj, ak))
             [] ins.op = "0057" -> SetS(cpu, ins.i, DoubleShiftRight(sj, si, ak)), 1)

IntegerAdd(op, sj, sk) == ToWord(IF op = "0060" THEN Num(sj) + Num(sk) ELSE Num(sj) - Num(sk))

IntegerS(ins) ==
  /\ ins.op \in {"0060", "0061"}
  /\ Quiet(ins, SetS(cpu, ins.i, IntegerAdd(ins.op, RefSj(cpu, ins.j), RefSk(cpu, ins.k))), 1)

FloatOp(op, sj, sk) ==
  CASE op = "0062" -> Add(sj, sk)
    [] op = "0063" -> Sub(sj, sk)
    [] op = "0064" -> Mult(sj, sk, FALSE, FALSE, FALSE)
    [] op = "0065" -> HalfPrecisionMult(sj, sk)
    [] op = "0066" -> RoundedMult(sj, sk)
    [] op = "0067" -> ReciprocIterate(sj, sk)

FloatS(ins) ==
  /\ ins.op \in {"0062", "0063", "0064", "0065", "0066", "0067"}
  /\ Quiet(ins, SetS(cpu, ins.i, FloatOp(ins.op, RefSj(cpu, ins.j), RefSk(cpu, ins.k))), 1)

ReciprocalS(ins) ==
  /\ ins.op = "0070"
  /\ Quiet(ins, SetS(cpu, ins.i, ReciprocApprox(RefSj(cpu, ins.j))), 1)

(* 0071: an address as an integer, without and with its sign.              *)
TransmitFromA(ins) ==
  /\ ins.op \in {"00710", "00711"}
  /\ LET ak == RefAk(cpu, ins.k)
     IN  Quiet(ins, SetS(cpu, ins.i, ToWord(IF ins.op = "00710" THEN ak
                                            ELSE SignExtend(cpu, ak))), 1)

(* 0072-0073: clock, semaphores (semaphore n is bit W-1-n), shared T       *)
(* registers, vector mask.  The clock is not modelled: any word.           *)
TransmitS(ins) ==
  \/ /\ ins.op = "00720"
     /\ \E clock \in {{}, Bits} : Quiet(ins, SetS(cpu, ins.i, clock), 1)
  \/ /\ ins.op = "00722"
     /\ Quiet(ins, IF cpu.cluster = 0 THEN cpu
                   ELSE SetS(cpu, ins.i, {W - 1 - n : n \in sm}), 1)
  \/ /\ ins.op = "00723"
     /\ Quiet(ins, IF cpu.cluster = 0 THEN cpu ELSE SetS(cpu, ins.i, cpu.st[ins.j]), 1)

TransmitFromS(ins) ==
  \/ /\ ins.op = "00730"
     /\ Quiet(ins, SetS(cpu, ins.i, cpu.vm), 1)
  \/ /\ ins.op = "00732"
     /\ Execute(ins, cpu, 1)
     /\ sm' = IF cpu.cluster = 0 THEN sm ELSE {n \in Semaphores : W - 1 - n \in cpu.s[ins.i]}
     /\ UNCHANGED mem
  \/ /\ ins.op = "00733"
     /\ Quiet(ins, IF cpu.cluster = 0 THEN cpu
                   ELSE [cpu EXCEPT !.st[ins.j] = cpu.s[ins.i]], 1)

TransmitTV(ins) ==
  /\ ins.op \in {"0074", "0075", "0076", "0077"}
  /\ LET e == RefAk(cpu, ins.k) % VecSize
     IN  Quiet(ins,
           CASE ins.op = "0074" -> SetS(cpu, ins.i, cpu.t[ins.n])
             [] ins.op = "0075" -> [cpu EXCEPT !.t[ins.n] = cpu.s[ins.i]]
             [] ins.op = "0076" -> SetS(cpu, ins.i, cpu.v[ins.j][e])
             [] ins.op = "0077" -> [cpu EXCEPT !.v[ins.i][e] = RefSj(cpu, ins.j)], 1)

-----------------------------------------------------------------------------
(* 0140-0177: vector registers.  The elements are written one after the    *)
(* other into the register file the next element is read from: an operand  *)
(* register may be the result register.                                    *)
ElementLoop(i, n, f(_, _)) ==
  FoldLeft(LAMBDA v, e : [v EXCEPT ![i][e] = f(v, e)], cpu.v, Indices(n))

Vectors(ins, f(_, _)) ==
  Quiet(ins, [cpu EXCEPT !.v = ElementLoop(ins.i, cpu.vl, f)], 1)

LogicalV(ins) ==
  /\ ins.op \in {"0140", "0141", "0142", "0143", "0144", "0145"}
  /\ Vectors(ins, LAMBDA v, e :
       CASE ins.op = "0140" -> RefSj(cpu, ins.j) \cap v[ins.k][e]
         [] ins.op = "0141" -> v[ins.j][e] \cap v[ins.k][e]
         [] ins.op = "0142" -> RefSj(cpu, ins.j) \cup v[ins.k][e]
         [] ins.op = "0143" -> v[ins.j][e] \cup v[ins.k][e]
         [] ins.op = "0144" -> Xor(RefSj(cpu, ins.j), v[ins.k][e])
         [] ins.op = "0145" -> Xor(v[ins.j][e], v[ins.k][e]))

MergeV(ins) ==
  /\ ins.op \in {"0146", "0147"}
  /\ Vectors(ins, LAMBDA v, e :
       IF W - 1 - e \notin cpu.vm THEN v[ins.k][e]
       ELSE IF ins.op = "0146" THEN RefSj(cpu, ins.j) ELSE v[ins.j][e])

(* 0152 does nothing for a vector length of 0; 0153 writes element 0.      *)
ShiftV(ins) ==
  /\ ins.op \in {"0150", "0151", "0152", "0153"}
  /\ LET ak == RefAk(cpu, ins.k)
         f(v, e) ==
           CASE ins.op = "0150" -> ShiftLeft(v[ins.j][e], ak)
             [] ins.op = "0151" -> ShiftRight(v[ins.j][e], ak)
             [] ins.op = "0152" ->
                  DoubleShiftLeft(v[ins.j][e], IF e = cpu.vl - 1 THEN {} ELSE v[ins.j][e + 1], ak)
             [] ins.op = "0153" ->
                  DoubleShiftRight(IF e = 0 THEN {} ELSE v[ins.j][e - 1], v[ins.j][e], ak)
         n == IF ins.op = "0153" /\ cpu.vl = 0 THEN 1 ELSE cpu.vl
     IN  Quiet(ins, [cpu EXCEPT !.v = ElementLoop(ins.i, n, f)], 1)

(* Mutant: Sj - Vk computed as Vk - Sj. *)
IntegerVReversed(ins) ==
  /\ ins.op \in {"0154", "0155", "0156", "0157"}
  /\ Vectors(ins, LAMBDA v, e :
       LET j == IF ins.op \in {"0154", "0156"} THEN RefSj(cpu, ins.j) ELSE v[ins.j][e]
       IN  IF ins.op \in {"0154", "0155"} THEN ToWord(Num(j) + Num(v[ins.k][e]))
                                          ELSE ToWord(Num(v[ins.k][e]) - Num(j)))
IntegerV(ins) ==
  /\ ins.op \in {"0154", "0155", "0156", "0157"}
  /\ Vectors(ins, LAMBDA v, e :
       LET j == IF ins.op \in {"0154", "0156"} THEN RefSj(cpu, ins.j) ELSE v[ins.j][e]
       IN  IF ins.op \in {"0154", "0155"} THEN ToWord(Num(j) + Num(v[ins.k][e]))
                                          ELSE ToWord(Num(j) - Num(v[ins.k][e])))

(* Of the half precision products 0162 and 0163 only the name is: they     *)
(* use the full product.                                                   *)
MultiplyV(ins) ==
  /\ ins.op \in {"0160", "0161", "0162", "0163", "0164", "0165"}
  /\ Vectors(ins, LAMBDA v, e :
       LET j == IF ins.op \in {"0160", "0162", "0164"} THEN RefSj(cpu, ins.j) ELSE v[ins.j][e]
           k == v[ins.k][e]
       IN  IF ins.op \in {"0164", "0165"} THEN RoundedMult(j, k)
           ELSE Mult(j, k, FALSE, FALSE, FALSE))

(* 0166 iterates in X-MP mode only (an integer product otherwise).         *)
IterateV(ins) ==
  /\ ins.op \in {"0166", "0167"}
  /\ ins.op = "0166" => cpu.x
  /\ Vectors(ins, LAMBDA v, e :
       ReciprocIterate(IF ins.op = "0166" THEN RefSj(cpu, ins.j) ELSE v[ins.j][e], v[ins.k][e]))

FloatAddV(ins) ==
  /\ ins.op \in {"0170", "0171", "0172", "0173"}
  /\ Vectors(ins, LAMBDA v, e :
       LET j == IF ins.op \in {"0170", "0172"} THEN RefSj(cpu, ins.j) ELSE v[ins.j][e]
       IN  IF ins.op \in {"0170", "0171"} THEN Add(j, v[ins.k][e]) ELSE Sub(j, v[ins.k][e]))

(* 01743 is decoded on a J90 or an SV1 only, and is an unknown instruction *)
(* elsewhere; a program that contains it runs on such a machine.           *)
UnaryV(ins) ==
  /\ ins.op \in {"01740", "01741", "01742", "01743"}
  /\ Vectors(ins, LAMBDA v, e :
       CASE ins.op = "01740" -> ReciprocApprox(v[ins.j][e])
         [] ins.op = "01741" -> ToWord(PopulationCnt(v[ins.j][e]))
         [] ins.op = "01742" -> ToWord(PopulationCntParity(v[ins.j][e]))
         [] ins.op = "01743" -> ToWord(LeadingZeroCnt(v[ins.j][e])))

(* 0175: the mask of the elements that are zero, nonzero, positive,        *)
(* negative (sub-codes 0-3), and with it their numbers in Vi (4-7).        *)
Selects(n, w) ==
  CASE n % 4 = 0 -> w = {}
    [] n % 4 = 1 -> w # {}
    [] n % 4 = 2 -> ~IsNegative(w)
    [] n % 4 = 3 -> IsNegative(w)

MaskV(ins) ==
  /\ ins.op = "0175" /\ ins.n < 4
  /\ Quiet(ins, [cpu EXCEPT !.vm = {W - 1 - e : e \in {f \in 0 .. cpu.vl - 1 :
                                                   Selects(ins.n, cpu.v[ins.j][f])}}], 1)

CompressV(ins) ==
  /\ ins.op = "0175" /\ ins.n >= 4
  /\ \E r \in {FoldLeft(LAMBDA a, e :
                   IF Selects(ins.n, a.v[ins.j][e])
                   THEN [v |-> [a.v EXCEPT ![ins.i][a.dst] = ToWord(e)],
                         vm |-> a.vm \cup {W - 1 - e}, dst |-> a.dst + 1]
                   ELSE a, [v |-> cpu.v, vm |-> {}, dst |-> 0], Indices(cpu.vl))} :
       Quiet(ins, [cpu EXCEPT !.v = r.v, !.vm = r.vm], 1)

-----------------------------------------------------------------------------
(* One instruction of the program; a CPU that threw has an exchange ahead. *)
Ready == left > 0 /\ ~cpu.range

Next ==
  \E ins \in prog :
    \/ Ready /\ Jump(ins)
    \/ Ready /\ BranchOnA(ins)
    \/ Ready /\ BranchOnS(ins)
    \/ Ready /\ LoadAConst(ins)
    \/ Ready /\ TransmitA(ins)
    \/ Ready /\ CountA(ins)
    \/ Ready /\ ArithmeticA(ins)
    \/ Ready /\ SetVector(ins)
    \/ Ready /\ MemoryInst(ins)
    \/ Ready /\ LoadSConst(ins)
    \/ Ready /\ LogicalS(ins)
    \/ Ready /\ ShiftS(ins)
    \/ Ready /\ IntegerS(ins)
    \/ Ready /\ FloatS(ins)
    \/ Ready /\ ReciprocalS(ins)
    \/ Ready /\ TransmitFromA(ins)
    \/ Ready /\ TransmitS(ins)
    \/ Ready /\ TransmitFromS(ins)
    \/ Ready /\ TransmitTV(ins)
    \/ Ready /\ LogicalV(ins)
    \/ Ready /\ MergeV(ins)
    \/ Ready /\ ShiftV(ins)
    \/ Ready /\ IntegerV(ins)
    \/ Ready /\ MultiplyV(ins)
    \/ Ready /\ IterateV(ins)
    \/ Ready /\ FloatAddV(ins)
    \/ Ready /\ UnaryV(ins)
    \/ Ready /\ MaskV(ins)
    \/ Ready /\ CompressV(ins)

Spec == Init /\ [][Next]_vars

-----------------------------------------------------------------------------
(* Types; in X-MP mode no register keeps address bits beyond its mask.     *)
TypeOK ==
  /\ cpu.p \in 0 .. 2^AW - 1
  /\ \A r \in DOMAIN cpu.a : cpu.a[r] \in 0 .. AddrMod(cpu) - 1
  /\ \A r \in DOMAIN cpu.b : cpu.b[r] \in 0 .. AddrMod(cpu) - 1
  /\ \A r \in DOMAIN cpu.s : cpu.s[r] \in Word
  /\ \A r \in DOMAIN cpu.v : cpu.v[r] \in [0 .. VecSize - 1 -> Word]
  /\ cpu.t \in [0 .. VecSize - 1 -> Word]
  /\ cpu.vl \in 0 .. VecSize /\ cpu.vm \in Word
  /\ mem \in [0 .. MemSize - 1 -> Word]
  /\ sm \subseteq Semaphores

(* The scalar instruction a vector instruction repeats for every element,  *)
(* and whether its left operand is Sj.  The vector half precision product  *)
(* (0162, 0163) is not among them: the code takes the full product.        *)
ScalarOf ==
  [o \in {"0140", "0141"} |-> "0044"] @@ [o \in {"0142", "0143"} |-> "0051"] @@
  [o \in {"0144", "0145"} |-> "0046"] @@ [o \in {"0154", "0155"} |-> "0060"] @@
  [o \in {"0156", "0157"} |-> "0061"] @@ [o \in {"0160", "0161"} |-> "0064"] @@
  [o \in {"0164", "0165"} |-> "0066"] @@ [o \in {"0166", "0167"} |-> "0067"] @@
  [o \in {"0170", "0171"} |-> "0062"] @@ [o \in {"0172", "0173"} |-> "0063"]
LeftScalar == {"0140", "0142", "0144", "0154", "0156", "0160", "0164", "0166", "0170", "0172"}

ScalarResult(op, j, k) ==
  CASE op \in {"0044", "0046", "0051"} -> Logical(op, {}, j, k)
    [] op \in {"0060", "0061"} -> IntegerAdd(op, j, k)
    [] OTHER -> FloatOp(op, j, k)

(* Whatever registers the operands share with the result, a vector         *)
(* instruction leaves in the first VL elements of Vi what the scalar       *)
(* instruction makes of the operands as they were before it, and changes   *)
(* no other element.                                                       *)
VectorAgreesWithScalar ==
  [][last'.op \in DOMAIN ScalarOf =>
       \A r \in DOMAIN cpu.v, e \in 0 .. VecSize - 1 :
         cpu'.v[r][e] =
           IF r = last'.i /\ e < cpu.vl
           THEN ScalarResult(ScalarOf[last'.op],
                             IF last'.op \in LeftScalar THEN RefSj(cpu, last'.j)
                                                        ELSE cpu.v[last'.j][e],
                             cpu.v[last'.k][e])
           ELSE cpu.v[r][e]]_vars

Double(x, y) == Num(x) * 2^W + Num(y)
LeftHalf(x, y, n) == ((Double(x, y) * 2^n) \div 2^W) % 2^W
RightHalf(x, y, n) == (Double(x, y) \div 2^n) % 2^W

(* Single and double shifts, of scalars and of vectors, move the bits of   *)
(* one and of two words by any count, those past both words included.      *)
(* 0153 with i = j is left out: there the code shifts in bits of the       *)
(* element it has just overwritten.                                        *)
ShiftIsArithmetic ==
  [][LET c == last'
         ak == RefAk(cpu, c.k)
         si == cpu.s[c.i]
         el(e) == IF e < 0 \/ e >= cpu.vl THEN {} ELSE cpu.v[c.j][e]
         every(f(_)) == \A e \in 0 .. cpu.vl - 1 : Num(cpu'.v[c.i][e]) = f(e)
     IN  /\ c.op = "0052" => Num(cpu'.s[0]) = LeftHalf({}, si, W + c.n) % 2^W
         /\ c.op = "0054" => Num(cpu'.s[c.i]) = (Num(si) * 2^c.n) % 2^W
         /\ c.op \in {"0053", "0055"} =>
              Num(cpu'.s[IF c.op = "0053" THEN 0 ELSE c.i]) = Num(si) \div 2^(W - c.n)
         /\ c.op = "0056" => Num(cpu'.s[c.i]) = LeftHalf(si, RefSj(cpu, c.j), ak)
         /\ c.op = "0057" => Num(cpu'.s[c.i]) = RightHalf(RefSj(cpu, c.j), si, ak)
         /\ c.op = "0150" => every(LAMBDA e : (Num(el(e)) * 2^ak) % 2^W)
         /\ c.op = "0151" => every(LAMBDA e : Num(el(e)) \div 2^ak)
         /\ c.op = "0152" => every(LAMBDA e : LeftHalf(el(e), el(e + 1), ak))
         /\ c.op = "0153" /\ c.i # c.j => every(LAMBDA e : RightHalf(el(e - 1), el(e), ak))]_vars

(* An instruction that an operand range error stopped half way can be      *)
(* executed again: with the limit moved it ends as if it had not been      *)
(* stopped.  The gather whose index vector is also its result is left out: *)
(* its first part has overwritten the indices.                             *)
FaultRestartable ==
  [][last'.op \in MemOps /\ cpu'.range /\ ~(last'.op = "01761" /\ last'.i = last'.k) =>
       LET unlimited(c) == [c EXCEPT !.limit = MemSize, !.range = FALSE]
       IN  MemEffect(last', unlimited(cpu'), mem') = MemEffect(last', unlimited(cpu), mem)]_vars

(* The number a float stands for, in units of the smallest fraction.       *)
FloatValue(w) ==
  IF RawExp(w) < ExpMin THEN 0
  ELSE (IF IsPositive(w) THEN UFract(w) ELSE -UFract(w)) * 2^(RawExp(w) - ExpMin)
Abs(n) == IF n < 0 THEN -n ELSE n

(* A floating sum or difference is off by less than two units in the last  *)
(* place of the larger operand, and has not the opposite sign of the exact *)
(* one, for normalised and other operands, as long as the exponent does    *)
(* not pass its field.  The multiplier drops bits of one operand and scans *)
(* those of the other, and yet all four products are the same with the     *)
(* operands exchanged.                                                     *)
FloatArithmetic ==
  [][LET x == RefSj(cpu, last'.j)
         y == RefSk(cpu, last'.k)
         exact == FloatValue(x) + (IF last'.op = "0062" THEN FloatValue(y) ELSE -FloatValue(y))
         sum == FloatValue(cpu'.s[last'.i])
         top == Max({RawExp(x), RawExp(y), ExpMin})
     IN  /\ last'.op \in {"0062", "0063"} /\ top < 2^ExpSize - 1 =>
              /\ Abs(sum - exact) < 2^(1 + top - ExpMin)
              /\ sum * exact >= 0
         /\ last'.op \in {"0064", "0065", "0066", "0067"} =>
              cpu'.s[last'.i] = FloatOp(last'.op, y, x)]_vars
=============================================================================

----------------------------- MODULE MCCpuInst -----------------------------
(* Programs and register contents for the model checker.                   *)
EXTENDS CpuInst

Regs == 0 .. 2
Sems == 0 .. 2
Recip(w) == Xor(w, {0, W - 2})            \* any function will do

I(op, i, j, k, n) == [op |-> op, i |-> i, j |-> j, k |-> k, n |-> n]

Blank ==
  [p |-> 3, a |-> [r \in Regs |-> r], s |-> [r \in Regs |-> ToWord(37 * r)],
   v |-> [r \in Regs |-> [e \in 0 .. W - 1 |-> ToWord((29 * r + 1) * e + 11 * r)]],
   vl |-> 3, vm |-> {W - 1, W - 3}, b |-> [r \in 0 .. W - 1 |-> r % 8],
   t |-> [r \in 0 .. W - 1 |-> ToWord(5 * r)], calls |-> <<>>, x |-> FALSE, xmp |-> FALSE,
   ema |-> FALSE, base |-> 0, limit |-> MemSize, ore |-> TRUE, cluster |-> 1,
   sb |-> [r \in Regs |-> r], st |-> [r \in Regs |-> {r}], range |-> FALSE]

Context(cpu0, prog0, left0) ==
  [cpu |-> cpu0, mem |-> [w \in 0 .. MemSize - 1 |-> ToWord(3 * w + 1)], sm |-> {1},
   prog |-> prog0, left |-> left0]

Some == {{}, Bits, {0}, {W - 1}, {0, 2, 5}, {1, W - 1}}

(* Every scalar operation that is not a shift or a float operation.        *)
ScalarProg ==
  {I(o, 1, j, k, 0) : o \in {"0044", "0045", "0046", "0047", "0050", "0051", "0060", "0061",
                             "0030", "0031", "0032", "00020", "00030"}, j \in Regs, k \in Regs}
  \cup {I(o, 1, 2, 1, n) : o \in {"0020", "0021", "0022", "00230", "00231", "0024", "0025",
                                  "00260", "00261", "00267", "00270", "00277", "0040", "0041",
                                  "0042", "0043", "0070", "00710", "00711", "00720", "00722",
                                  "00723", "00730", "00732", "00733", "0074", "0075", "0076",
                                  "0077"}, n \in {0, 5}}
ScalarContexts ==
  {Context([Blank EXCEPT !.s = [r \in Regs |-> IF r = 1 THEN x ELSE IF r = 2 THEN y ELSE {}],
                         !.a[1] = n, !.x = xmode, !.cluster = cl], ScalarProg, 1) :
     x \in Some, y \in Some, n \in {0, 7}, xmode \in BOOLEAN, cl \in {0, 1}}

(* Shifts by every count.                                                  *)
ShiftProg ==
  {I(o, 1, 0, 0, n) : o \in {"0052", "0053", "0054", "0055"}, n \in 0 .. W - 1}
  \cup {I(o, 1, j, k, 0) : o \in {"0056", "0057"}, j \in Regs, k \in 0 .. 1}
  \cup {I(o, i, 1, 1, 0) : o \in {"0150", "0151", "0152", "0153"}, i \in {0, 1}}
ShiftContexts ==
  {Context([Blank EXCEPT !.s = [r \in Regs |-> IF r = 1 THEN x ELSE IF r = 2 THEN y ELSE {}],
                         !.a[1] = n, !.vl = l], ShiftProg, 1) :
     x \in Some, y \in Some, n \in 0 .. 2^AW - 1, l \in {0, 1, 3}}

(* Floating point operations on every pair of words.                       *)
FloatProg == {I(o, 0, 1, 2, 0) : o \in {"0062", "0063", "0064", "0065", "0066", "0067"}}
FloatContexts ==
  {Context([Blank EXCEPT !.s = [r \in Regs |-> IF r = 1 THEN x ELSE IF r = 2 THEN y ELSE {}]],
           FloatProg, 1) : x \in Word, y \in {w \in Word : IsPositive(w)}}

(* Vector operations with every overlap of operands and result.            *)
VectorProg ==
  {I(o, i, j, k, 0) : o \in DOMAIN ScalarOf \cup {"0146", "0147", "0162", "0163"},
                      i \in 0 .. 1, j \in 0 .. 1, k \in 0 .. 1}
  \cup {I(o, i, j, 0, 0) : o \in {"01740", "01741", "01742", "01743"}, i \in 0 .. 1, j \in 0 .. 1}
  \cup {I("0175", i, j, 0, n) : i \in 0 .. 1, j \in 0 .. 1, n \in 0 .. 7}
VectorContexts ==
  {Context([Blank EXCEPT !.vl = l, !.x = TRUE, !.v[0] = [e \in 0 .. W - 1 |-> f[e % 3]]],
           VectorProg, 1) :
     l \in {0, 1, 4, W}, f \in [0 .. 2 -> {{}, {W - 1, 2}, {1, 4}}]}

(* Memory operations around the limit of the data area.                    *)
MemProg ==
  {I(o, i, j, 0, n) : o \in {"0034", "0035", "0036", "0037"}, i \in {1, 2}, j \in {0}, n \in {0, 4}}
  \cup {I(o, 1, 2, 0, n) : o \in {"0100", "0110", "0120", "0130"}, n \in 0 .. 7}
  \cup {I(o, i, 1, k, 0) : o \in {"01760", "01761", "01770", "01771"}, i \in {0, 2}, k \in Regs}
MemContexts ==
  {Context([Blank EXCEPT !.a = [r \in Regs |-> IF r = 0 THEN n ELSE IF r = 1 THEN 5 ELSE IF m.x THEN 4 ELSE 12],
                         !.b = [r \in DOMAIN @ |-> @[r] % 8],
                         !.x = m.x, !.xmp = m.xmp, !.ema = m.ema, !.ore = o, !.limit = l,
                         !.base = d], MemProg, 1) :
     n \in {0, 2}, o \in BOOLEAN, l \in {3, 5, 8}, d \in {0, 1, 6},
     m \in {[x |-> FALSE, xmp |-> FALSE, ema |-> FALSE], [x |-> TRUE, xmp |-> FALSE, ema |-> FALSE],
            [x |-> TRUE, xmp |-> TRUE, ema |-> FALSE], [x |-> TRUE, xmp |-> TRUE, ema |-> TRUE]}}

(* Calls, returns and branches in sequence.                                *)
JumpProg ==
  {I("0005", 0, 0, 0, n) : n \in {0, 1}} \cup {I(o, 0, 0, 0, n) : o \in {"0006", "0007"}, n \in {1, 6}}
  \cup {I(o, i, 1, 0, 5) : o \in {"0010", "0011", "0012", "0013", "0014", "0015", "0016", "0017"},
                           i \in {0, 4}}
JumpContexts ==
  {Context([Blank EXCEPT !.a = [r \in Regs |-> IF r = 0 THEN n ELSE r], !.s[0] = w, !.x = xmode],
           JumpProg, 3) : n \in {0, 1, 7}, w \in {{}, {1}, {W - 1}}, xmode \in BOOLEAN}

AllContexts ==
  ScalarContexts \cup ShiftContexts \cup FloatContexts \cup VectorContexts \cup MemContexts
  \cup JumpContexts
=============================================================================

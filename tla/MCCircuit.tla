------------------------------ MODULE MCCircuit ------------------------------
(***************************************************************************)
(* Families of small ACIR programs for the runs of Circuit.                *)
(* Witnesses 0 and 1 are the inputs of every circuit.                      *)
(***************************************************************************)
EXTENDS Circuit, Bitwise

MCBits(fn, x, y) == IF fn = "AND" THEN x & y ELSE (x ^^ y) % P

(* A black box whose results depend on the function, on the length and on  *)
(* the position of every input.                                            *)
MCBlackBox(fn, xs, n) ==
  [k \in 1 .. n |->
    Plus(Sum([m \in DOMAIN xs |-> Times(m % P, xs[m])]),
         Plus(Len(xs) % P, IF fn = "Poseidon2Permutation" THEN k % P ELSE 0))]

(* Bytecode 1 sums its arguments; bytecode 2 inverts its first, or traps.  *)
MCBrillig(id, xs) ==
  IF id = 1 THEN <<Sum(xs)>> ELSE IF xs = <<>> \/ xs[1] = 0 THEN Trap ELSE <<Div(1, xs[1])>>

E(mul, lin, qc) == [mul |-> mul, lin |-> lin, qc |-> qc]
W(w) == E(<<>>, <<<<1, w>>>>, 0)
K(x) == E(<<>>, <<>>, x)
AssertZero(e) == [op |-> "AssertZero", e |-> e]
Logic(fn, ins, bits, out) == [op |-> fn, ins |-> ins, bits |-> bits, out |-> out]
InRange(x, bits) == [op |-> "RANGE", ins |-> <<x>>, bits |-> bits]
Initialise(block, ws) == [op |-> "MemoryInit", block |-> block, init |-> ws]
Access(kind, block, index, value) ==
  [op |-> "MemoryOp", block |-> block, operation |-> K(kind), index |-> index, value |-> value]
Hash(fn, ins, outs) == [op |-> "BlackBox", fn |-> fn, ins |-> ins, outs |-> outs, pred |-> <<>>]
CallTo(id, ins, outs, p) == [op |-> "Call", id |-> id, ins |-> ins, outs |-> outs, pred |-> p]
Exprs(es) == [kind |-> "exprs", exprs |-> es, block |-> 0]
Contents(b) == [kind |-> "MemoryArray", exprs |-> <<>>, block |-> b]
Unconstrained(id, ins, outs, p) ==
  [op |-> "BrilligCall", id |-> id, ins |-> ins, outs |-> outs, pred |-> p]
WI(w) == <<"w", w>>
CI(x) == <<"c", x>>

Circ(ops, returns) == [private |-> {0}, public |-> {1}, opcodes |-> ops, returns |-> returns]
Program(main, others) == [circuits |-> <<main>> \o others, bytecodes |-> 2]
UpTo(n, pool) == UNION {[1 .. k -> pool] : k \in 1 .. n}

-----------------------------------------------------------------------------
(* Equations: solved by a constant, by a run-time coefficient, by both, not *)
(* at all; with the unknown squared, cancelled, or with coefficient zero.   *)
Equations ==
  {AssertZero(e) : e \in
    {E(<<<<1, 0, 1>>>>, <<<<P - 1, 2>>>>, 0),
     E(<<<<1, 0, 2>>>>, <<<<P - 1, 1>>>>, 0),
     E(<<<<2, 3, 1>>, <<1, 0, 1>>>>, <<<<3, 3>>>>, 1),
     E(<<>>, <<<<2, 2>>, <<1, 3>>>>, 1),
     E(<<<<1, 2, 2>>>>, <<<<1, 0>>>>, 0),
     E(<<>>, <<<<1, 3>>, <<P - 1, 3>>, <<1, 0>>>>, 0),
     E(<<<<1, 0, 3>>>>, <<>>, 0),
     E(<<>>, <<<<0, 2>>, <<1, 3>>>>, P - 2),
     E(<<<<1, 0, 0>>>>, <<<<P - 1, 1>>>>, 0)}}

ArithmeticPrograms ==
  {Program(Circ(ops, <<2>>), <<>>) : ops \in UpTo(3, Equations)}
    \cup {Program(Circ(<<o>>, <<>>), <<>>) : o \in Equations}

-----------------------------------------------------------------------------
(* Memory: two blocks, reads and writes with indices that may lie outside,  *)
(* through the result of an earlier read, before the block is initialised;  *)
(* the contents handed to a bytecode; malformed operations.                 *)
MemoryOps ==
  {Access(0, 0, W(0), W(2)), Access(0, 0, E(<<>>, <<<<1, 1>>>>, 1), W(3)),
   Access(1, 0, W(0), E(<<>>, <<<<2, 1>>>>, 3)), Access(1, 0, W(2), W(0)), Access(1, 0, K(1), K(4)),
   Access(0, 1, W(2), W(3)), Initialise(1, <<1, 0>>),
   Unconstrained(1, <<Exprs(<<W(0)>>), Contents(0)>>, <<2>>, One)}
Malformed ==
  {Access(2, 0, K(0), W(2)), Access(0, 0, K(0), E(<<>>, <<<<1, 2>>>>, 1)), Initialise(0, <<1>>),
   Access(0, 0, K(0), W(1)), Unconstrained(3, <<>>, <<2>>, One),
   Unconstrained(1, <<Contents(2)>>, <<2>>, One)}

MemoryPrograms ==
  {Program(Circ(<<Initialise(0, <<0, 1, 0>>)>> \o ops, <<2>>), <<>>) : ops \in UpTo(3, MemoryOps)}
    \cup {Program(Circ(<<Initialise(0, <<0, 1>>), o>>, <<2>>), <<>>) : o \in Malformed}
    \cup {Program(Circ(<<Access(0, 0, K(0), W(2)), Initialise(0, <<0, 1>>)>>, <<2>>), <<>>)}

-----------------------------------------------------------------------------
(* Calls: of a circuit that multiplies, one that divides (and may have no   *)
(* solution), one that calls, one that checks and returns nothing; with     *)
(* predicates that are 1, an input, an expression; of bytecodes; with the   *)
(* wrong arity, and of circuits that are not there.                         *)
Product == Circ(<<AssertZero(E(<<<<1, 0, 1>>>>, <<<<P - 1, 2>>>>, 0))>>, <<2>>)
Quotient ==
  Circ(<<Unconstrained(1, <<Exprs(<<W(0), W(1)>>)>>, <<3>>, One),
         AssertZero(E(<<<<1, 0, 2>>>>, <<<<P - 1, 1>>>>, 0)), InRange(WI(3), 1)>>, <<2>>)
Nested == Circ(<<CallTo(2, <<1, 0>>, <<2>>, W(1)), AssertZero(E(<<>>, <<<<1, 2>>, <<1, 3>>>>, 1))>>, <<3>>)
Checks == Circ(<<AssertZero(E(<<<<1, 0, 0>>>>, <<<<P - 1, 0>>>>, 0))>>, <<>>)
Callees == <<Product, Quotient, Nested, Checks>>

Predicates == {One, W(1), E(<<<<1, 0, 1>>>>, <<<<P - 1, 0>>>>, 1)}
Calls ==
  {CallTo(id, <<0, 1>>, <<2>>, p) : id \in 2 .. 4, p \in Predicates}
    \cup {CallTo(4, <<1, 2>>, <<3>>, One), CallTo(3, <<2, 2>>, <<3>>, W(0)), CallTo(5, <<0, 1>>, <<>>, W(1))}
    \cup {Unconstrained(id, <<Exprs(<<W(0), K(1)>>)>>, <<3>>, p) : id \in 1 .. 2, p \in {One, W(1)}}
    \cup {AssertZero(E(<<<<1, 0, 3>>>>, <<<<P - 1, 1>>>>, 0))}
BadCalls ==
  {CallTo(6, <<0, 1>>, <<2>>, One), CallTo(2, <<0>>, <<2>>, One), CallTo(2, <<0, 1>>, <<>>, One),
   CallTo(2, <<0, 1>>, <<1>>, One), CallTo(2, <<0, 3>>, <<2>>, One),
   Unconstrained(1, <<Exprs(<<W(3)>>)>>, <<2>>, One)}

CallPrograms ==
  {Program(Circ(ops, <<>>), Callees) : ops \in UpTo(2, Calls)}
    \cup {Program(Circ(<<o>>, <<2>>), Callees) : o \in BadCalls}
    \cup {Program(Circ(<<CallTo(2, <<0, 1>>, <<2>>, One)>>, <<2>>), <<c>>) :
            c \in {Circ(<<>>, <<1>>), Circ(<<InRange(WI(2), 1)>>, <<2>>),
                  Circ(<<Unconstrained(1, <<Exprs(<<W(0)>>)>>, <<2>>, One)>>, <<2>>)}}

-----------------------------------------------------------------------------
(* Bitwise opcodes and black boxes: every function, witnesses and constants *)
(* that fit or do not, widths below and at the field's, empty messages and  *)
(* messages of one block, a block and a bit, and more.                      *)
Messages == {<<>>, <<WI(0)>>, <<WI(0), CI(1)>>, <<WI(1), WI(0), CI(1)>>, <<CI(1), CI(2)>>,
             <<WI(0), CI(1), CI(0), WI(1), CI(1)>>}
LogicOps ==
  {Logic(fn, <<WI(0), x>>, bits, 2) : fn \in {"AND", "XOR"}, x \in {WI(1), CI(3)}, bits \in 1 .. 3}
RangeOps == {InRange(x, bits) : x \in {WI(0), WI(2), CI(2)}, bits \in 0 .. 3}
Hashes ==
  {Hash(fn, xs, <<2, 3>>) : fn \in {"Blake2s", "Blake3", "AES128Encrypt", "Sha256Compression",
                                  "Keccakf1600", "Poseidon2Permutation"}, xs \in Messages}
    \cup {[Hash("Ecdsa", <<WI(0), CI(1)>>, <<2>>) EXCEPT !.pred = <<x>>] : x \in {WI(1), CI(1), CI(2)}}

BlackBoxPrograms ==
  {Program(Circ(<<o, r>>, <<2>>), <<>>) : o \in LogicOps, r \in RangeOps}
    \cup {Program(Circ(<<o>>, <<2>>), <<>>) : o \in Hashes \cup RangeOps}
    \cup {Program(Circ(<<InRange(WI(0), 3)>>, <<>>), <<>>)}

AllPrograms == CallPrograms \cup ArithmeticPrograms \cup MemoryPrograms \cup BlackBoxPrograms

-----------------------------------------------------------------------------
(* Programs on which the code does not do what is said of it.               *)
SkippedInverse == {Program(Circ(<<Unconstrained(2, <<Exprs(<<W(0)>>)>>, <<2>>, W(1))>>, <<2>>), <<>>)}
ZeroCoefficient ==
  {Program(Circ(<<AssertZero(E(<<<<1, 0, 2>>>>, <<>>, 0)), AssertZero(E(<<>>, <<<<1, 2>>>>, P - 2))>>, <<2>>), <<>>)}
UnlikeAcvm == SkippedInverse \cup ZeroCoefficient
=============================================================================

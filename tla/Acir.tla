-------------------------------- MODULE Acir --------------------------------
(* The language the program translates, and what its programs mean.  ACIR is *)
(* a dependency of the repository; the reference semantics here is the one   *)
(* the repository's end-to-end tests compare with: the solver ACVM, which    *)
(* finds the witnesses opcode by opcode, and the relation an accepted        *)
(* assignment has to satisfy.                                                *)
(*                                                                           *)
(* An expression is a record of multiplication terms <<c, i, j>>, linear     *)
(* terms <<c, k>> and a constant.  A function input is <<"w", witness>> or   *)
(* <<"c", constant>>.                                                        *)
EXTENDS PrimeField

CONSTANTS
    BlackBox(_, _, _),  \* results of a black box: function, inputs, how many
    Bits(_, _, _),      \* bitwise AND and XOR of two integers
    Brillig(_, _),      \* results of a Brillig function, or Trap
    Trap,
    ByteBits, WordBits, LongBits  \* the widths of the inputs of black boxes

ASSUME WidthAssumption == {ByteBits, WordBits, LongBits} \subseteq 1..MaxBits

\* The map f with f[a] = b, and f overridden by g: :> and @@ of module TLC, which have
\* no meaning for the provers.
With(f, a, b) == [x \in {a} \cup DOMAIN f |-> IF x = a THEN b ELSE f[x]]
Override(f, g) == [x \in DOMAIN f \cup DOMAIN g |-> IF x \in DOMAIN g THEN g[x] ELSE f[x]]

\* The types of ACIR.
IsExpression(e) ==
    e.mul \in Seq(F \X Nat \X Nat) /\ e.lin \in Seq(F \X Nat) /\ e.qc \in F
IsInputs(xs) == xs \in Seq(({"w"} \X Nat) \cup ({"c"} \X F))

One == [mul |-> <<>>, lin |-> <<>>, qc |-> 1]

\* A term with coefficient zero is as if it were not there.
Terms(ts) == {t \in ToSet(ts) : t[1] # 0}

TermWitnesses(t) == {t[k] : k \in 2..Len(t)}

\* The witnesses an expression's value depends on.
Support(e) == UNION {TermWitnesses(t) : t \in Terms(e.mul) \cup Terms(e.lin)}

TermValue(t, v) ==
    IF t[1] = 0 THEN 0
    ELSE IF Len(t) = 2 THEN Times(t[1], v[t[2]])
                       ELSE Times(t[1], Times(v[t[2]], v[t[3]]))
TermValues(ts, v) == [k \in DOMAIN ts |-> TermValue(ts[k], v)]

Value(e, v) == Plus(Sum(TermValues(e.mul \o e.lin, v)), e.qc)

\* The sum of the terms of e that keep(t) selects, under the valuation v.
SumOf(e, v, keep(_)) ==
    LET ts == e.mul \o e.lin
    IN  Sum([k \in DOMAIN ts |-> IF keep(ts[k]) THEN TermValue(ts[k], v) ELSE 0])

InputValue(x, v) == IF x[1] = "w" THEN v[x[2]] ELSE x[2]
InputValues(xs, v) == [k \in DOMAIN xs |-> InputValue(xs[k], v)]
InputWitnesses(xs) == {xs[k][2] : k \in {m \in DOMAIN xs : xs[m][1] = "w"}}

Fits(x, bits) == NumBits(x) <= bits
AllFit(xs, bits) == \A k \in DOMAIN xs : Fits(xs[k], bits)

\* The width of the inputs of each black box.
InputBits(fn) ==
    CASE fn \in {"Blake2s", "Blake3", "AES128Encrypt", "Ecdsa"} -> ByteBits
      [] fn = "Sha256Compression" -> WordBits
      [] fn = "Keccakf1600" -> LongBits
      [] fn = "Poseidon2Permutation" -> MaxBits

(***************************************************************************)
(* ACVM.  A solver has a status, the witnesses it has solved, and the      *)
(* contents of the memory blocks.  "stalled": it went past an equation     *)
(* whose unknown had coefficient zero, leaving that witness for a later    *)
(* opcode.  "skipped": nobody asked it, the call's predicate is false.     *)
(***************************************************************************)
Solver(sol) == [st |-> "solving", sol |-> sol, mem |-> <<>>]
Fail(r) == [r EXCEPT !.st = "failed"]

\* What is left of xs when they are written to ws in order: a place may be written twice.
LastWrite(ws, w) == CHOOSE k \in DOMAIN ws : ws[k] = w /\ \A m \in DOMAIN ws : ws[m] = w => m <= k
Written(ws, xs) == [w \in ToSet(ws) |-> xs[LastWrite(ws, w)]]

\* insert_value: a witness that has a value already must have this one.
AssignAll(r, ws, xs) ==
    IF \E k \in DOMAIN ws : \/ ws[k] \in DOMAIN r.sol /\ r.sol[ws[k]] # xs[k]
                            \/ \E m \in DOMAIN ws : ws[m] = ws[k] /\ xs[m] # xs[k]
    THEN Fail(r)
    ELSE [r EXCEPT !.sol = Override(@, Written(ws, xs))]
Assign(r, w, x) == AssignAll(r, <<w>>, <<x>>)

\* The coefficient of the unknown w once the solved witnesses are put in.
Coefficient(e, w, v) ==
    SumOf(e, With(v, w, 1), LAMBDA t : w \in TermWitnesses(t))

AcvmAssertZero(r, e) ==
    LET unknown == Support(e) \ DOMAIN r.sol
        live == {w \in unknown : Coefficient(e, w, r.sol) # 0}
        rest == Plus(SumOf(e, r.sol, LAMBDA t : TermWitnesses(t) \cap unknown = {}), e.qc)
    IN  IF \E t \in Terms(e.mul) : TermWitnesses(t) \subseteq unknown THEN Fail(r)
        ELSE CASE live = {} /\ rest # 0 -> Fail(r)
               [] live = {} /\ rest = 0 -> IF unknown = {} THEN r ELSE [r EXCEPT !.st = "stalled"]
               [] Cardinality(live) = 1 ->
                    LET w == CHOOSE x \in live : TRUE
                    IN  Assign(r, w, Div(Neg(rest), Coefficient(e, w, r.sol)))
               [] OTHER -> Fail(r)

AcvmMemoryInit(r, op) ==
    IF ToSet(op.init) \subseteq DOMAIN r.sol
    THEN [r EXCEPT !.mem = With(@, op.block, [k \in DOMAIN op.init |-> r.sol[op.init[k]]])]
    ELSE Fail(r)

AcvmMemoryOp(r, op) ==
    IF op.block \notin DOMAIN r.mem \/ ~(Support(op.index) \subseteq DOMAIN r.sol) THEN Fail(r)
    ELSE LET i == Value(op.index, r.sol) + 1
         IN  IF i \notin DOMAIN r.mem[op.block] THEN Fail(r)
             ELSE IF op.operation.qc = 0
                  THEN Assign(r, op.value.lin[1][2], r.mem[op.block][i])
                  ELSE IF Support(op.value) \subseteq DOMAIN r.sol
                       THEN [r EXCEPT !.mem[op.block][i] = Value(op.value, r.sol)]
                       ELSE Fail(r)

AcvmLogic(r, op) ==
    LET xs == InputValues(op.ins, r.sol)
    IN  IF InputWitnesses(op.ins) \subseteq DOMAIN r.sol /\ AllFit(xs, op.bits)
        THEN Assign(r, op.out, Bits(op.op, xs[1], xs[2]))
        ELSE Fail(r)

AcvmRange(r, op) ==
    IF InputWitnesses(op.ins) \subseteq DOMAIN r.sol /\ AllFit(InputValues(op.ins, r.sol), op.bits)
    THEN r ELSE Fail(r)

AcvmBlackBox(r, op) ==
    IF /\ InputWitnesses(op.ins \o op.pred) \subseteq DOMAIN r.sol
       /\ AllFit(InputValues(op.ins, r.sol), InputBits(op.fn))
       /\ AllFit(InputValues(op.pred, r.sol), 1)
    THEN AssignAll(r, op.outs, BlackBox(op.fn, InputValues(op.ins \o op.pred, r.sol), Len(op.outs)))
    ELSE Fail(r)

\* Inputs of a Brillig call: expressions, or the contents of a memory block.
BrilligArgument(x, v, mem) ==
    IF x.kind = "MemoryArray" THEN mem[x.block]
    ELSE [k \in DOMAIN x.exprs |-> Value(x.exprs[k], v)]

BrilligArguments(xs, v, mem) ==
    FlattenSeq([k \in DOMAIN xs |-> BrilligArgument(xs[k], v, mem)])

BrilligSupport(xs) ==
    UNION {UNION {Support(e) : e \in ToSet(xs[k].exprs)} : k \in DOMAIN xs}

Zeros(ws) == [k \in DOMAIN ws |-> 0]

PredicateKnown(r, op) ==
    Support(op.pred) \subseteq DOMAIN r.sol /\ Value(op.pred, r.sol) \in {0, 1}

\* A call whose predicate is zero is skipped and its outputs are zero.
AcvmBrilligCall(r, op) ==
    LET results == Brillig(op.id, BrilligArguments(op.ins, r.sol, r.mem))
    IN  IF ~PredicateKnown(r, op) THEN Fail(r)
        ELSE IF Value(op.pred, r.sol) = 0 THEN AssignAll(r, op.outs, Zeros(op.outs))
        ELSE IF ~(BrilligSupport(op.ins) \subseteq DOMAIN r.sol) \/ results = Trap THEN Fail(r)
        ELSE AssignAll(r, op.outs, results)

\* The solver of a callee, whose witnesses 0, 1, ... are the inputs, and what
\* the caller learns from it.
AcvmCallee(r, op) ==
    IF ~PredicateKnown(r, op) THEN Fail(Solver(<<>>))
    ELSE IF Value(op.pred, r.sol) = 0 THEN [Solver(<<>>) EXCEPT !.st = "skipped"]
    ELSE IF ~(ToSet(op.ins) \subseteq DOMAIN r.sol) THEN Fail(Solver(<<>>))
    ELSE Solver([k \in 0..(Len(op.ins) - 1) |-> r.sol[op.ins[k + 1]]])

AcvmReturn(r, op, callee, returns) ==
    IF callee.st = "skipped" THEN AssignAll(r, op.outs, Zeros(op.outs))
    ELSE IF callee.st = "failed" \/ ~(ToSet(returns) \subseteq DOMAIN callee.sol) THEN Fail(r)
    ELSE AssignAll(IF callee.st = "stalled" THEN [r EXCEPT !.st = "stalled"] ELSE r,
                   op.outs, [k \in DOMAIN returns |-> callee.sol[returns[k]]])

(***************************************************************************)
(* The relation of an opcode: does the valuation v, with memory blocks     *)
(* mem, satisfy it?  The relation of a Call is that of the callee, together *)
(* with the equality of results, when its predicate is one.                *)
(***************************************************************************)
Holds(op, v, mem) ==
    CASE op.op = "AssertZero" -> Value(op.e, v) = 0
      [] op.op = "MemoryOp" ->
            LET i == Value(op.index, v) + 1
            IN  i \in DOMAIN mem[op.block]
                /\ (op.operation.qc = 0 => Value(op.value, v) = mem[op.block][i])
      [] op.op \in {"AND", "XOR"} ->
            LET xs == InputValues(op.ins, v)
            IN  AllFit(xs, op.bits) /\ v[op.out] = Bits(op.op, xs[1], xs[2])
      [] op.op = "RANGE" -> AllFit(InputValues(op.ins, v), op.bits)
      [] op.op = "BlackBox" ->
            /\ AllFit(InputValues(op.ins, v), InputBits(op.fn))
            /\ AllFit(InputValues(op.pred, v), 1)
            /\ [k \in DOMAIN op.outs |-> v[op.outs[k]]]
                 = BlackBox(op.fn, InputValues(op.ins \o op.pred, v), Len(op.outs))
      [] op.op = "Call" -> Value(op.pred, v) \in {0, 1}
      [] op.op \in {"MemoryInit", "BrilligCall"} -> TRUE

\* The memory blocks after the opcode.
MemoryAfter(op, v, mem) ==
    CASE op.op = "MemoryInit" ->
            With(mem, op.block, [k \in DOMAIN op.init |-> v[op.init[k]]])
      [] op.op = "MemoryOp" /\ op.operation.qc = 1 /\ Value(op.index, v) + 1 \in DOMAIN mem[op.block] ->
            [mem EXCEPT ![op.block][Value(op.index, v) + 1] = Value(op.value, v)]
      [] OTHER -> mem
=============================================================================

------------------------------- MODULE Circuit -------------------------------
(* The translation of circuits: which programs it accepts, and what the two  *)
(* functions it emits for each circuit do when they run.  @compute finds the *)
(* witnesses and writes them to the members of the circuit's struct;         *)
(* @constrain reads them back and checks the relation.                       *)
(*                                                                           *)
(* A behaviour translates one program, runs @compute of the entry circuit on *)
(* some inputs, in step with ACVM (module Acir), and then runs @constrain    *)
(* on a struct: the one @compute made (mode "honest"), or one with any       *)
(* values in its members (mode "any").                                       *)
EXTENDS Acir

CONSTANTS
    Programs,       \* the programs: circuits, and how many bytecodes
    Modes,          \* a subset of {"honest", "any"}
    BlockBytes,     \* BLAKE2S_BLOCK_BYTES, BLOCK_BYTES: bytes in a hash block
    AesBlock,       \* AES_BLOCK_SIZE
    KeyBytes,       \* inputs of AES behind the message: initial vector and key
    StateWidth      \* STATE_WIDTH of Poseidon2

VARIABLES
    prog,       \* the program
    inputs,     \* the arguments of its entry circuit
    mode,       \* "none" before it is chosen: which struct @constrain is given
    phase,      \* "translate", "compute", "constrain" or "done"
    stack,      \* frames of the running functions, the entry circuit's first
    outcome,    \* "ok"; "refused": translation returned an error; "trapped";
                \* "undefined": @compute read a member nobody has written
    accepted,   \* all constraints met so far hold
    holds,      \* all ACIR opcodes met so far hold of the claimed witnesses
    solved      \* ACVM has executed the program without error

vars == <<prog, inputs, mode, phase, stack, outcome, accepted, holds, solved>>

Circuits == prog.circuits

-----------------------------------------------------------------------------
(* The programs.  Opcodes hold what ACIR's types let them hold; a memory     *)
(* block has at least one cell ("MemoryInit always supplies at least one     *)
(* element", memory_read.rs:91) and fewer than there are felts; only ECDSA   *)
(* has a predicate among the black boxes.                                    *)

IsSequence(xs) == Len(xs) \in Nat /\ DOMAIN xs = 1..Len(xs)

AreArguments(xs) ==
    /\ IsSequence(xs)
    /\ \A k \in DOMAIN xs : \A e \in ToSet(xs[k].exprs) : IsExpression(e)

IsOpcode(op) ==
    /\ op.op = "AssertZero" => IsExpression(op.e)
    /\ op.op = "MemoryInit" => op.init \in Seq(Nat) /\ Len(op.init) \in 1..P
    /\ op.op = "MemoryOp" =>
          IsExpression(op.operation) /\ IsExpression(op.index) /\ IsExpression(op.value)
    /\ op.op \in {"AND", "XOR"} =>
          IsInputs(op.ins) /\ Len(op.ins) = 2 /\ op.out \in Nat /\ op.bits \in Nat
    /\ op.op = "RANGE" => IsInputs(op.ins) /\ op.bits \in Nat
    /\ op.op = "BlackBox" =>
          /\ IsInputs(op.ins) /\ IsInputs(op.pred) /\ op.outs \in Seq(Nat)
          /\ op.fn \in {"Blake2s", "Blake3", "AES128Encrypt", "Sha256Compression",
                        "Keccakf1600", "Poseidon2Permutation", "Ecdsa"}
          /\ op.fn # "Ecdsa" => op.pred = <<>>
    /\ op.op = "Call" =>
          op.ins \in Seq(Nat) /\ op.outs \in Seq(Nat) /\ IsExpression(op.pred)
    /\ op.op = "BrilligCall" =>
          op.outs \in Seq(Nat) /\ IsExpression(op.pred) /\ AreArguments(op.ins)
    /\ op.op \in {"AssertZero", "MemoryInit", "MemoryOp", "AND", "XOR", "RANGE", "BlackBox",
                  "Call", "BrilligCall"}

IsCircuit(c) ==
    /\ c.private \subseteq Nat /\ IsFiniteSet(c.private)
    /\ c.public \subseteq Nat /\ IsFiniteSet(c.public)
    /\ IsSequence(c.opcodes) /\ \A k \in DOMAIN c.opcodes : IsOpcode(c.opcodes[k])
    /\ c.returns \in Seq(Nat)

ASSUME ProgramsAssumption ==
    /\ BlockBytes \in Nat \ {0}
    /\ \A p \in Programs :
          /\ IsSequence(p.circuits) /\ p.circuits # <<>>
          /\ \A k \in DOMAIN p.circuits : IsCircuit(p.circuits[k])

-----------------------------------------------------------------------------
(* Which witnesses an opcode mentions.                                       *)

CollectWitnesses(e) == UNION {TermWitnesses(t) : t \in ToSet(e.mul \o e.lin)}

GetWitnesses(op) ==
    CASE op.op = "AssertZero" -> CollectWitnesses(op.e)
      [] op.op = "MemoryInit" -> ToSet(op.init)
      [] op.op = "MemoryOp" -> CollectWitnesses(op.index) \cup CollectWitnesses(op.value)
      [] op.op \in {"AND", "XOR"} -> InputWitnesses(op.ins) \cup {op.out}
      [] op.op = "RANGE" -> InputWitnesses(op.ins)
      [] op.op = "BlackBox" -> InputWitnesses(op.ins \o op.pred) \cup ToSet(op.outs)
      [] op.op = "Call" -> ToSet(op.ins \o op.outs) \cup CollectWitnesses(op.pred)
      [] op.op = "BrilligCall" ->
            (UNION {UNION {CollectWitnesses(e) : e \in ToSet(x.exprs)} : x \in ToSet(op.ins)})
              \cup ToSet(op.outs) \cup CollectWitnesses(op.pred)

\* The witnesses an opcode's @compute code writes, AssertZero's apart.
Outputs(op) ==
    CASE op.op \in {"BlackBox", "Call", "BrilligCall"} -> ToSet(op.outs)
      [] op.op \in {"AND", "XOR"} -> {op.out}
      [] op.op = "MemoryOp" /\ op.operation.qc = 0 -> CollectWitnesses(op.value)
      [] OTHER -> {}

Params(c) == c.private \cup c.public

\* ACIR numbers a circuit's inputs before its other witnesses.
ASSUME InputsAssumption ==
    \A p \in Programs : \A c \in ToSet(p.circuits) :
        Params(c) = 0..(Cardinality(Params(c)) - 1)

\* Helpers and bytecodes return felts, one for each output.
AllOpcodes == UNION {UNION {ToSet(c.opcodes) : c \in ToSet(p.circuits)} : p \in Programs}
BlocksOf(xs) == {xs[k].block : k \in {m \in DOMAIN xs : xs[m].kind = "MemoryArray"}}

ASSUME ResultsAssumption ==
    /\ \A fn \in {"AND", "XOR"}, x, y \in F : Bits(fn, x, y) \in F
    /\ \A op \in AllOpcodes :
          /\ op.op = "BlackBox" =>
                \A v \in [InputWitnesses(op.ins \o op.pred) -> F] :
                    BlackBox(op.fn, InputValues(op.ins \o op.pred, v), Len(op.outs))
                      \in [DOMAIN op.outs -> F]
          /\ op.op = "BrilligCall" =>
                \A v \in [BrilligSupport(op.ins) -> F],
                   mem \in [BlocksOf(op.ins) -> UNION {[1..len -> F] : len \in 1..P}] :
                    Brillig(op.id, BrilligArguments(op.ins, v, mem))
                      \in {Trap} \cup [DOMAIN op.outs -> F]

\* The place of an input witness in the parameter list, which is in ascending order.
ParamIndex(c, w) == Cardinality({u \in Params(c) : u <= w})

\* The unit output, which is not a witness, has the number -1.
Unit == -1

\* Mutant of Members: only for witnesses that an opcode names as its output.
MembersOfOutputs(c) == (UNION {Outputs(op) : op \in ToSet(c.opcodes)}) \ Params(c)

\* The felt members of a circuit's struct.
Members(c) == (UNION {GetWitnesses(op) : op \in ToSet(c.opcodes)}) \ Params(c)
NeedsUnit(i, c) == i = 1 /\ c.returns = <<>>

-----------------------------------------------------------------------------
(* Translation.                                                              *)

ConstantsFit(xs, bits) ==
    \A x \in ToSet(xs) : x[1] = "c" => Fits(x[2], bits)

HasInit(c, block) ==
    \E op \in ToSet(c.opcodes) : op.op = "MemoryInit" /\ op.block = block

\* The shapes a black box must have; the types of ACIR fix the others.
ShapeFits(op) ==
    CASE op.fn = "AES128Encrypt" ->
            LET len == Len(op.ins) - KeyBytes IN len % AesBlock = 0 /\ Len(op.outs) = len
      [] op.fn = "Poseidon2Permutation" -> {Len(op.ins), Len(op.outs)} = {StateWidth}
      [] OTHER -> TRUE

\* The errors of build_handler.
HandlerRefuses(c, op) ==
    CASE op.op = "Call" ->
            op.id \notin DOMAIN Circuits \/ Len(Circuits[op.id].returns) # Len(op.outs)
      [] op.op = "MemoryOp" ->
            \/ op.operation.mul \o op.operation.lin # <<>> \/ op.operation.qc \notin {0, 1}
            \/ /\ op.operation.qc = 0
               /\ ~\E w \in CollectWitnesses(op.value) :
                     op.value = [mul |-> <<>>, lin |-> <<<<1, w>>>>, qc |-> 0]
      [] op.op = "BrilligCall" ->
            \/ op.id \notin 1..prog.bytecodes
            \/ \E x \in ToSet(op.ins) : x.kind = "MemoryArray" /\ ~HasInit(c, x.block)
      [] op.op \in {"AND", "XOR", "RANGE"} -> ~ConstantsFit(op.ins, op.bits)
      [] op.op = "BlackBox" ->
            \/ ~ShapeFits(op)
            \/ ~ConstantsFit(op.ins, InputBits(op.fn)) \/ ~ConstantsFit(op.pred, 1)
      [] OTHER -> FALSE

\* What the module verifier refuses: an access to a member that is not there,
\* a member declared twice, a call with the wrong number of arguments.
VerifierRefuses(c, op) ==
    \/ Outputs(op) \cap Params(c) # {}
    \/ /\ op.op = "Call"
       /\ \/ Len(op.ins) # Cardinality(Params(Circuits[op.id]))
          \/ ~(ToSet(Circuits[op.id].returns) \subseteq Members(Circuits[op.id]))
    \/ /\ op.op = "MemoryInit"
       /\ Cardinality({k \in DOMAIN c.opcodes : c.opcodes[k].op = "MemoryInit"
                                                  /\ c.opcodes[k].block = op.block}) > 1

LinearCoefficient(e, w) ==
    Sum([k \in DOMAIN e.lin |-> IF e.lin[k][2] = w THEN e.lin[k][1] ELSE 0])
MulTermsOf(e, w) == {t \in Terms(e.mul) : w \in {t[2], t[3]}}

\* solve_witness finds no coefficient, or finds the unknown squared.
Unsolvable(e, w) ==
    \/ \E t \in MulTermsOf(e, w) : t[2] = w /\ t[3] = w
    \/ MulTermsOf(e, w) = {} /\ LinearCoefficient(e, w) = 0

\* The writer of @compute while it emits: the witnesses it knows, the memory
\* blocks it has made, and whether an opcode has been refused.
Writer(c) == [known |-> Params(c), blocks |-> {}, ok |-> TRUE]
Refuse(wr) == [wr EXCEPT !.ok = FALSE]
Know(wr, ws) == [wr EXCEPT !.known = @ \cup ws]

EmitAssertZero(wr, e) ==
    LET unknown == CollectWitnesses(e) \ wr.known
    IN  IF Cardinality(unknown) > 1 \/ \E w \in unknown : Unsolvable(e, w)
        THEN Refuse(wr) ELSE Know(wr, unknown)

EmitMemoryOp(wr, op) ==
    IF op.block \in wr.blocks THEN Know(wr, Outputs(op)) ELSE Refuse(wr)

EmitBrilligCall(wr, op) ==
    IF \E x \in ToSet(op.ins) : x.kind = "MemoryArray" /\ x.block \notin wr.blocks
    THEN Refuse(wr) ELSE Know(wr, Outputs(op))

EmitCompute(wr, op) ==
    CASE ~wr.ok -> wr
      [] wr.ok /\ op.op = "AssertZero" -> EmitAssertZero(wr, op.e)
      [] wr.ok /\ op.op = "MemoryInit" -> [wr EXCEPT !.blocks = @ \cup {op.block}]
      [] wr.ok /\ op.op = "MemoryOp" -> EmitMemoryOp(wr, op)
      [] wr.ok /\ op.op = "BrilligCall" -> EmitBrilligCall(wr, op)
      [] OTHER -> Know(wr, Outputs(op))

\* The writer after the first n opcodes.
WriterAfter(c, n) ==
    LET writer[k \in 0..n] ==
            IF k = 0 THEN Writer(c) ELSE EmitCompute(writer[k - 1], c.opcodes[k])
    IN  writer[n]

Translates(c) ==
    /\ \A op \in ToSet(c.opcodes) : ~HandlerRefuses(c, op)
    /\ WriterAfter(c, Len(c.opcodes)).ok
    /\ \A op \in ToSet(c.opcodes) : ~VerifierRefuses(c, op)

-----------------------------------------------------------------------------
(* Running functions.  A frame holds the circuit, the next opcode, the       *)
(* values of the witnesses read or solved so far, the members of the struct  *)
(* and of its subcomponents, the memory blocks, and ACVM on the same         *)
(* circuit; in @constrain only ACVM's memory is used.                        *)

Struct == [w |-> <<>>, subs |-> <<>>]

Frame(c, args, self, ref) ==
    [c |-> c, pc |-> 1,
     vals |-> [w \in Params(Circuits[c]) |-> args[ParamIndex(Circuits[c], w)]],
     self |-> self, mem |-> <<>>, ref |-> ref]

Top == stack[Len(stack)]
Caller == stack[Len(stack) - 1]
Code(f) == Circuits[f.c].opcodes
AtEnd(f) == f.pc > Len(Code(f))
Op == Code(Top)[Top.pc]
Returns(op) == Circuits[op.id].returns

EmitExpression(e, v) ==
    Plus(Sum(TermValues(e.mul, v)), Plus(Sum(TermValues(e.lin, v)), e.qc))

\* emit_expression_excluding: the terms that w has no part in.
ValuesWithout(ts, w, v) ==
    [k \in DOMAIN ts |-> IF w \in TermWitnesses(ts[k]) THEN 0 ELSE TermValue(ts[k], v)]
EmitExcluding(e, w, v) ==
    Plus(Sum(ValuesWithout(e.mul, w, v)), Plus(Sum(ValuesWithout(e.lin, w, v)), e.qc))

NothingElse(e, w) ==
    e.qc = 0 /\ \A t \in Terms(e.mul) \cup Terms(e.lin) : w \in TermWitnesses(t)

\* What the multiplication terms contribute to the coefficient of w.
Other(t, w) == IF t[2] = w THEN t[3] ELSE t[2]
Contribution(t, e, w, v) == IF t \in MulTermsOf(e, w) THEN Times(t[1], v[Other(t, w)]) ELSE 0

\* Mutant of SkippedCoeff: the linear terms are left out.
SkippedCoeffMul(e, w, v) == Sum([k \in DOMAIN e.mul |-> Contribution(e.mul[k], e, w, v)])

SkippedCoeff(e, w, v) ==
    Plus(LinearCoefficient(e, w),
         Sum([k \in DOMAIN e.mul |-> Contribution(e.mul[k], e, w, v)]))

\* What solve_witness's code computes.
Solution(e, w, v) ==
    IF NothingElse(e, w) THEN 0 ELSE Div(Neg(EmitExcluding(e, w, v)), SkippedCoeff(e, w, v))

DividesByZero(e, w, v) == ~NothingElse(e, w) /\ SkippedCoeff(e, w, v) = 0

\* write_member and mark_known of several witnesses, in order.
Define(f, ws, xs) ==
    [f EXCEPT !.vals = Override(@, Written(ws, xs)), !.self.w = Override(@, Written(ws, xs))]

\* Mutant of ComputedSelectors: cells are counted from one.
SelectorsFromOne(i, len) == [k \in 1..len |-> IF i = k THEN 1 ELSE 0]

\* Mutant of PinnedSelectors: their sum is not constrained.
SelectorsUnsummed(i, len) ==
    {s \in [1..len -> F] :
        /\ \A k \in 1..len : Times(s[k], Minus(s[k], 1)) = 0
        /\ \A k \in 1..len : Times(s[k], Minus(i, k - 1)) = 0}

\* Mutant of SelectWrite: the new value is added to the old one.
SelectAdd(s, arr, x) == [k \in DOMAIN arr |-> Plus(arr[k], Times(s[k], x))]

\* The selectors of a memory access: computed, and as a prover may choose them.
ComputedSelectors(i, len) == [k \in 1..len |-> IF i = k - 1 THEN 1 ELSE 0]
PinnedSelectors(i, len) ==
    {s \in [1..len -> F] :
        /\ \A k \in 1..len : Times(s[k], Minus(s[k], 1)) = 0
        /\ \A k \in 1..len : Times(s[k], Minus(i, k - 1)) = 0
        /\ len > 0 => Sum(s) = 1}

SelectRead(s, arr) == Sum([k \in DOMAIN arr |-> Times(s[k], arr[k])])
SelectWrite(s, arr, x) ==
    [k \in DOMAIN arr |-> Plus(arr[k], Times(s[k], Minus(x, arr[k])))]

\* The arguments of a helper, and the result of the helper from its arguments:
\* the hashes pad the message to whole blocks and append its length.
NumBlocks(len) == (len + BlockBytes - 1) \div BlockBytes
Padded(xs) ==
    LET len == Len(xs)
        blocks == NumBlocks(IF len = 0 THEN 1 ELSE len)
    IN  [k \in 1..(blocks * BlockBytes) |-> IF k <= len THEN xs[k] ELSE 0]

HelperArgs(op, v) ==
    LET xs == InputValues(op.ins, v)
    IN  CASE op.fn = "Blake2s" -> Padded(xs) \o <<Len(xs) % TwoTo(WordBits), Len(xs) \div TwoTo(WordBits)>>
          [] op.fn = "Blake3" ->
                Append(Padded(xs), Len(xs) - (Len(Padded(xs)) \div BlockBytes - 1) * BlockBytes)
          [] OTHER -> InputValues(op.ins \o op.pred, v)

Message(fn, args) ==
    LET n == Len(args)
    IN  CASE fn = "Blake2s" -> SubSeq(args, 1, args[n - 1] + TwoTo(WordBits) * args[n])
          [] fn = "Blake3" -> SubSeq(args, 1, n - 1 - BlockBytes + args[n])
          [] OTHER -> args

CallHelper(op, v) == BlackBox(op.fn, Message(op.fn, HelperArgs(op, v)), Len(op.outs))

-----------------------------------------------------------------------------
(* @compute.  Every step runs the code of one opcode, or the return of a     *)
(* call, and lets ACVM do the same opcode.                                   *)

Reference(f, op) ==
    IF f.ref.st \notin {"solving", "stalled"} THEN f.ref
    ELSE CASE op.op = "AssertZero" -> AcvmAssertZero(f.ref, op.e)
           [] op.op = "MemoryInit" -> AcvmMemoryInit(f.ref, op)
           [] op.op = "MemoryOp" -> AcvmMemoryOp(f.ref, op)
           [] op.op \in {"AND", "XOR"} -> AcvmLogic(f.ref, op)
           [] op.op = "RANGE" -> AcvmRange(f.ref, op)
           [] op.op = "BlackBox" -> AcvmBlackBox(f.ref, op)
           [] op.op = "BrilligCall" -> AcvmBrilligCall(f.ref, op)
           [] op.op = "Call" ->  \* one that is not made
                AcvmReturn(f.ref, op, AcvmCallee(f.ref, op), Returns(op))

Running(ph) == phase = ph /\ outcome = "ok" /\ accepted
At(ph, ops) == Running(ph) /\ ~AtEnd(Top) /\ Op.op \in ops

\* The witnesses an opcode's @compute code reads; AssertZero's are known.
ReadBy(op) ==
    CASE op.op = "MemoryInit" -> ToSet(op.init)
      [] op.op = "MemoryOp" ->
            Support(op.index) \cup (IF op.operation.qc = 1 THEN Support(op.value) ELSE {})
      [] op.op \in {"AND", "XOR"} -> InputWitnesses(op.ins)
      [] op.op = "BlackBox" -> InputWitnesses(op.ins \o op.pred)
      [] op.op = "BrilligCall" -> Support(op.pred) \cup BrilligSupport(op.ins)
      [] op.op = "Call" -> ToSet(op.ins) \cup Support(op.pred)
      [] OTHER -> {}

Computing(ops) == At("compute", ops) /\ ReadBy(Op) \subseteq DOMAIN Top.vals

\* The top frame becomes f, one opcode on unless the run ends here.
Replace(f, out) ==
    /\ stack' = [stack EXCEPT ![Len(stack)] =
                    [f EXCEPT !.ref = Reference(Top, Op), !.pc = IF out = "ok" THEN @ + 1 ELSE @]]
    /\ outcome' = out
    /\ UNCHANGED <<prog, inputs, mode, phase, accepted, holds, solved>>

Unknown(e) == CollectWitnesses(e) \ DOMAIN Top.vals

ComputeSatisfied ==
    /\ Computing({"AssertZero"})
    /\ Unknown(Op.e) = {}
    /\ Replace(Top, "ok")

ComputeSolve ==
    /\ Computing({"AssertZero"})
    /\ \E w \in Unknown(Op.e) :
          IF DividesByZero(Op.e, w, Top.vals) THEN Replace(Top, "trapped")
          ELSE Replace(Define(Top, <<w>>, <<Solution(Op.e, w, Top.vals)>>), "ok")

ComputeMemoryInit ==
    /\ Computing({"MemoryInit"})
    /\ Replace([Top EXCEPT !.mem = With(@, Op.block, [k \in DOMAIN Op.init |-> Top.vals[Op.init[k]]])], "ok")

ComputeMemoryRead ==
    /\ Computing({"MemoryOp"}) /\ Op.operation.qc = 0
    /\ LET arr == Top.mem[Op.block]
           s == ComputedSelectors(EmitExpression(Op.index, Top.vals), Len(arr))
       IN  Replace(Define(Top, <<Op.value.lin[1][2]>>, <<SelectRead(s, arr)>>), "ok")

ComputeMemoryWrite ==
    /\ Computing({"MemoryOp"}) /\ Op.operation.qc = 1
    /\ LET arr == Top.mem[Op.block]
           s == ComputedSelectors(EmitExpression(Op.index, Top.vals), Len(arr))
       IN  Replace([Top EXCEPT !.mem[Op.block] =
                       SelectWrite(s, arr, EmitExpression(Op.value, Top.vals))], "ok")

ComputeLogic ==
    /\ Computing({"AND", "XOR"})
    /\ LET xs == InputValues(Op.ins, Top.vals)
       IN  Replace(Define(Top, <<Op.out>>, <<Bits(Op.op, xs[1], xs[2])>>), "ok")

ComputeRange ==
    /\ Computing({"RANGE"})
    /\ Replace(Top, "ok")

ComputeBlackBox ==
    /\ Computing({"BlackBox"})
    /\ Replace(Define(Top, Op.outs, CallHelper(Op, Top.vals)), "ok")

\* The bytecode runs whatever the predicate is; the predicate scales results.
Gated(p, xs) == [k \in DOMAIN xs |-> Times(p, xs[k])]

ComputeBrilligCall ==
    /\ Computing({"BrilligCall"})
    /\ LET results == Brillig(Op.id, BrilligArguments(Op.ins, Top.vals, Top.mem))
       IN  IF results = Trap THEN Replace(Top, "trapped")
           ELSE Replace(Define(Top, Op.outs, Gated(EmitExpression(Op.pred, Top.vals), results)), "ok")

ComputeCall ==
    /\ Computing({"Call"})
    /\ LET args == [k \in DOMAIN Op.ins |-> Top.vals[Op.ins[k]]]
           ref == IF Top.ref.st \in {"solving", "stalled"} THEN AcvmCallee(Top.ref, Op) ELSE Top.ref
       IN  stack' = Append(stack, Frame(Op.id, args, Struct, ref))
    /\ UNCHANGED <<prog, inputs, mode, phase, outcome, accepted, holds, solved>>

\* ACVM on the caller after the call.
Returned(op) ==
    IF Caller.ref.st \in {"solving", "stalled"}
    THEN AcvmReturn(Caller.ref, op, Top.ref, Returns(op)) ELSE Caller.ref

ComputeReturn ==
    /\ Running("compute") /\ Len(stack) > 1 /\ AtEnd(Top)
    /\ LET op == Code(Caller)[Caller.pc]
           ret == [k \in DOMAIN op.outs |-> Top.self.w[Returns(op)[k]]]
           f == Define(Caller, op.outs, Gated(EmitExpression(op.pred, Caller.vals), ret))
       IN  /\ ToSet(Returns(op)) \subseteq DOMAIN Top.self.w
           /\ stack' = Append(SubSeq(stack, 1, Len(stack) - 2),
                 [f EXCEPT !.pc = @ + 1, !.self.subs = With(@, Caller.pc, Top.self),
                           !.ref = Returned(op)])
    /\ UNCHANGED <<prog, inputs, mode, phase, outcome, accepted, holds, solved>>

\* The code reads a member before it is written: anything may follow.
ComputeUndefined ==
    /\ Running("compute")
    /\ \/ ~AtEnd(Top) /\ ~(ReadBy(Op) \subseteq DOMAIN Top.vals) /\ Replace(Top, "undefined")
       \/ /\ Len(stack) > 1 /\ AtEnd(Top)
          /\ LET op == Code(Caller)[Caller.pc]
             IN  /\ ~(ToSet(Returns(op)) \subseteq DOMAIN Top.self.w)
                 /\ stack' = [stack EXCEPT ![Len(stack) - 1].ref = Returned(op)]
          /\ outcome' = "undefined"
          /\ UNCHANGED <<prog, inputs, mode, phase, accepted, holds, solved>>

\* The entry circuit ends; @constrain gets the same inputs and the struct.
ComputeEnds ==
    /\ Running("compute") /\ Len(stack) = 1 /\ AtEnd(Top)
    /\ LET w == Top.self.w
           all == IF NeedsUnit(1, Circuits[1]) THEN With(w, Unit, 0) ELSE w
       IN  stack' = <<Frame(1, inputs, [Top.self EXCEPT !.w = all], Solver(<<>>))>>
    /\ phase' = "constrain"
    /\ solved' = (Top.ref.st = "solving")
    /\ UNCHANGED <<prog, inputs, mode, outcome, accepted, holds>>

-----------------------------------------------------------------------------
(* @constrain.  A member is read when an opcode that mentions it is met, or  *)
(* by the caller when it is a result; its value is then fixed.  The run ends *)
(* at the first constraint that fails.                                       *)

Read(witnesses) ==
    LET new == witnesses \ DOMAIN Top.vals
    IN  {Override(Top.vals, g) : g \in
            {h \in [new -> F] : mode = "honest" =>
                \A w \in new \cap DOMAIN Top.self.w : h[w] = Top.self.w[w]}}
Claims(op) == Read(GetWitnesses(op))

\* The opcode's code ran with the values v, left memory mem, and its
\* constraints are met or not.
Advanced(f, v, mem) ==
    [f EXCEPT !.vals = v, !.mem = mem, !.pc = f.pc + 1,
              !.ref = [f.ref EXCEPT !.mem = MemoryAfter(Op, v, f.ref.mem)]]

Check(v, mem, met) ==
    /\ stack' = [stack EXCEPT ![Len(stack)] = Advanced(Top, v, mem)]
    /\ accepted' = met
    /\ holds' = (holds /\ Holds(Op, v, Top.ref.mem))
    /\ phase' = IF met THEN phase ELSE "done"
    /\ UNCHANGED <<prog, inputs, mode, outcome, solved>>

Constraining(ops) == At("constrain", ops)

\* constrain_input_width, constrain_bool, emit_gated_eq.
WidthMet(xs, bits, v) ==
    bits < MaxBits => \A w \in InputWitnesses(xs) : v[w] < Pow2(bits)
BoolMet(x) == Times(x, Minus(1, x)) = 0
GatedEq(p, x, y) == Times(p, Minus(x, y)) = 0

ConstrainAssertZero ==
    /\ Constraining({"AssertZero"})
    /\ \E v \in Claims(Op) : Check(v, Top.mem, EmitExpression(Op.e, v) = 0)

ConstrainMemoryInit ==
    /\ Constraining({"MemoryInit"})
    /\ \E v \in Claims(Op) :
          Check(v, With(Top.mem, Op.block, [k \in DOMAIN Op.init |-> v[Op.init[k]]]), TRUE)

SelectorsFor(op, v) ==
    PinnedSelectors(EmitExpression(op.index, v), Len(Top.mem[op.block]))

ConstrainMemoryRead ==
    /\ Constraining({"MemoryOp"}) /\ Op.operation.qc = 0
    /\ \E v \in Claims(Op) :
          \/ SelectorsFor(Op, v) = {} /\ Check(v, Top.mem, FALSE)
          \/ \E s \in SelectorsFor(Op, v) :
                Check(v, Top.mem, v[Op.value.lin[1][2]] = SelectRead(s, Top.mem[Op.block]))

ConstrainMemoryWrite ==
    /\ Constraining({"MemoryOp"}) /\ Op.operation.qc = 1
    /\ \E v \in Claims(Op) :
          \/ SelectorsFor(Op, v) = {} /\ Check(v, Top.mem, FALSE)
          \/ \E s \in SelectorsFor(Op, v) :
                Check(v, [Top.mem EXCEPT ![Op.block] = SelectWrite(s, @, EmitExpression(Op.value, v))],
                      TRUE)

ConstrainLogic ==
    /\ Constraining({"AND", "XOR"})
    /\ \E v \in Claims(Op) :
          LET xs == InputValues(Op.ins, v)
          IN  Check(v, Top.mem, WidthMet(Op.ins, Op.bits, v) /\ v[Op.out] = Bits(Op.op, xs[1], xs[2]))

ConstrainRange ==
    /\ Constraining({"RANGE"})
    /\ \E v \in Claims(Op) : Check(v, Top.mem, WidthMet(Op.ins, Op.bits, v))

ConstrainBlackBox ==
    /\ Constraining({"BlackBox"})
    /\ \E v \in Claims(Op) :
          Check(v, Top.mem, /\ WidthMet(Op.ins, InputBits(Op.fn), v)
                            /\ \A x \in ToSet(InputValues(Op.pred, v)) : BoolMet(x)
                            /\ [k \in DOMAIN Op.outs |-> v[Op.outs[k]]] = CallHelper(Op, v))

\* Brillig is unconstrained: the opcode emits nothing.
ConstrainBrilligCall ==
    /\ Constraining({"BrilligCall"})
    /\ Check(Top.vals, Top.mem, TRUE)

\* The callee's struct, and the values of its return members.
Subcircuit(f) == IF mode = "honest" THEN f.self.subs[f.pc] ELSE Struct
ReturnClaims(op) ==
    {xs \in [DOMAIN op.outs -> F] : mode = "honest" =>
        \A k \in DOMAIN xs : xs[k] = Subcircuit(Top).w[Returns(op)[k]]}

OutputsMet(op, p, v, xs) == \A k \in DOMAIN op.outs : GatedEq(p, v[op.outs[k]], xs[k])

\* The predicate is not one: the callee's @constrain is not run.
ConstrainSkippedCall ==
    /\ Constraining({"Call"})
    /\ \E v \in Claims(Op) : \E xs \in ReturnClaims(Op) :
          LET p == EmitExpression(Op.pred, v)
          IN  /\ p # 1
              /\ Check(v, Top.mem, BoolMet(p) /\ OutputsMet(Op, p, v, xs))

ConstrainCall ==
    /\ Constraining({"Call"})
    /\ \E v \in Claims(Op) :
          /\ EmitExpression(Op.pred, v) = 1
          /\ stack' = Append([stack EXCEPT ![Len(stack)].vals = v],
                             Frame(Op.id, [k \in DOMAIN Op.ins |-> v[Op.ins[k]]],
                                   Subcircuit(Top), Solver(<<>>)))
    /\ UNCHANGED <<prog, inputs, mode, phase, outcome, accepted, holds, solved>>

ConstrainReturn ==
    /\ Running("constrain") /\ Len(stack) > 1 /\ AtEnd(Top)
    /\ LET op == Code(Caller)[Caller.pc]
           v == Caller.vals
       IN  \E callee \in Read(ToSet(Returns(op))) :
              LET xs == [k \in DOMAIN op.outs |-> callee[Returns(op)[k]]]
              IN  /\ accepted' = OutputsMet(op, EmitExpression(op.pred, v), v, xs)
                  /\ holds' = (holds /\ \A k \in DOMAIN op.outs : v[op.outs[k]] = xs[k])
    /\ stack' = Append(SubSeq(stack, 1, Len(stack) - 2), [Caller EXCEPT !.pc = @ + 1])
    /\ phase' = IF accepted' THEN phase ELSE "done"
    /\ UNCHANGED <<prog, inputs, mode, outcome, solved>>

\* The unit output of an entry circuit without returns is constrained to zero.
ConstrainEnds ==
    /\ Running("constrain") /\ Len(stack) = 1 /\ AtEnd(Top)
    /\ \E unit \in IF ~NeedsUnit(1, Circuits[1]) THEN {0}
                   ELSE IF mode = "honest" THEN {Top.self.w[Unit]} ELSE F :
          /\ accepted' = (unit = 0)
          /\ holds' = (holds /\ unit = 0)
    /\ phase' = "done"
    /\ UNCHANGED <<prog, inputs, mode, stack, outcome, solved>>

-----------------------------------------------------------------------------
Init ==
    /\ prog \in Programs
    /\ inputs = <<>> /\ mode = "none"
    /\ phase = "translate"
    /\ stack = <<>>
    /\ outcome = "ok"
    /\ accepted = TRUE /\ holds = TRUE /\ solved = FALSE

\* translate; what it accepts is run on some inputs.
Translate ==
    /\ phase = "translate" /\ outcome = "ok"
    /\ \A c \in ToSet(Circuits) : Translates(c)
    /\ inputs' \in [1..Cardinality(Params(Circuits[1])) -> F]
    /\ mode' \in Modes
    /\ phase' = IF mode' = "honest" THEN "compute" ELSE "constrain"
    /\ stack' = <<Frame(1, inputs', Struct, Solver([k \in 0..(Len(inputs') - 1) |-> inputs'[k + 1]]))>>
    /\ UNCHANGED <<prog, outcome, accepted, holds, solved>>

TranslationFails ==
    /\ phase = "translate" /\ outcome = "ok"
    /\ \E c \in ToSet(Circuits) : ~Translates(c)
    /\ outcome' = "refused"
    /\ UNCHANGED <<prog, inputs, mode, phase, stack, accepted, holds, solved>>

\* Nothing is left to do.
Ended == (phase = "done" \/ outcome # "ok") /\ UNCHANGED vars

Compute ==
    \/ ComputeSatisfied \/ ComputeSolve
    \/ ComputeMemoryInit \/ ComputeMemoryRead \/ ComputeMemoryWrite
    \/ ComputeLogic \/ ComputeRange \/ ComputeBlackBox
    \/ ComputeBrilligCall \/ ComputeCall \/ ComputeReturn
    \/ ComputeUndefined \/ ComputeEnds

Constrain ==
    \/ ConstrainAssertZero \/ ConstrainMemoryInit
    \/ ConstrainMemoryRead \/ ConstrainMemoryWrite
    \/ ConstrainLogic \/ ConstrainRange \/ ConstrainBlackBox
    \/ ConstrainBrilligCall \/ ConstrainSkippedCall \/ ConstrainCall
    \/ ConstrainReturn \/ ConstrainEnds

Next == Translate \/ TranslationFails \/ Compute \/ Constrain \/ Ended

Spec == Init /\ [][Next]_vars

-----------------------------------------------------------------------------
(* The shape of the state.                                                   *)
TypeOK ==
    /\ mode \in Modes \cup {"none"}
    /\ phase \in {"translate", "compute", "constrain", "done"}
    /\ outcome \in {"ok", "refused", "trapped", "undefined"}
    /\ {accepted, holds, solved} \subseteq BOOLEAN
    /\ \A k \in DOMAIN stack :
          LET f == stack[k]
          IN  /\ f.c \in DOMAIN Circuits /\ f.pc \in 1..(Len(Code(f)) + 1)
              /\ DOMAIN f.vals \subseteq Params(Circuits[f.c]) \cup Members(Circuits[f.c])
              /\ Range(f.vals) \subseteq F
              /\ DOMAIN f.self.w \subseteq Members(Circuits[f.c]) \cup {Unit}
              /\ k > 1 => f.c = Code(stack[k - 1])[stack[k - 1].pc].id

(* As long as ACVM executes the program, @compute neither stops nor reads a  *)
(* member too early, and finds the same witnesses, in the entry circuit and  *)
(* in every running callee.  What a false predicate skips in ACVM, and       *)
(* equations whose unknown has coefficient zero, are left to AgreesWithAcvm. *)
AcvmSolving == \A k \in DOMAIN stack : stack[k].ref.st = "solving"
InSkippedCall ==
    /\ ~AtEnd(Top) /\ Op.op \in {"Call", "BrilligCall"}
    /\ Support(Op.pred) \subseteq DOMAIN Top.vals
    /\ Value(Op.pred, Top.vals) = 0
Agree(f) ==
    \A w \in DOMAIN f.ref.sol : w \in DOMAIN f.vals /\ f.vals[w] = f.ref.sol[w]
FollowsAcvm ==
    phase = "compute" /\ AcvmSolving =>
        IF outcome = "ok" THEN \A k \in DOMAIN stack : Agree(stack[k]) ELSE InSkippedCall

(* The memory blocks too hold what ACVM's hold.                              *)
SameMemory ==
    phase = "compute" /\ AcvmSolving => \A k \in DOMAIN stack : stack[k].mem = stack[k].ref.mem

(* When ACVM executes the program, the struct that @compute made satisfies   *)
(* every constraint of @constrain, whatever selectors are chosen.            *)
HonestAccepted ==
    mode = "honest" /\ solved => accepted

(* For any values in the members, the constraints met so far are satisfied   *)
(* exactly when the relation of the opcodes met so far is: @constrain is     *)
(* neither too weak nor too strong.                                          *)
AcceptsExactlySolutions == accepted <=> holds

-----------------------------------------------------------------------------
(* What comments and tests say and the code does not do.                     *)

(* tests/e2e/mod.rs:236: "computed witnesses must agree with ACVM's          *)
(* reference witness on every shared index", also when ACVM stalls on a later *)
(* opcode; and brillig_call.rs:94: "When the predicate evaluates to `0`, all *)
(* outputs become zero - matching the ACVM's skip-and-zero semantics", so    *)
(* that a call ACVM skips leaves witnesses to compare.                       *)
AgreesWithAcvm ==
    phase = "compute" =>
        /\ InSkippedCall => outcome # "trapped"
        /\ \A f \in Range(stack) : f.ref.st \in {"solving", "stalled"} =>
              \A w \in DOMAIN f.ref.sol \cap DOMAIN f.vals : f.vals[w] = f.ref.sol[w]
=============================================================================

----------------------------- MODULE BrilligRam -----------------------------
(***************************************************************************)
(* One path through the bytecode of an unconstrained function, executed by  *)
(* the code that the opcode handlers emit and by the Brillig VM.  The code   *)
(* works on LLZK's RAM, where every cell is a felt; the cells of the VM are *)
(* integers of a width or field elements, and it fails on those of another  *)
(* width.  The VM is external: its cells and operations are those that the  *)
(* handlers and their tests rely on.                                        *)
(*                                                                         *)
(* Beside opcodes, a path has the steps of the structured translator that  *)
(* touch the RAM: "enter" and "leave" of a body and "set" of an escape flag. *)
(***************************************************************************)
EXTENDS BrilligOps, Bitwise

CONSTANTS
    Programs,       \* the paths executed, each with its call data and its number of outputs
    Answers,        \* what a foreign call may return
    Digest(_, _, _), \* a black box: its name, its inputs by role, which output
    Address,        \* the width of addresses, 2^32
    Byte,           \* the width of bytes, 2^8, the largest radix of ToRadix too
    StateWidth, Sha256BlockWords, Sha256StateWords, DigestBytes,
    BlakeBlock, AesBlock, EcdsaBytes,
    LowBits, HighBits,  \* SCALAR_LOW_BITS, SCALAR_HIGH_BITS
    ScalarOrder     \* the VM's MultiScalarMul fails from this scalar on

VARIABLES
    program,
    pc,
    ram,      \* the felts of the emitted code
    flags,    \* the bodies entered: the addresses of their escape flags, and which are set
    vm,       \* the cells of the VM
    outcome,  \* "refused" by the translator; "invalid": the module fails verification;
              \* "running"; "stopped"; "failed": the VM only,
              \* "trapped": the emitted code only, or "both"; "missed": the VM only, on a
              \* value that an emitted assertion is there to reject
    returns,  \* what either returned
    excused   \* something was met that the translation does not support

vars == <<program, pc, ram, flags, vm, outcome, returns, excused>>

Code == program.code
Op == Code[pc]
At(kind) == outcome = "running" /\ pc <= Len(Code) /\ Op.op = kind

---------------------------------------------------------------------------
\* Memory

\* An address is <<"direct", slot>> or <<"relative", offset>>; slot 0 is the stack pointer and
\* slot 1 the free memory pointer.
Get(mem, at) == IF at \in DOMAIN mem THEN mem[at] ELSE 0
WriteAll(mem, at, values) ==
    [a \in DOMAIN mem \cup at .. at + Len(values) - 1 |->
        IF a \in at .. at + Len(values) - 1 THEN values[a - at + 1] ELSE mem[a]]
Put(mem, at, value) == WriteAll(mem, at, <<value>>)

compute_addr_idx(addr) == IF addr[1] = "direct" THEN addr[2] ELSE Get(ram, 0) + addr[2]
insert_read(addr) == Get(ram, compute_addr_idx(addr))
Written(addr, value) == Put(ram, compute_addr_idx(addr), value)

\* slot_at_offset, for the slots of a heap array of size values.
read_heap_array(array) == [i \in 1 .. array.size |-> Get(ram, insert_read(array.ptr) + i - 1)]
Filled(array, values) == WriteAll(ram, insert_read(array.ptr), values)

Cell(v, width) == [v |-> v, width |-> width]
CellAt(at) == IF at \in DOMAIN vm THEN vm[at] ELSE Cell(0, Field)
VmAddr(addr) == IF addr[1] = "direct" THEN addr[2] ELSE CellAt(0).v + addr[2]
VmRead(addr) == CellAt(VmAddr(addr))
VmWritten(addr, cell) == Put(vm, VmAddr(addr), cell)
Resolves(addr) == addr[1] = "relative" => CellAt(0).width = Address
Has(addr, width) == Resolves(addr) /\ VmRead(addr).width = width
VmArray(array) == [i \in 1 .. array.size |-> CellAt(VmRead(array.ptr).v + i - 1)]
Values(cells) == [i \in DOMAIN cells |-> cells[i].v]

---------------------------------------------------------------------------
\* precompute_calldata_copy_params: the constants written before the CalldataCopy

Unknown == -1

Resolve(addr, sp) ==
    CASE addr[1] = "direct" -> addr[2]
      [] addr[1] = "relative" /\ sp # Unknown -> sp + addr[2]
      [] OTHER -> Unknown

\* Mutant of Track: the first value of the stack pointer is kept.
TrackFirst(known, op) ==
    LET slot == Resolve(op.dst, known.sp)
    IN  IF op.op # "const" THEN known
        ELSE IF op.v >= Address \/ slot = Unknown THEN known
        ELSE [slots |-> Put(known.slots, slot, op.v),
              sp |-> IF slot = 0 /\ known.sp = Unknown THEN op.v ELSE known.sp]

Track(known, op) ==
    LET slot == Resolve(op.dst, known.sp)
    IN  IF op.op # "const" THEN known
        ELSE IF op.v >= Address \/ slot = Unknown THEN known
        ELSE [slots |-> Put(known.slots, slot, op.v), sp |-> IF slot = 0 THEN op.v ELSE known.sp]

Copies == {i \in DOMAIN Code : Code[i].op = "calldata"}
FirstCopy == CHOOSE i \in Copies : \A j \in Copies : i <= j
Known == FoldLeft(Track, [slots |-> <<>>, sp |-> Unknown], SubSeq(Code, 1, FirstCopy - 1))

Tracked(addr) ==
    LET slot == Resolve(addr, Known.sp)
    IN  IF slot \in DOMAIN Known.slots THEN Known.slots[slot] ELSE Unknown

calldata_copy_params ==
    [dst |-> Resolve(Code[FirstCopy].dst, Known.sp), size |-> Tracked(Code[FirstCopy].size),
     offset |-> Tracked(Code[FirstCopy].offset)]

---------------------------------------------------------------------------
\* What the translation refuses

InProcedure(i) ==
    LET Bodies(op) == {j \in 2 .. i : Code[j].op = op}
    IN  Cardinality(Bodies("enter")) > Cardinality(Bodies("leave"))

\* Mutant of CalldataAccepted: a destination that is not resolved is used all the same.
CalldataAcceptedUnresolved ==
    /\ Copies # {}
    /\ LET params == calldata_copy_params
       IN  /\ Unknown \notin {params.size, params.offset}
           /\ params.offset + params.size <= Len(program.calldata)
    /\ \A i \in Copies : ~InProcedure(i)

CalldataAccepted ==
    /\ Copies # {}
    /\ LET params == calldata_copy_params
       IN  /\ Unknown \notin {params.dst, params.size, params.offset}
           /\ params.offset + params.size <= Len(program.calldata)
    /\ \A i \in Copies : ~InProcedure(i)

RECURSIVE NoVector(_)
NoVector(types) ==
    \A t \in ToSet(types) :
        t.kind # "vector" /\ (t.kind = "array" => t.size = 0 \/ NoVector(t.types))

ShapeAccepted(dest, type) ==
    CASE dest.kind = "address" -> type.kind = "simple"
      [] dest.kind = "array" -> type.kind = "array" /\ (type.size = 0 \/ NoVector(type.types))
      [] dest.kind = "vector" -> type.kind = "vector" /\ NoVector(type.types)

\* Destinations without a type are left alone.
Zipped(op) == IF Len(op.types) < Len(op.dests) THEN Len(op.types) ELSE Len(op.dests)

Size(op, i) == op.ins[i].size

StateAccepted(op) == Size(op, 1) = StateWidth /\ op.out.size = StateWidth
Sha256Accepted(op) ==
    /\ Size(op, 1) = Sha256BlockWords /\ Size(op, 2) = Sha256StateWords
    /\ op.out.size = Sha256StateWords
DigestAccepted(op) == op.out.size = DigestBytes
AesAccepted(op) ==
    /\ Size(op, 1) # 0 /\ Size(op, 1) % AesBlock = 0 /\ op.out.size = Size(op, 1)
    /\ Size(op, 2) = AesBlock /\ Size(op, 3) = AesBlock
EcdsaAccepted(op) == (\A i \in 1 .. 3 : Size(op, i) = EcdsaBytes) /\ Size(op, 4) = 2 * EcdsaBytes
MsmAccepted(op) ==
    Size(op, 1) % 3 = 0 /\ Size(op, 2) = 2 * (Size(op, 1) \div 3) /\ op.out.size = 3

\* The parameters of ToRadix are read at run time.
BoxAccepted(op) ==
    CASE op.fn \in {"poseidon2", "keccakf1600"} -> StateAccepted(op)
      [] op.fn = "sha256" -> Sha256Accepted(op)
      [] op.fn \in {"blake2s", "blake3"} -> DigestAccepted(op)
      [] op.fn = "aes128" -> AesAccepted(op)
      [] op.fn = "ecdsa" -> EcdsaAccepted(op)
      [] op.fn = "curve_add" -> op.out.size = 3
      [] op.fn = "msm" -> MsmAccepted(op)

Accepted ==
    /\ CalldataAccepted
    /\ \A op \in ToSet(Code) :
          /\ op.op = "foreign" =>
                \A i \in 1 .. Zipped(op) : ShapeAccepted(op.dests[i], op.types[i])
          /\ op.op = "box" => BoxAccepted(op)

---------------------------------------------------------------------------
\* The calls of the shared helpers (black_box/*.rs)

Blocks(size) == IF size = 0 THEN 1 ELSE (size + BlakeBlock - 1) \div BlakeBlock
Padded(message) == message \o [i \in 1 .. BlakeBlock * Blocks(Len(message)) - Len(message) |-> 0]
Halves(size) == <<size % Address, size \div Address>>

\* emit_limb_decomp by two
LimbBits(limb, bits) == [k \in 1 .. bits |-> (limb \div 2 ^ (k - 1)) % 2]
BitsOfLimb(i) == IF i % 2 = 1 THEN LowBits ELSE HighBits

Inputs(op) == [i \in DOMAIN op.ins |-> read_heap_array(op.ins[i])]

BlakeArguments(op) == Padded(Inputs(op)[1]) \o Halves(Size(op, 1))
EcdsaArguments(op) == LET in == Inputs(op) IN in[2] \o in[3] \o in[4] \o in[1] \o <<1>>
CurveAddArguments(op) == [i \in DOMAIN op.regs |-> insert_read(op.regs[i])] \o <<1>>
MsmArguments(op) ==
    LET in == Inputs(op)
    IN  in[1] \o FlattenSeq([i \in DOMAIN in[2] |-> LimbBits(in[2][i], BitsOfLimb(i))]) \o <<1>>

BoxArguments(op) ==
    CASE op.fn \in {"blake2s", "blake3"} -> BlakeArguments(op)
      [] op.fn = "ecdsa" -> EcdsaArguments(op)
      [] op.fn = "curve_add" -> CurveAddArguments(op)
      [] op.fn = "msm" -> MsmArguments(op)
      [] OTHER -> FlattenSeq(Inputs(op))

\* Mutant of BoxFits: the high limbs are not checked.
BoxFitsLow(op) ==
    op.fn = "msm" =>
        LET scalars == read_heap_array(op.ins[2])
        IN  \A i \in DOMAIN scalars : i % 2 = 1 => scalars[i] \div 2 ^ BitsOfLimb(i) = 0

\* emit_limb_decomp asserts that nothing is left of a scalar.
BoxFits(op) ==
    op.fn = "msm" =>
        LET scalars == read_heap_array(op.ins[2])
        IN  \A i \in DOMAIN scalars : scalars[i] \div 2 ^ BitsOfLimb(i) = 0

\* The groups of a helper's parameters, each a sequence of that length.
Parameters(op) ==
    CASE op.fn = "blake2s" -> <<BlakeBlock * Blocks(Size(op, 1)), 2>>
      [] op.fn = "blake3" -> <<BlakeBlock * Blocks(Size(op, 1)), 1>>
      [] op.fn = "ecdsa" -> <<EcdsaBytes, EcdsaBytes, 2 * EcdsaBytes, EcdsaBytes, 1>>
      [] op.fn = "curve_add" -> <<3, 3, 1>>
      [] op.fn = "msm" -> <<Size(op, 1), (Size(op, 1) \div 3) * (LowBits + HighBits), 1>>
      [] OTHER -> [i \in DOMAIN op.ins |-> Size(op, i)]

Start(sizes, i) == FoldLeft(+, 0, SubSeq(sizes, 1, i - 1))
Split(values, sizes) ==
    [i \in DOMAIN sizes |-> SubSeq(values, Start(sizes, i) + 1, Start(sizes, i) + sizes[i])]

\* A call of another number of arguments makes the module invalid.
CallsFit(op) == Len(BoxArguments(op)) = Start(Parameters(op), Len(Parameters(op)) + 1)

---------------------------------------------------------------------------
Init ==
    /\ program \in Programs
    /\ pc = 1
    /\ ram = <<>> /\ vm = <<>>
    /\ flags = <<>>
    /\ outcome = CASE ~Accepted -> "refused"
                   [] \E op \in ToSet(Code) : op.op = "box" /\ ~CallsFit(op) -> "invalid"
                   [] OTHER -> "running"
    /\ returns = [emitted |-> <<>>, vm |-> <<>>]
    /\ excused = FALSE

\* The emitted code and the VM have executed an opcode: ok when the VM does not fail.
\* fits is what the emitted code asserts; unfit holds of values that the VM rejects and that
\* the assertions are there for.
Asserted(fits, emitted, ok, unfit, cells) ==
    /\ ram' = emitted
    /\ vm' = IF ok THEN cells ELSE vm
    /\ outcome' = CASE ok /\ fits -> "running"
                    [] ok /\ ~fits -> "trapped"
                    [] ~ok /\ ~fits -> "both"
                    [] ~ok /\ fits /\ unfit -> "missed"
                    [] OTHER -> "failed"
    /\ pc' = pc + 1
    /\ UNCHANGED <<program, flags, returns>>

Ran(emitted, ok, cells) == Asserted(TRUE, emitted, ok, FALSE, cells)
Unexcused == UNCHANGED excused

---------------------------------------------------------------------------
\* Registers (opcodes/const_op.rs, mov.rs, cast.rs, binary_int_op.rs, binary_field_op.rs,
\* not.rs, conditional_mov.rs)

Const ==
    /\ At("const")
    /\ Ran(Written(Op.dst, Op.v), Resolves(Op.dst), VmWritten(Op.dst, Cell(Op.v, Op.width)))
    /\ Unexcused

Mov ==
    /\ At("mov")
    /\ Ran(Written(Op.dst, insert_read(Op.src)), Resolves(Op.dst) /\ Resolves(Op.src),
           VmWritten(Op.dst, VmRead(Op.src)))
    /\ Unexcused

Cast ==
    /\ At("cast")
    /\ Ran(Written(Op.dst, emit_cast(insert_read(Op.src), Op.width)),
           Resolves(Op.dst) /\ Resolves(Op.src),
           VmWritten(Op.dst, Cell(emit_cast(VmRead(Op.src).v, Op.width), Op.width)))
    /\ Unexcused

ResultWidth(width) == IF Op.fn \in Comparisons THEN 2 ELSE width
Bits(fn, x, y) ==
    CASE fn = "And" -> x & y
      [] fn = "Or" -> x | y
      [] fn = "Xor" -> x ^^ y
BitOps == {"And", "Or", "Xor"}

BinaryInt ==
    /\ At("int")
    /\ LET x == insert_read(Op.lhs)
           y == insert_read(Op.rhs)
           a == VmRead(Op.lhs).v
           b == VmRead(Op.rhs).v
           divides == Op.fn \notin Divisions \/ b # 0
       IN  /\ Ran(IF Op.fn \in BitOps THEN Written(Op.dst, Bits(Op.fn, x, y))
                  ELSE IF Op.fn \in Divisions /\ y = 0 THEN ram
                  ELSE Written(Op.dst, emit_binary_int_op(Op.fn, Op.width, x, y)),
                  /\ Resolves(Op.dst) /\ Has(Op.lhs, Op.width) /\ Has(Op.rhs, Op.width)
                  /\ divides,
                  VmWritten(Op.dst,
                            Cell(IF Op.fn \in BitOps THEN Bits(Op.fn, a, b)
                                 ELSE VmIntOp(Op.fn, Op.width, a, b), ResultWidth(Op.width))))
           /\ excused' = (excused \/ ShlOverflows(Op.fn, x, y))

BinaryField ==
    /\ At("field")
    /\ LET x == insert_read(Op.lhs)
           y == insert_read(Op.rhs)
           a == VmRead(Op.lhs).v
           b == VmRead(Op.rhs).v
       IN  Ran(IF Op.fn \in Divisions /\ y = 0 THEN ram
               ELSE Written(Op.dst, emit_binary_field_op(Op.fn, x, y)),
               /\ Resolves(Op.dst) /\ Has(Op.lhs, Field) /\ Has(Op.rhs, Field)
               /\ Op.fn \in Divisions => b # 0,
               VmWritten(Op.dst, Cell(emit_binary_field_op(Op.fn, a, b), ResultWidth(Field))))
    /\ Unexcused

\* src XOR (2^n - 1)
Not_ ==
    /\ At("not")
    /\ Ran(Written(Op.dst, insert_read(Op.src) ^^ (Op.width - 1)),
           Resolves(Op.dst) /\ Has(Op.src, Op.width),
           VmWritten(Op.dst, Cell(Op.width - 1 - VmRead(Op.src).v, Op.width)))
    /\ Unexcused

ConditionalMov ==
    /\ At("cmov")
    /\ Ran(Written(Op.dst, IF insert_read(Op.cond) > 0 THEN insert_read(Op.a) ELSE insert_read(Op.b)),
           Has(Op.cond, 2) /\ \A addr \in {Op.dst, Op.a, Op.b} : Resolves(addr),
           VmWritten(Op.dst, IF VmRead(Op.cond).v = 1 THEN VmRead(Op.a) ELSE VmRead(Op.b)))
    /\ Unexcused

---------------------------------------------------------------------------
\* The heap (load.rs, store.rs, indirect_const.rs, calldata_copy.rs)

Load ==
    /\ At("load")
    /\ Ran(Written(Op.dst, Get(ram, insert_read(Op.ptr))), Resolves(Op.dst) /\ Has(Op.ptr, Address),
           VmWritten(Op.dst, CellAt(VmRead(Op.ptr).v)))
    /\ Unexcused

Store ==
    /\ At("store")
    /\ Ran(Put(ram, insert_read(Op.ptr), insert_read(Op.src)), Resolves(Op.src) /\ Has(Op.ptr, Address),
           Put(vm, VmRead(Op.ptr).v, VmRead(Op.src)))
    /\ Unexcused

IndirectConst ==
    /\ At("iconst")
    /\ Ran(Put(ram, insert_read(Op.ptr), Op.v), Has(Op.ptr, Address),
           Put(vm, VmRead(Op.ptr).v, Cell(Op.v, Op.width)))
    /\ Unexcused

Slice(offset, size) == SubSeq(program.calldata, offset + 1, offset + size)
InCalldata(offset, size) == offset + size <= Len(program.calldata)

VmParams == [dst |-> VmAddr(Op.dst), size |-> VmRead(Op.size).v, offset |-> VmRead(Op.offset).v]
VmCopies == Resolves(Op.dst) /\ Has(Op.size, Address) /\ Has(Op.offset, Address)
            /\ InCalldata(VmParams.offset, VmParams.size)

\* The parameters are those of the first CalldataCopy, found before the code runs.
CalldataCopy ==
    /\ At("calldata")
    /\ LET params == calldata_copy_params
       IN  /\ Ran(WriteAll(ram, params.dst, Slice(params.offset, params.size)), VmCopies,
                  WriteAll(vm, VmParams.dst,
                           [i \in 1 .. VmParams.size |-> Cell(program.calldata[VmParams.offset + i], Field)]))
           /\ excused' = (excused \/ (VmCopies /\ params # VmParams))

---------------------------------------------------------------------------
\* Foreign calls (foreign_call.rs).  The k-th value returned is Leaf(answer, k).

Leaf(answer, k) == (answer + k) % P

RECURSIVE emit_array(_, _, _, _, _)
emit_array(st, base, size, types, answer) ==
    FoldLeft(LAMBDA acc, o :
        LET type == types[(o % Len(types)) + 1]
            slot == base + o
        IN  IF type.kind = "simple"
            THEN [mem |-> Put(acc.mem, slot, Leaf(answer, acc.k)), k |-> acc.k + 1]
            ELSE emit_array(acc, Get(acc.mem, slot), type.size, type.types, answer),
        st, [o \in 1 .. size * Len(types) |-> o - 1])

\* emit_runtime_size_loop: i = 0, stride, ... while i < size
Iterations(size, stride) == (size + stride - 1) \div stride

\* emit_destination: addresses are computed on the RAM as the writes before left it.
emit_destination(st, dest, type, answer) ==
    LET At_(addr) == IF addr[1] = "direct" THEN addr[2] ELSE Get(st.mem, 0) + addr[2]
    IN  CASE dest.kind = "address" ->
                [mem |-> Put(st.mem, At_(dest.addr), Leaf(answer, st.k)), k |-> st.k + 1]
          [] dest.kind = "array" ->
                emit_array(st, Get(st.mem, At_(dest.addr)), type.size, type.types, answer)
          [] dest.kind = "vector" /\ type.types = <<>> -> st
          [] OTHER ->
                emit_array(st, Get(st.mem, At_(dest.addr)),
                           Iterations(Get(st.mem, At_(dest.size)), Len(type.types)), type.types, answer)

EmittedAnswers(answer) ==
    FoldLeft(LAMBDA st, i : emit_destination(st, Op.dests[i], Op.types[i], answer),
             [mem |-> ram, k |-> 0], [i \in 1 .. Zipped(Op) |-> i]).mem

\* The VM does the same on cells, and fails when a value does not fit its type, a pointer is
\* not an address, or a vector is not a number of whole elements.  An answer has as many
\* elements as the size of the vector says.
VmLeaf(st, at, width, answer) ==
    LET v == Leaf(answer, st.k)
    IN  [mem |-> Put(st.mem, at, Cell(v, width)), k |-> st.k + 1,
         ok |-> st.ok /\ (width = Field \/ v < width)]

RECURSIVE VmAnswer(_, _, _, _, _)
VmAnswer(st, base, slots, types, answer) ==
    FoldLeft(LAMBDA acc, at :
        LET type == types[((at - base) % Len(types)) + 1]
            ptr == IF at \in DOMAIN acc.mem THEN acc.mem[at] ELSE Cell(0, Field)
        IN  IF type.kind = "simple" THEN VmLeaf(acc, at, type.width, answer)
            ELSE VmAnswer([acc EXCEPT !.ok = @ /\ ptr.width = Address], ptr.v,
                          type.size * Len(type.types), type.types, answer),
        st, [i \in 1 .. slots |-> base + i - 1])

VmDestination(st, dest, type, answer) ==
    LET cell(at) == IF at \in DOMAIN st.mem THEN st.mem[at] ELSE Cell(0, Field)
        at_(addr) == IF addr[1] = "direct" THEN addr[2] ELSE cell(0).v + addr[2]
        address(addr) == (addr[1] = "relative" => cell(0).width = Address) /\ cell(at_(addr)).width = Address
        base == cell(at_(dest.addr)).v
    IN  CASE dest.kind = "address" ->
                [VmLeaf(st, at_(dest.addr), type.width, answer) EXCEPT
                    !.ok = @ /\ (dest.addr[1] = "relative" => cell(0).width = Address)]
          [] dest.kind = "array" ->
                [VmAnswer(st, base, type.size * Len(type.types), type.types, answer) EXCEPT
                    !.ok = @ /\ address(dest.addr)]
          [] OTHER ->
                LET size == cell(at_(dest.size)).v
                    whole == IF type.types = <<>> THEN size = 0 ELSE size % Len(type.types) = 0
                IN  [VmAnswer(st, base, IF whole THEN size ELSE 0, type.types, answer) EXCEPT
                        !.ok = @ /\ address(dest.addr) /\ address(dest.size) /\ whole]

VmAnswers(answer) ==
    FoldLeft(LAMBDA st, i : VmDestination(st, Op.dests[i], Op.types[i], answer),
             [mem |-> vm, k |-> 0, ok |-> Len(Op.dests) = Len(Op.types)], [i \in 1 .. Zipped(Op) |-> i])

ForeignCall ==
    /\ At("foreign")
    /\ \E answer \in Answers :
          LET cells == VmAnswers(answer)
          IN  Ran(EmittedAnswers(answer), cells.ok, cells.mem)
    /\ Unexcused

---------------------------------------------------------------------------
\* Black boxes

Point == <<Field, Field, 2>>
Repeated(widths, n) == [i \in 1 .. n |-> widths[((i - 1) % Len(widths)) + 1]]

\* The widths of the cells that the VM reads and writes.
CellWidth ==
    CASE Op.fn \in {"blake2s", "blake3", "aes128", "ecdsa"} -> Byte
      [] Op.fn = "keccakf1600" -> Half
      [] Op.fn = "sha256" -> Address
      [] OTHER -> Field
InWidths(i) == Repeated(IF Op.fn = "msm" /\ i = 1 THEN Point ELSE <<CellWidth>>, Op.ins[i].size)
OutWidths ==
    CASE Op.fn = "ecdsa" -> <<2>>
      [] Op.fn \in {"curve_add", "msm"} -> Point
      [] OTHER -> Repeated(<<CellWidth>>, Op.out.size)

Outputs(roles) ==
    [k \in DOMAIN OutWidths |->
        Digest(Op.fn, roles, k) % (IF OutWidths[k] = Field THEN P ELSE OutWidths[k])]

\* What each array is for, as the VM has it.
VmScalarBits(lo, hi) ==
    [k \in 1 .. LowBits + HighBits |-> ((lo + hi * 2 ^ LowBits) \div 2 ^ (k - 1)) % 2]
VmRoles ==
    LET in == [i \in DOMAIN Op.ins |-> Values(VmArray(Op.ins[i]))]
        register(i) == VmRead(Op.regs[i]).v
    IN  CASE Op.fn \in {"blake2s", "blake3"} -> <<Padded(in[1]), Halves(Len(in[1]))>>
          [] Op.fn = "ecdsa" -> <<in[2], in[3], in[4], in[1], <<1>>>>
          [] Op.fn = "curve_add" ->
                <<[i \in 1 .. 3 |-> register(i)], [i \in 1 .. 3 |-> register(i + 3)], <<1>>>>
          [] Op.fn = "msm" ->
                <<in[1], FlattenSeq([i \in 1 .. Len(in[2]) \div 2 |->
                                        VmScalarBits(in[2][2 * i - 1], in[2][2 * i])]), <<1>>>>
          [] OTHER -> in

VmScalars == Values(VmArray(Op.ins[2]))
LimbsFit == \A i \in DOMAIN VmScalars : VmScalars[i] < 2 ^ BitsOfLimb(i)
VmBoxOk ==
    /\ \A i \in DOMAIN Op.ins :
          /\ Has(Op.ins[i].ptr, Address)
          /\ \A j \in 1 .. Op.ins[i].size : VmArray(Op.ins[i])[j].width = InWidths(i)[j]
    /\ Op.fn = "curve_add" => \A i \in 1 .. 6 : Has(Op.regs[i], Repeated(Point, 6)[i])
    /\ IF Op.fn = "ecdsa" THEN Resolves(Op.dst) ELSE Has(Op.out.ptr, Address)

\* Everything is read before a result is written.  The points are on the curve.
BlackBox ==
    /\ At("box")
    /\ LET emitted == Outputs(Split(BoxArguments(Op), Parameters(Op)))
           results == Outputs(VmRoles)
           cells == [k \in DOMAIN results |-> Cell(results[k], OutWidths[k])]
           valid == Op.fn = "msm" =>
               /\ LimbsFit
               /\ \A i \in 1 .. Len(VmScalars) \div 2 :
                     VmScalars[2 * i - 1] + VmScalars[2 * i] * 2 ^ LowBits < ScalarOrder
       IN  IF Op.fn = "ecdsa"
           THEN Ran(Written(Op.dst, emitted[1]), VmBoxOk, VmWritten(Op.dst, cells[1]))
           ELSE Asserted(BoxFits(Op), Filled(Op.out, emitted), VmBoxOk /\ valid,
                         VmBoxOk /\ Op.fn = "msm" /\ ~LimbsFit,
                         WriteAll(vm, VmRead(Op.out.ptr).v, cells))
    /\ Unexcused

\* emit_decomp_dynamic: limb i, from the least significant one, and what is left of the
\* input after n limbs.
Rest(input, radix, n) == input \div radix ^ n
Limb(input, radix, i) == Rest(input, radix, i) % radix

\* Mutant of BigEndian: the least significant limb first.
LittleEndian(input, radix, n) == [i \in 1 .. n |-> Limb(input, radix, i - 1)]

BigEndian(input, radix, n) == [i \in 1 .. n |-> Limb(input, radix, n - i)]

\* Division by a radix of zero has no result.
ToRadix ==
    /\ At("radix")
    /\ LET input == insert_read(Op.input)
           radix == insert_read(Op.radix)
           limbs == insert_read(Op.limbs)
           fits == /\ insert_read(Op.bits) <= BoolFelt(radix = 2)
                   /\ Rest(input, radix, limbs) = 0
           base == VmRead(Op.radix).v
           n == VmRead(Op.limbs).v
           bits == VmRead(Op.bits).v = 1
           typed == /\ Has(Op.input, Field) /\ Has(Op.radix, Address) /\ Has(Op.ptr, Address)
                    /\ Has(Op.limbs, Address) /\ Has(Op.bits, 2)
           ranged == base \in 2 .. Byte
           unfit == typed /\ ranged /\ ((bits /\ base # 2) \/ VmRead(Op.input).v \div base ^ n # 0)
       IN  IF radix = 0 THEN Ran(ram, FALSE, vm)
           ELSE Asserted(fits, WriteAll(ram, insert_read(Op.ptr), BigEndian(input, radix, limbs)),
                         typed /\ ranged /\ ~unfit, unfit,
                         WriteAll(vm, VmRead(Op.ptr).v,
                                  [i \in 1 .. n |->
                                      Cell((VmRead(Op.input).v \div base ^ (n - i)) % base,
                                           IF bits THEN 2 ELSE Byte)]))
    /\ Unexcused

---------------------------------------------------------------------------
\* Control (emit_bool_assert, init_escape_flags, emit_set_flag, emit_return_data)

\* insert_felt_to_bool compares with one.
BoolAssert ==
    /\ At("assert")
    /\ Asserted(insert_read(Op.cond) = 1, ram, Has(Op.cond, 2) /\ VmRead(Op.cond).v = 1,
                Has(Op.cond, 2) /\ VmRead(Op.cond).v = 0, vm)
    /\ Unexcused

FreeMemoryPointer == Get(ram, 1)

\* Mutant of AllocateFlags: the pointer stays.
AllocateFlagsInPlace(count) == WriteAll(ram, FreeMemoryPointer, [i \in 1 .. count |-> 0])

AllocateFlags(count) ==
    IF count = 0 THEN ram
    ELSE Put(WriteAll(ram, FreeMemoryPointer, [i \in 1 .. count |-> 0]), 1, FreeMemoryPointer + count)

Proceed == pc' = pc + 1 /\ UNCHANGED <<program, vm, outcome, returns, excused>>

Enter ==
    /\ At("enter")
    /\ ram' = AllocateFlags(Op.flags)
    /\ flags' = Append(flags, [at |-> FreeMemoryPointer, count |-> Op.flags, set |-> {}])
    /\ Proceed

\* The pointer keeps its value.
Leave ==
    /\ At("leave")
    /\ flags' = Front(flags)
    /\ UNCHANGED ram
    /\ Proceed

SetEscapeFlag ==
    /\ At("set")
    /\ ram' = Put(ram, Last(flags).at + Op.slot, 1)
    /\ flags' = [flags EXCEPT ![Len(flags)].set = @ \cup {Op.slot}]
    /\ Proceed

\* The VM returns as many values as the function has outputs, or fails.
Stop ==
    /\ At("stop")
    /\ LET array == [ptr |-> Op.ptr, size |-> program.outputs]
           ok == Has(Op.ptr, Address) /\ Has(Op.size, Address) /\ VmRead(Op.size).v = program.outputs
       IN  /\ outcome' = IF ok THEN "stopped" ELSE "failed"
           /\ returns' = [emitted |-> read_heap_array(array),
                          vm |-> IF ok THEN Values(VmArray(array)) ELSE <<>>]
    /\ pc' = pc + 1
    /\ UNCHANGED <<program, ram, flags, vm, excused>>

\* A path may break off, where the bytecode goes on.
Finished == (outcome # "running" \/ pc > Len(Code)) /\ UNCHANGED vars

Next ==
    \/ Const \/ Mov \/ Cast \/ BinaryInt \/ BinaryField \/ Not_ \/ ConditionalMov
    \/ Load \/ Store \/ IndirectConst \/ CalldataCopy \/ ForeignCall
    \/ BlackBox \/ ToRadix \/ BoolAssert \/ Enter \/ Leave \/ SetEscapeFlag \/ Stop
    \/ Finished

Spec == Init /\ [][Next]_vars

---------------------------------------------------------------------------
\* Properties

\* Addresses and values are in range; the VM's integers fit their width.
TypeOK ==
    /\ pc \in 1 .. Len(Code) + 1
    /\ DOMAIN ram \subseteq Nat /\ Range(ram) \subseteq F
    /\ DOMAIN vm \subseteq Nat
    /\ \A cell \in Range(vm) : cell.v \in F /\ (cell.width # Field => cell.v < cell.width)
    /\ \A frame \in ToSet(flags) : frame.set \subseteq 0 .. frame.count - 1
    /\ outcome \in {"refused", "invalid", "running", "stopped", "failed", "trapped", "both", "missed"}
    /\ excused \in BOOLEAN

NoFlags == \A op \in ToSet(Code) : op.op = "enter" => op.flags = 0

\* Every cell of the RAM is the felt of the VM's cell, as long as the VM goes on: masks keep
\* every integer within its width, whatever the widths; pointers, in-place arrays and nested
\* answers land on the VM's cells.  Escape flags move the heap; paths without them agree.
MemoryAgrees ==
    outcome = "running" /\ ~excused /\ NoFlags =>
        \A at \in DOMAIN ram \cup DOMAIN vm : Get(ram, at) = CellAt(at).v

\* "Matching ACVM behaviour": an emitted assertion stops the code exactly on the values that
\* the VM rejects and the assertion is there for.
TrapsTogether == ~excused => outcome \notin {"trapped", "missed"}

\* An accepted function is emitted as code that calls helpers on their parameters and returns
\* what the VM returns, though its heap has escape flags among the VM's arrays.
ReturnsAgree ==
    /\ outcome # "invalid"
    /\ outcome = "stopped" /\ ~excused => returns.emitted = returns.vm

\* "The bump tells any subsequent FMP-routed allocation to skip our slots": the flags of the
\* active bodies hold what the bodies set, whatever the bytecode and its callees allocate.
FlagsPrivate ==
    outcome = "running" /\ ~excused =>
        \A i \in DOMAIN flags : \A slot \in 0 .. flags[i].count - 1 :
            Get(ram, flags[i].at + slot) = BoolFelt(slot \in flags[i].set)

\* The parameters that the scan finds are those of the run when the bytecode reaches the
\* CalldataCopy on constants alone, in any order, overwritten or relative to the stack pointer.
CalldataExact ==
    (/\ At("calldata") /\ pc = FirstCopy
     /\ \A i \in 1 .. pc - 1 : Code[i].op \in {"const", "enter"}
     /\ VmCopies)
    => calldata_copy_params = VmParams
=============================================================================

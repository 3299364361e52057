---------------------------- MODULE MCBrilligRam ----------------------------
(* Paths of a few opcodes behind the prologue of a function: every operation  *)
(* on the edges of every width, and each way to read and write the heap.  The *)
(* widths are scaled down together: words of 8 stand for those of 2^64.       *)
EXTENDS BrilligRam

D(slot) == <<"direct", slot>>
R(offset) == <<"relative", offset>>

ConstOp(dst, width, v) == [op |-> "const", dst |-> dst, width |-> width, v |-> v]
MovOp(dst, src) == [op |-> "mov", dst |-> dst, src |-> src]
CastOp(dst, src, width) == [op |-> "cast", dst |-> dst, src |-> src, width |-> width]
IntOp(dst, fn, width, lhs, rhs) ==
    [op |-> "int", dst |-> dst, fn |-> fn, width |-> width, lhs |-> lhs, rhs |-> rhs]
FieldOp(dst, fn, lhs, rhs) == [op |-> "field", dst |-> dst, fn |-> fn, lhs |-> lhs, rhs |-> rhs]
NotOp(dst, src, width) == [op |-> "not", dst |-> dst, src |-> src, width |-> width]
CmovOp(dst, a, b, cond) == [op |-> "cmov", dst |-> dst, a |-> a, b |-> b, cond |-> cond]
LoadOp(dst, ptr) == [op |-> "load", dst |-> dst, ptr |-> ptr]
StoreOp(ptr, src) == [op |-> "store", ptr |-> ptr, src |-> src]
IndirectConstOp(ptr, width, v) == [op |-> "iconst", ptr |-> ptr, width |-> width, v |-> v]
CalldataOp(dst, size, offset) == [op |-> "calldata", dst |-> dst, size |-> size, offset |-> offset]
AssertOp(cond) == [op |-> "assert", cond |-> cond]
EnterOp(n) == [op |-> "enter", flags |-> n]
LeaveOp == [op |-> "leave"]
SetOp(slot) == [op |-> "set", slot |-> slot]
StopOp(ptr, size) == [op |-> "stop", ptr |-> ptr, size |-> size]
Program(data, outputs, code) == [calldata |-> data, outputs |-> outputs, code |-> code]

Ptr(slot, at) == ConstOp(D(slot), Address, at)

\* The stack at 10, the heap at 20, the call data at 4.
Prologue(n) == <<Ptr(0, 10), Ptr(1, 20), Ptr(2, n), Ptr(3, 0), CalldataOp(D(4), D(2), D(3))>>

\* The result is at 12.
Epilogue == <<Ptr(2, 12), Ptr(3, 1), StopOp(D(2), D(3))>>
Run(data, code) == Program(data, 1, Prologue(Len(data)) \o code \o Epilogue)

IntWidths == {2, Byte, Half, Address, Wide}
Edges(width) == {0, 1, width \div 2, width - 1}
Shifts == {"Shl", "Shr"}
IntFns == {"Add", "Sub", "Mul", "Div"} \cup Comparisons \cup BitOps
FieldFns == {"Add", "Sub", "Mul"} \cup Divisions \cup Comparisons

\* Call data cast to a width, of which it may be too large, an operation, and a second one or
\* a cast of the result.
IntPath(w, x, y, code) == Run(<<x, y>>, <<CastOp(R(0), D(4), w), CastOp(R(1), D(5), w)>> \o code)
IntPrograms ==
    UNION {{IntPath(w, x, y, <<IntOp(R(2), fn, w, R(0), R(1))>>) :
              x \in Edges(w), y \in Edges(w), fn \in IntFns} : w \in IntWidths}
    \cup UNION {{IntPath(w, x, y, <<IntOp(R(2), fn, w, R(0), R(1))>>) :
                   x \in Edges(w), y \in 0 .. 6, fn \in Shifts} : w \in {Half, Address, Wide}}
    \cup UNION {{IntPath(w, x, y, <<IntOp(R(2), fn, w, R(0), R(1)), next>>) :
                   x \in {w - 1, P - 1}, y \in {1, w - 1}, fn \in {"Sub", "Mul", "Add"},
                   next \in {CastOp(R(2), R(2), v) : v \in {2, Half, Wide, Field}}
                            \cup {IntOp(R(2), g, w, R(2), R(0)) : g \in {"Sub", "Mul", "LessThan"}}
                            \cup {NotOp(R(2), R(2), w)}} : w \in IntWidths}

\* Operands of another width, which the VM does not take.
Mistyped ==
    {Run(<<3, 0>>, <<CastOp(R(0), D(4), Half), CastOp(R(1), D(5), w), IntOp(R(2), fn, Half, R(0), R(1))>>) :
        w \in {Field, Byte}, fn \in {"Add", "Div", "Equals"}}
    \cup {Run(<<1, 0>>, <<code>>) : code \in {FieldOp(R(2), "Add", R(0), D(2)), AssertOp(D(4)), AssertOp(D(5)),
        LoadOp(R(2), D(4)), StoreOp(D(4), D(5)), NotOp(R(2), D(4), Byte), CmovOp(R(2), D(4), D(5), D(4))}}

FieldPrograms ==
    {Run(<<x, y>>, <<FieldOp(R(2), fn, D(4), D(5))>>) :
        x \in {0, 1, 2, P \div 2, P - 1}, y \in {0, 1, 2, P \div 2, P - 1}, fn \in FieldFns}

\* Moves, selections and assertions on a comparison; the heap through pointers that are
\* computed, and the stack through a stack pointer that moves.
MemoryPrograms ==
    UNION {{Run(<<x, y>>, <<FieldOp(R(0), "LessThan", D(4), D(5)), CmovOp(R(2), D(4), D(5), R(0))>>),
            Run(<<x, y>>, <<FieldOp(R(2), "Equals", D(4), D(5)), AssertOp(R(2))>>),
            Run(<<x, y>>, <<MovOp(R(2), D(5)), Ptr(0, 11), MovOp(R(1), D(4))>>),
            Run(<<x, y>>, <<MovOp(D(0), D(2)), MovOp(R(2), D(4)), MovOp(R(10), D(5))>>),
            Run(<<x, y>>, <<Ptr(6, 1), IntOp(D(7), "Add", Address, D(1), D(6)), StoreOp(D(1), D(4)),
                            StoreOp(D(7), D(5)), LoadOp(R(2), D(1)), LoadOp(R(1), D(7))>>),
            Run(<<x, y>>, <<MovOp(R(5), D(1)), IndirectConstOp(R(5), Byte, 3), LoadOp(R(2), R(5)),
                            StoreOp(R(5), R(5)), LoadOp(R(5), R(5)), LoadOp(R(6), R(5))>>),
            Run(<<x, y>>, <<Ptr(6, 6), StoreOp(D(6), D(6)), LoadOp(R(2), D(6))>>)}
           : x \in {0, 5, 9}, y \in {0, 5, 9}}

\* The parameters of CalldataCopy.
Copying(code) == Program(<<7, 8, 9>>, 1, code \o Epilogue)
CalldataPrograms ==
    {Copying(<<Ptr(2, n), Ptr(3, k)>> \o middle \o <<CalldataOp(D(12), D(2), D(3))>>) :
        n \in 0 .. 3, k \in 0 .. 3, middle \in {<<>>, <<Ptr(2, 1)>>, <<Ptr(3, 0), Ptr(3, 1)>>, <<MovOp(D(2), D(3))>>,
            <<ConstOp(D(2), Half, 1)>>, <<ConstOp(D(2), Field, P - 1)>>, <<EnterOp(0)>>}}
    \cup {Copying(<<Ptr(0, 10), ConstOp(R(2), Address, n), Ptr(0, sp), ConstOp(R(1), Address, k)>>
                  \o <<CalldataOp(R(2), a, b)>>) :
        n \in 0 .. 2, k \in 0 .. 2, sp \in {10, 11, 12}, a \in {D(12), R(1)}, b \in {R(0), R(1), D(12), D(13)}}
    \cup {Copying(code) : code \in
        {<<>>, <<CalldataOp(D(12), D(2), D(3))>>, <<Ptr(2, 1), Ptr(3, 0), CalldataOp(R(2), D(2), D(3))>>,
         <<EnterOp(0), Ptr(2, 1), Ptr(3, 0), EnterOp(0), CalldataOp(D(12), D(2), D(3))>>,
         <<Ptr(2, 1), Ptr(3, 0), CalldataOp(D(12), D(2), D(3)), Ptr(3, 1), CalldataOp(D(13), D(2), D(3))>>,
         <<Ptr(2, 3), Ptr(3, 0), CalldataOp(D(1), D(2), D(3)), CalldataOp(D(12), D(1), D(3))>>,
         <<ConstOp(D(0), Field, P - 1), Ptr(2, 1), Ptr(3, 0), CalldataOp(R(2), D(2), D(3))>>}}

\* Foreign calls that return fields and integers, arrays of them, arrays in arrays and vectors,
\* some of which the answer does not fit, and destinations that do not match their type.
ForeignOp(dests, types) == [op |-> "foreign", dests |-> dests, types |-> types]
Simple(width) == [kind |-> "simple", width |-> width]
ArrayOf(types, n) == [kind |-> "array", types |-> types, size |-> n]
VectorOf(types) == [kind |-> "vector", types |-> types]
ToRegister(addr) == [kind |-> "address", addr |-> addr]
ToArray(addr) == [kind |-> "array", addr |-> addr]
ToVector(addr, size) == [kind |-> "vector", addr |-> addr, size |-> size]

Pair == <<Simple(Field), Simple(Address)>>
Nested == <<Simple(Half), ArrayOf(<<Simple(Field)>>, 2)>>
\* An array of two at 20 to 23 whose second and fourth slots point to 24 and 26.
Pointers(there) == <<Ptr(6, 20), Ptr(7, 21), Ptr(8, 23), IndirectConstOp(D(7), Address, 24),
                     IndirectConstOp(D(8), Address, there)>>
ForeignPrograms ==
    {Program(<<>>, 1, Prologue(0) \o Pointers(26) \o <<Ptr(2, n), ForeignOp(<<dest>>, <<type>>)>> \o Epilogue) :
        n \in {0, 2, 3, 4},
        dest \in {ToRegister(D(12)), ToArray(D(6)), ToVector(D(6), D(2)), ToVector(D(6), R(9))},
        type \in {Simple(Field), Simple(Half), ArrayOf(Pair, 2), ArrayOf(Nested, 2), ArrayOf(Nested, 0),
                  ArrayOf(<<VectorOf(Pair)>>, 0), ArrayOf(<<VectorOf(Pair)>>, 1), VectorOf(<<>>),
                  VectorOf(Pair), VectorOf(Nested), VectorOf(<<VectorOf(Pair)>>)}}
    \cup {Program(<<>>, 1, Prologue(0) \o Pointers(there) \o <<ForeignOp(dests, types)>> \o Epilogue) :
        there \in {20, 24, 26},
        dests \in {<<ToRegister(D(0)), ToRegister(R(2))>>, <<ToRegister(D(6)), ToArray(D(6))>>,
                   <<ToArray(D(6)), ToRegister(R(2))>>, <<ToArray(D(6)), ToRegister(R(2)), ToArray(D(6))>>},
        types \in {<<Simple(Address), Simple(Field)>>, <<Simple(Address), ArrayOf(Pair, 1)>>,
                   <<ArrayOf(Nested, 2), Simple(Field)>>}}

\* Black boxes on arrays at 20 and on, apart, next to each other or overlapping.
BoxOp(fn, ins, out) == [op |-> "box", fn |-> fn, ins |-> ins, out |-> out]
VerifyOp(ins, dst) == [op |-> "box", fn |-> "ecdsa", ins |-> ins, dst |-> dst]
AddOp(regs, out) == [op |-> "box", fn |-> "curve_add", ins |-> <<>>, regs |-> regs, out |-> out]
HeapArray(slot, size) == [ptr |-> D(slot), size |-> size]
OnHeap(data, widths, at, code) ==
    Program(data, 1, <<Ptr(0, 10), Ptr(1, 20), Ptr(2, Len(data)), Ptr(3, 0), CalldataOp(D(20), D(2), D(3))>>
                     \o [i \in DOMAIN data |-> CastOp(D(19 + i), D(19 + i), widths[((i - 1) % Len(widths)) + 1])]
                     \o [i \in DOMAIN at |-> Ptr(5 + i, at[i])] \o code \o Epilogue)
Data == <<1, 3, 2, 0, 3, 1, 2, 2>>
BoxPrograms ==
    {OnHeap(Data, <<w>>, <<20, out>>, <<BoxOp(fn, <<HeapArray(6, n)>>, HeapArray(7, m))>>) :
        w \in {Field, Half}, out \in 20 .. 22, fn \in {"poseidon2", "keccakf1600"}, n \in 2 .. 3, m \in 2 .. 3}
    \cup {OnHeap(Data, <<w>>, <<20, state, out>>,
                 <<BoxOp("sha256", <<HeapArray(6, 3), HeapArray(7, 2)>>, HeapArray(8, n))>>) :
        w \in {Address, Half}, state \in {20, 23}, out \in {20, 22, 23}, n \in 2 .. 3}
    \cup {OnHeap(Data, <<Byte>>, <<20, out>>, <<BoxOp("blake2s", <<HeapArray(6, n)>>, HeapArray(7, m))>>) :
        out \in {20, 22, 26}, n \in 0 .. 5, m \in 1 .. 2}
    \cup {OnHeap(Data, <<Byte>>, <<20, 24, 26, out>>,
                 <<BoxOp("aes128", <<HeapArray(6, n), HeapArray(7, 2), HeapArray(8, k)>>, HeapArray(9, n))>>) :
        out \in {20, 21, 25}, n \in 0 .. 4, k \in 1 .. 2}
    \cup {OnHeap(Data, <<w>>, at, <<VerifyOp(<<HeapArray(6, 1), HeapArray(7, 1), HeapArray(8, n), HeapArray(9, 2)>>, dst)>>) :
        w \in {Byte, Field}, at \in {<<20, 21, 22, 23>>, <<24, 20, 22, 20>>}, n \in 1 .. 2, dst \in {R(2), D(0), D(6)}}
    \cup {OnHeap(Data, <<Field, Field, w>>, <<out>>,
                 <<AddOp([i \in 1 .. 6 |-> D(19 + i)], HeapArray(6, n))>>) :
        w \in {Field, 2}, out \in {20, 21, 23}, n \in 2 .. 3}
    \cup {OnHeap(<<5, 6, 0, lo, hi>>, <<Field, Field, 2, Field, Field>>, <<20, 23, out>>,
                 <<BoxOp("msm", <<HeapArray(6, 3), HeapArray(7, n)>>, HeapArray(8, 3))>>) :
        lo \in 0 .. 5, hi \in 0 .. 4, out \in {20, 22}, n \in 1 .. 2}
    \cup {OnHeap(<<5, 6, 0, 7, 8, 1, lo, 1, 3, 1>>, <<Field, Field, 2, Field, Field, 2, Field>>, <<20, 26, 25>>,
                 <<BoxOp("msm", <<HeapArray(6, 6), HeapArray(7, 4)>>, HeapArray(8, 3))>>) : lo \in 0 .. 3}

\* The digits at 12 and on; the registers of the parameters may be among them.
RadixOp(input, radix, limbs, ptr, bits) ==
    [op |-> "radix", input |-> input, radix |-> radix, limbs |-> limbs, ptr |-> ptr, bits |-> bits]
RadixPrograms ==
    {Run(<<x>>, <<Ptr(5, radix), Ptr(6, n), Ptr(7, at), ConstOp(D(8), 2, bits),
                  RadixOp(D(4), D(5), D(6), D(7), D(8))>>) :
        x \in {0, 1, 6, 15, 16, P - 1}, radix \in 0 .. 5, n \in {0, 1, 2, 4, 5}, at \in {4, 12}, bits \in {0, 1}}

\* Procedures, called by one another, that set their escape flags and allocate cells.
FlagSteps == {EnterOp(1), EnterOp(2), SetOp(0), SetOp(1), LeaveOp, [op |-> "alloc"]}
Depths(steps) == [i \in 0 .. Len(steps) |->
    FoldLeft(LAMBDA open, step : IF step.op = "enter" THEN Append(open, step.flags)
                                 ELSE IF step.op = "leave" /\ open # <<>> THEN Front(open)
                                 ELSE open, <<>>, SubSeq(steps, 1, i))]
WellFormed(steps) ==
    /\ steps[1].op = "enter"
    /\ \A i \in DOMAIN steps :
          LET open == Depths(steps)[i - 1]
          IN  /\ steps[i].op = "leave" => open # <<>>
              /\ steps[i].op = "set" => open # <<>> /\ steps[i].slot < Last(open)
Allocs(steps, i) == Cardinality({j \in 1 .. i : steps[j].op = "alloc"})

\* Cell k is at the address in R(k - 1), holds a value of its own and is returned from R(4 + k).
Allocate(k) == <<MovOp(R(k - 1), D(1)), Ptr(4, 1), IntOp(D(1), "Add", Address, D(1), D(4)),
                 ConstOp(D(5), Field, 2 * k), StoreOp(R(k - 1), D(5))>>
FlagCode(steps) ==
    FlattenSeq([i \in DOMAIN steps |->
        IF steps[i].op = "alloc" THEN Allocate(Allocs(steps, i)) ELSE <<steps[i]>>])
FlagPath(steps) ==
    LET n == Allocs(steps, Len(steps))
    IN  Program(<<>>, n, <<EnterOp(0)>> \o Prologue(0) \o FlagCode(steps)
                         \o [k \in 1 .. n |-> LoadOp(R(4 + k), R(k - 1))]
                         \o <<Ptr(2, 15), Ptr(3, n), StopOp(D(2), D(3))>>)
FlagPrograms ==
    {FlagPath(steps) : steps \in {s \in UNION {[1 .. n -> FlagSteps] : n \in 3 .. 5} : WellFormed(s)}}

\* Bytecode whose main has escape flags, and a BLAKE3.
MainFlags ==
    {Program(<<>>, 1, <<EnterOp(n)>> \o Prologue(0) \o <<SetOp(n - 1)>> \o Allocate(1)
                      \o <<LoadOp(R(2), R(0))>> \o Epilogue) : n \in 1 .. 2}
Blake3 ==
    {OnHeap(Data, <<Byte>>, <<20, 26>>, <<BoxOp("blake3", <<HeapArray(6, n)>>, HeapArray(7, 2))>>) :
        n \in 0 .. 5}
Unlike == MainFlags \cup Blake3

SomeAnswers == {0, 30}
Weighted(fn, roles, k) ==
    FoldLeft(LAMBDA acc, role : FoldLeft(LAMBDA a, v : (a * 7 + v + k) % P, acc * 3 + 1, role), k, roles)

AllPaths == IntPrograms \cup Mistyped \cup FieldPrograms \cup MemoryPrograms \cup CalldataPrograms
            \cup ForeignPrograms \cup BoxPrograms \cup RadixPrograms \cup FlagPrograms
=============================================================================

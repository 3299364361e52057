# A TLA+ model of noir_llzk

noir_llzk translates a compiled Noir program (ACIR circuits and Brillig
bytecode) into LLZK, an MLIR dialect family for zero-knowledge circuits. It is
a sequential compiler: nothing in it runs concurrently and nothing is
persisted. What is hard about it is that it must preserve meaning. It
recovers structured control flow from a bytecode of jumps, keeps two programs
in step for every circuit (`@compute`, which finds the witnesses, and
`@constrain`, which pins them), and reproduces wrap-around integers and
256-bit modular arithmetic on field elements. The model is about that.

## Inventory

Paths are relative to `src/acir2llzk/src/`.

| component | state | operations | correctness |
| --- | --- | --- | --- |
| Driver (`lib.rs`, `config.rs`, `bin/`) | the MLIR module | translate: helpers, circuits in order, Brillig functions, verify | every symbol that is called is defined, once |
| Circuit translation (`circuit.rs`, `block_writer.rs`, `common.rs`, `opcodes/`) | per block: known witnesses, read cache, constant caches, memories | build handlers, emit compute, emit constrain, emit members | a witness is written once, after all it depends on; compute satisfies constrain |
| ACIR memory (`opcodes/memory_ops/`) | the array value of each block | init, read, write through one-hot selectors | reads return what was written last; constrained selectors have one solution |
| Black-box registry and helpers (`blackboxes/`) | the set of helpers to emit | multi-limb arithmetic, curves, hashes, ciphers | results equal the reference functions |
| Brillig registry (`brillig/registry.rs`) | requested (function, inputs, outputs) | register, emit | each is defined once, all call sites find it |
| Control-flow recovery (`brillig/cfg/`) | blocks, successors, idom tables, loops, procedures | the passes of `Cfg::build` | dominators, loops and procedures are right; divergent blocks are exactly those bound to panic |
| Structurer (`brillig/structurer/`) | position of the walk, enclosing loop, stop blocks | structure_region and its callees | terminates; the tree does what the CFG does |
| Structured emission (`brillig/structured_translator.rs`, `translator.rs`) | escape-flag slots, current block | one emission per tree node | the emitted code does what the Brillig VM does |
| Brillig memory, calldata (`brillig/memory.rs`) | stack pointer, slots known to be constant | loads, stores, resolving CalldataCopy | addresses resolved at compile time are those of the run |
| Brillig opcode handlers (`brillig/opcodes/`) | RAM | integer and field operations, moves, casts, foreign calls, black boxes | the value stored is the VM's |
| Pretty printers (`cfg_display.rs`, `structurer/display.rs`) | none | dump | wording only |

The components are called one after the other. `Driver::translate` asks the
circuits for their handlers; emitting a BrilligCall registers the function in
the Brillig registry, and when all circuits are done the registry runs
`Cfg::build`, `structure_function` and the emission for each. The structurer
reads the CFG and never changes it. Errors are returned upwards and end the
translation; a `panic!`, `unreachable!` or failed `expect` ends the process.

The hazards of the code are listed in `PROJECT.json`, at their lines.

The modules meet in four places. `Structurer` works on the CFG of `BrilligCfg`
and `StructuredRun` on the trees of both, with `BrilligVM` as its abstract
specification. `Circuit` is composed with `Acir` opcode by opcode.
`BrilligRam` takes the opcodes that `StructuredRun` calls `Work` apart, and
takes from the structured translator the steps that touch the RAM.
`Ecdsa` and `Grumpkin` say what two of the opaque black boxes of `Circuit` and
`BrilligRam` compute, and `Driver` that the calls of all of them find their
helpers.

## Modules

| module | models | form |
| --- | --- | --- |
| `BrilligCfg` | `brillig/cfg/`, `brillig/flow/` | pure operators, one per pass; the result is a CFG record or an error |
| `Structurer` | `brillig/structurer/`, and which trees emission refuses | pure recursive operators; `Compile(code)` is the whole chain |
| `BrilligVM` | the Brillig VM (external: the reference semantics of the bytecode) | state machine over `pc`, `stack` and the trace |
| `StructuredRun` | `structured_translator.rs` and the control part of `translator.rs`: what the emitted code does when it runs | state machine over a control stack; refines `BrilligVM` |
| `MCStructuredRun` | families of bytecodes | constants of the runs |
| `AlwaysDivergent` | `compute_always_divergent` step by step | state machine |
| `AlwaysDivergentProofs` | theorems about it | TLAPS proofs |
| `MCAlwaysDivergent` | all graphs of four blocks | constants of the run |
| `PrimeField` | the field, modulo any prime | operators |
| `Acir` | ACIR's meaning: the solver ACVM, opcode by opcode, and the relation of each opcode (external: the reference semantics) | operators |
| `Circuit` | `circuit.rs`, `block_writer.rs`, `common.rs`, `opcodes/` without Grumpkin: translation, and what the emitted `@compute` and `@constrain` do | state machine over a stack of frames, in step with `Acir` |
| `MCCircuit` | families of ACIR programs | constants of the runs |
| `FieldProofs` | lemmas about recursion on 0 .. n and about the field: sums, powers, widths | TLAPS proofs |
| `CircuitProofs` | theorems about `@constrain`, and about `@compute` and ACVM | TLAPS proofs |
| `HonestProofs` | theorems about what `@constrain` makes of an honest `@compute`, and about the shape of the state | TLAPS proofs |
| `Limbs`, `Modular`, `Point` | `blackboxes/ecdsa/limbs.rs`, `modular.rs`, `curve.rs` and `point.rs`: limb vectors, reductions, curve formulas | operators, one per `append_*` function |
| `Ecdsa` | `verify.rs` and the loops of the helpers | state machine, one call per behaviour, with the group of the curve as the reference |
| `EcdsaProofs` | theorems about inversion, the joint multiplication and the verdict | TLAPS proofs |
| `MCEcdsa` | two curves of small order, and calls | constants of the run |
| `Grumpkin` | `blackboxes/grumpkin/` and `opcodes/grumpkin/` | state machine: compute, a prover's choice, constrain |
| `GrumpkinProofs` | theorems about the points and loops, the comparison of scalars, double-and-add and the verdict | TLAPS proofs |
| `MCGrumpkin` | a curve of prime order over a small field, and opcodes | constants of the run |
| `Driver` | `lib.rs`, `blackboxes/registry.rs`, `brillig/registry.rs` and the dispatch of `circuit.rs`: which definitions a module gets | state machine |
| `DriverProofs` | theorems about the driver | TLAPS proofs |
| `MCDriver` | programs of one or two circuits and up to two bytecodes | constants of the run |
| `BrilligOps` | the arithmetic of `translator.rs`, and the VM's | operators |
| `ArithmeticProofs` | theorems about integer operations (`BrilligOps`), limb vectors (`Limbs`), both reductions (`Modular`) and the multiplication helpers (`Ecdsa`) | TLAPS proofs |
| `BrilligRam` | `brillig/memory.rs`, `brillig/opcodes/`, the RAM in `translator.rs`, and the Brillig VM's memory (external) | state machine: the emitted code and the VM, an opcode per step |
| `MCBrilligRam` | paths through bytecode | constants of the runs |

### Bytecode and CFG (`BrilligCfg`)

A bytecode is a function from indices to opcodes. Control opcodes are kept as
they are; every other opcode is `Work`, because the passes never look at it.
A CFG is a record with the tables of `struct Cfg`: blocks, successor lists
(as sequences, since a block may name a successor twice and the code counts
it twice), predecessors, dominator and post-dominator tables, loops and
procedures. Each pass is an operator named like its function, in the order in
which `Cfg::build` calls them; `Err` results stop the chain as `?` does. The
dominator computation is the iteration of the code (reverse post-order,
`intersect`, until nothing changes), not the definition of dominance.

### The structurer (`Structurer`)

`Region` is `structure_region`: it walks blocks until it meets a stop block,
the loop header or a leaf, and returns the nodes it built. `structure_loop`,
the two kinds of conditional, the trap peephole and the loop-shape analysis
are operators of their own. Every `Err` and every reachable `panic!` is an
answer (`st` is `ok`, `err` or `panic`); a walk that goes round for ever is
recognised by a budget of steps larger than any finite walk needs (`hang`).

### The run (`StructuredRun` over `BrilligVM`)

A behaviour starts with a bytecode of the family. `Translate` compiles it
(accepting or refusing). Then the emitted code runs, one structure node per
step: the control stack holds, per frame, the nodes still to do and whether
the frame is a sequence, a loop body, a loop's test region or a procedure,
with the escape flags of the activation in its procedure frame. Work opcodes
are observed one by one and every JumpIf takes its condition from the
environment.

`BrilligVM` is the abstract specification: the same bytecode, executed opcode
by opcode. The refinement mapping identifies the work done, the depth of
calls, and how the run ended. `ImplementsVM` says that every step of the
emitted code is a step of the VM, or a stutter. Two conventions are needed.
An assertion `if c { } else { trap }` may fail early, when the VM is bound to
reach Trap whatever conditions it reads (`FailEarly`), because the translator
folds diverging arms into one assertion. And a two-way branch to the same
place may be skipped. An arm that jumps onto a procedure entry is assumed
never taken (`LiveArms`), as `rewrite_dead_jumpif_to_procedure_entry` does.

### The worklist (`AlwaysDivergent`)

`graph` is a parameter chosen in `Init`: successor lists with repetitions and
a set of leaves bound to panic. `Seed`, `Pop` and `Tell` are the loop over
blocks, the `pop` of the worklist and the inner loop over predecessors;
`todo` is what the inner loop has left, so the counters are seen between any
two subtractions.

### Circuits (`Circuit` over `Acir` and `PrimeField`)

The compiler walks the opcodes of a circuit once and emits, for each, code
into `@compute` and code into `@constrain`. The translation itself has little
state (which witnesses are known, which memory blocks exist); it is the
operator `Translates`, a fold of `EmitCompute` over the opcodes between the
refusals of `build_handler` (`HandlerRefuses`) and of the final module
verification (`VerifierRefuses`). What matters is what the emitted code does,
so that is the state machine:

| variable or field | code |
| --- | --- |
| `prog`, `inputs`, `mode` | the program, the arguments of its entry circuit, and whose struct `@constrain` is given |
| `phase`, `outcome` | which of translation, `@compute` and `@constrain` runs, and how it stopped |
| `stack` | one frame per running function (`@compute` and `@constrain` call those of subcircuits) |
| `vals` in a frame | `BlockWriter::witness_cache`: parameters, and witnesses read or solved so far |
| `self` in a frame | the struct: members `w<i>`, and the structs of the subcircuits |
| `mem` in a frame | `BlockWriter::memories` |
| `ref` in a frame | ACVM on the same circuit: its status, witnesses and memory |
| `accepted`, `holds`, `solved` | all constraints so far are met; all ACIR relations so far hold; ACVM succeeded |

Each action runs the code of one opcode, in the order the code emits it; a
`Call` is two actions (enter, return) with the callee's opcodes between them.
In mode `honest`, `@compute` makes the struct, with ACVM doing the same
opcode in every step, and `@constrain` is run on it. In mode `any`,
`@constrain` gets a struct with any values at all: a witness takes its value
when the first opcode that mentions it is met. The nondeterministic selectors
of memory accesses are chosen among all those their constraints allow.

The types of ACIR are `IsExpression`, `IsInputs`, `IsOpcode` and `IsCircuit`;
`ProgramsAssumption` says that programs have them, that a memory block has a
cell and fewer than there are felts, and that hash blocks are not empty.
`InputsAssumption` says that the inputs are the first witnesses, as ACIR numbers
them and as ACVM hands arguments to a callee; `ResultsAssumption`, that helpers and
bytecodes return a felt for each output. TLC evaluates them on every family of
programs. `With` and `Override` are the maps of
module TLC (`:>`, `@@`) in a form that the provers know.

`AcceptsExactlySolutions` is the statement that the translation of a circuit
is neither too weak nor too strong. `FollowsAcvm`, `SameMemory` and
`HonestAccepted` are the statement that `@compute` finds what ACVM finds and
that its result is accepted. Each is an equivalence, or an implication from
success of the reference, so refusing every program would not satisfy them
usefully: the runs visit accepting and rejecting ends of every action.

Abstractions. Expressions keep their terms; a field element is a number
modulo `P`. A bytecode is a function of its arguments, or traps: the code
emitted for it is the subject of `StructuredRun`. A black box is an opaque
function of the function's name, the message and the number of results, so
that a byte too many or too few shows. `BrilligInputs` are sequences of
expressions (`Single` is a sequence of one) or a block; `BrilligOutputs` are
flattened. The number of inputs that ACIR's types fix (two for AND and XOR,
sixteen words for SHA-256, and so on) is taken for granted, the lengths that
the code tests (AES, Poseidon2) are modelled. Reading a member that has not
been written ends the run as `undefined`. The relation of a skipped circuit
call (predicate zero) leaves its outputs open in `Acir!Holds`, as
`emit_gated_eq` does; ACVM sets them to zero, and so does `@compute`. A
Brillig call has no relation: it is unconstrained in ACIR too.

### ECDSA (`Ecdsa` over `Point`, `Modular` and `Limbs`)

A 256-bit integer is a sequence of limbs; the limb base, the number of limbs
and the native field are constants, so that every `append_*` function becomes
an operator on small limbs with the same passes, carries and selections. A
flag is a felt and a selection is the sum of both operands under the flag and
its complement, as in the code: the order in which `AddComplete` applies its
selections is the code's, and it matters.

A behaviour of `Ecdsa` is one call of a helper. `MulModHelper` is a call of a
multiplication. `StartVerify`, `SInverted`, `GpInverted`, `JointDone` and
`RInverted` are the straight-line parts of `ecdsa_<curve>_compute`, separated
by the loops: `InverseBit` is one iteration of a square-and-multiply loop
(`inv` holds its caller), `Joint` one iteration of the loop over the bits of
both scalars and `NextLimb` the step to the next limb. `Skip` is the arm of a
predicate other than one.

The reference is the group itself: the multiples of the base point, computed
by chords and tangents with plain integers, and ACVM's verdict in terms of it
(`Accepted`). `JointPrefix` ties the accumulator to the prefixes of the two
scalars after every bit. It has one exception, `StandIn`: when `P = -G` the
addend of the bits 1, 1 is the point at infinity, and the selection for an
accumulator at infinity then leaves `(0, 0, 1)`, which denotes an affine
point. The next doubling turns it into infinity again; after the last bit
nothing does, and what saves the verdict is that `R.x` is then 0, which is
not a valid `r`.

### Grumpkin (`Grumpkin`)

A behaviour is one opcode, `EmbeddedCurveAdd` or `MultiScalarMul`, with the
values of its inputs. `ComputeAdd` and `ComputeBits` are `emit_compute`; the
helper advances by one bit of one scalar (`DoubleAndAdd`) and one point
(`Accumulate`). `Prove` replaces bits and outputs by a prover's choice and
checks the constraints on the inputs; `CompareBit` and `CompareEnd` are the
comparison of a scalar with the group order; then the helper runs again, on
the prover's bits, and the outputs are compared. The history variables
`scalarTop` and `modulusTop` hold the bits compared so far, as numbers: they
are what `CompareExact` relates the prefix felt to.

The reference is the group law as a relation: three points of a line, counted
with multiplicity, add up to the point at infinity (`Collinear`). It has no
case analysis in common with the code. The proofs take it to be associative, as it is
on every curve, and the run checks that it is on its own. `AcceptsRelation` says that the
constraints accept exactly the relation of the opcode, for every choice of the
prover.

### The driver (`Driver`)

`EmitHelper`, `TranslateCircuit` and `EmitFunction` are the bodies of the three
loops of `Driver::translate` and `emit_brillig_functions`; the helpers to emit
are computed by the search of `blackboxes/registry.rs`, the calls by the
handlers, and nothing relates the two but the properties. A definition is a
symbol with its arity, the symbols it calls, and how many values it returns.
`Verify` is the final verification of the module (external: it is MLIR's, and
resolves symbols and compares arities). `RefuseCircuit` and `RefuseFunction`
are all errors of the translation of one circuit or bytecode.

### Memory and opcodes of bytecode (`BrilligRam` over `BrilligOps`)

A behaviour is one path: a list of opcodes that is executed once from the
beginning. The emitted code has a RAM of felts (`ram`), the VM a memory of
cells with a width (`vm`), and every action executes one opcode on both. When
the VM fails on an operand of a wrong width the path ends ("failed") and
nothing is claimed of the emitted code, which has no widths. The two outcomes
that `TrapsTogether` rules out are an emitted assertion that fails where the VM
goes on, and one that holds where the VM rejects the value the assertion is
there for.

Control flow is not in this module: `StructuredRun` is about it. What the
structured translator does to the RAM is here, as steps of the path: entering
a body allocates its escape flags from the free memory pointer, leaving it does
not give them back, and setting a flag writes its cell. So a path with flags
has the VM's arrays at other addresses, and `ReturnsAgree` rather than
`MemoryAgrees` is its property; `FlagsPrivate` says that what the bytecode
allocates and writes never reaches a flag.

Call data: the parameters of CalldataCopy are computed by a fold over the
opcodes in front of it, as `precompute_calldata_copy_params` does, and
`CalldataExact` compares them with those of the VM when it gets there. A black
box is an opaque function of the arguments that the helper is given, cut into
the helper's parameters (`Parameters`), against the same function of what the
VM reads; an argument list of another length makes the module invalid.

## Runs

| run | question | answer |
| --- | --- | --- |
| `structured` | is every forward-branching bytecode of five opcodes, and are nested conditionals, while loops, assertions, calls and recursion, refused or translated faithfully? | yes; translation always answers, calls nest as in the VM |
| `loops` | do loops with breaks and continues at every position of the body, several of them in a body or in procedures called repeatedly, in loops and recursively, and all other looping bytecodes of at most five opcodes, start with their flag clear, and leave and repeat where the bytecode does? | yes, provided running a test region again is harmless, and outside of the deviations below |
| `divergent` | is the set of always-divergent blocks exact, on every graph of four blocks, and does the worklist end? | yes |
| `circuits` | are equations, memory operations, bitwise opcodes, black boxes, and calls of circuits and bytecode under any predicate, computed as ACVM does, and constrained exactly? | yes, except for what `unlike_acvm` shows |
| `ecdsa` | do the helpers reduce, invert, multiply points and verify as ACVM does, in every exceptional case? | yes |
| `grumpkin` | do the two opcodes accept exactly their relation, and is no pair of points missed by the formulas? | yes |
| `driver` | does every call find its definition, once and on its arity? | yes, but for AES of a partial block and BLAKE3 in bytecode |
| `ram` | do the opcodes of bytecode do on the RAM what they do on the VM's memory? | yes, but for the shifts of 128-bit integers and for what `unlike_brillig` shows |
| `unlike_vm`, `no_answer`, `unlike_acvm`, `unlike_brillig` | the deviations below | violated |

**Bounds of the structurer runs.** No counter has to be capped: the bytecode
is finite, and a loop's state repeats. Five opcodes hold every
shape of conditional (two arms, a join, a leaf in either arm), a call and its
procedure; loops need at most five opcodes for header, body, exit and break.
Nesting two deep is where the structurer's context (enclosing loop, stop
blocks, flag of the loop) is first overwritten and restored; a third level
repeats the second. `MaxDepth` bounds the call depth in `StructuredRun`, so that
recursion is finite: four for `structured`; two for `loops`, where main calls a
procedure whose loops break and which calls itself before, in or after them, so
that a flag is set, and set again further down, while its caller's loop is still
running (`Reentered`). A flag is private to an activation: a third one meets
what the second meets. `WalkBound` is the budget of a walk. Four blocks give the
worklist blocks with repeated successors, self-loops, diamonds and two seeds.

**Bounds of the circuit run.** The field has five elements: enough for
coefficients other than one and minus one, for indices inside and outside a
block of three cells, for values that fit one bit and two bits and that do
not, and for predicates that are not bits. The statements do not depend on the
size of the field otherwise. Byte, word and long word are one or two bits
wide, a hash block and an AES block hold two bytes, AES's key one, Poseidon2's
state two: these are the constants `ByteBits` to `StateWidth`, and the
messages have zero to five bytes, so that empty, part, full and several blocks
occur. Three opcodes let one opcode depend on a second and be read by a third;
the pools of opcodes in `MCCircuit` name the cases. Callees nest two deep; the
call graphs are acyclic, as Noir's are.

**Bounds of the ECDSA run.** Two limbs of four bits: there is a low, a high and
an overflowing limb in every pass. The curves have prime order and one is of
each kind: `a = 0` over p = 241 = 2^8 - 15, reduced in Solinas rounds, and
`a = -3` over p = 251, reduced by Barrett. The multiplications take every first operand
below 2^8 and second ones around 0, a limb, each modulus and 2^8. The
verifications take valid signatures, flipped, altered and at every limit, and
keys that are not points, `G` and `-G` among them. The field (32749) holds the
largest column of a product, as BN254's does.

**Bounds of the Grumpkin run.** The curve `y^2 = x^3 - 11` over the field of 13
elements has 19 points, a prime that is larger than the field as Grumpkin's is.
Scalars have five bits in limbs of three and two, so there are scalars between
the order and 2^5. All pairs of points, points at infinity with other
coordinates, points off the curve and a flag that is no bit; the prover chooses
any bits, and digits that are no bits.

**Bounds of the driver run.** Two circuits of up to two opcodes over one of
every kind, seven lists of up to two bytecodes; sizes of zero, one block, and
one over. Two circuits are where two variants of a function and a shared
variant first occur.

**Bounds of the RAM run.** Widths are scaled down together: `Half = 8` stands
for 2^64 (so 128-bit integers are six bits), `Address = 32`, `Byte = 4`, and
P = 1091 satisfies what the proofs assume of the true field,
2 Half^3 + Half^2 <= P, so that the same products and sums fit or do not. Every
operation is on the edges of its width, on values out of it, and on results of
another operation. States, digests, blocks and scalars have one to three
elements (`StateWidth` to `HighBits`). Paths are five opcodes of prologue, up to
about ten opcodes, and three of epilogue; addresses and answers are few, chosen
so that arrays alias, overlap the stack and lie behind each other.

## Where the code deviates

Each of these has an input, found by TLC, on which the program does not do
what a comment, an assertion or an example of the repository says; the quotes
are in `PROJECT.json`. A run reports the first it finds: to see another one,
give `Programs` the set named here alone.

1. `unlike_vm` (`StaleFlag`): the escape flags are cleared once per activation
   of a body, so a loop with a break that is entered again in the same
   activation, after that break, is left at once. Every other loop starts with
   its flag clear (`FlagClearOnEntry`): those of other activations, and those
   that follow it in its body.
2. `unlike_vm` (`RetestsTest`): after a break the test region runs again before
   the flag is read.
3. `unlike_vm` (`ExitPrefix`): the blocks on a loop's own exit arm run after a
   break too; and the walk of a test region misses its end when an inner loop
   has that block on its exit arm, so that the whole iteration becomes part of
   the test.
4. `unlike_vm` (`BackEdgeJoin`): a conditional in a loop is joined at its
   post-dominator although an arm reaches the back edge first.
5. `no_answer`: a loop of assertions only makes the loop-shape analysis run
   for ever; Stop inside a conditional makes emission panic.
6. `unlike_acvm` (`SkippedInverse`): a Brillig call whose predicate is zero is
   made all the same, and stops `@compute` if its bytecode traps.
7. `unlike_acvm` (`ZeroCoefficient`): an unknown whose coefficient is zero is
   fixed to zero, where ACVM lets a later opcode decide.
8. `unlike_brillig` (`MainFlags`): the escape flags of main are allocated before
   the bytecode has set the free memory pointer. They lie on addresses 0 and
   up, the stack pointer first.
9. `unlike_brillig` (`Blake3`): bytecode calls the helper of BLAKE3 with one
   argument more than it takes.

`RegularLoops` in `MCStructuredRun` excludes from `loops` the loops that 1, 3
and 4 are about; for 1 these are exactly the loops that a path in the body leads
back to from where one of their breaks goes (`EnteredAfterBreak`). `ram` allocates flags after the pointer is set (8), and
hashes with BLAKE2s only (9).

Others are named in the properties, or are static and need no run:

- `emit_unit_output` is called only when the list of return witnesses is empty,
  and returns that are inputs have no member, so an entry circuit that returns
  only inputs has no public output member, which the comment at `circuit.rs:130`
  says PCL requires.
- A bytecode that encrypts a partial AES block makes the module invalid even if
  no circuit calls it: `used_shaped_helpers` emits the helper for any length in
  any bytecode, and the helper returns whole blocks only (`OddAes` in `Driver`).
- `Shl` of 128-bit integers wraps around the field before the mask applies
  (`ShlOverflows`), which `binary_int_op_oracle_tests.rs:138` knows of.
- Division by zero has no emitted check: the VM fails, and the emitted operation
  has no result. Values that a foreign call returns are not checked against
  their type, which is the oracle's business.
- The scan for the parameters of CalldataCopy ignores control flow and skips
  constants beyond 32 bits, and all copies share the parameters of the first.
  `CalldataExact` has the straight-line bytecode that Noir produces; a function
  without a CalldataCopy, or with one in a procedure, is refused.
- The documentation of `append_jacobian_to_affine` says it panics on Z = 0; the
  inverse of zero is zero, and the callers rely on it (`InverseExact`).
- Barrett's comment says the estimate is off by at most two. That depends on the
  modulus (`SmallResidue` in `Modular`); it is true of the three moduli that are
  reduced this way.
- In `MultiScalarMul`, `@compute` asserts that limbs fit their bits whatever the
  predicate is, and neither `@compute` nor bytecode compares scalars with the
  group order; `@constrain` does. A point at infinity with nonzero coordinates
  is passed on unchanged (the second half of `AcceptsRelation`).

## Fairness

The translator and the code it emits are sequential programs, which go on as
long as they can. The analysis (`AlwaysDivergent`) has weak fairness on its
next-state relation, which is all `Terminates` needs. Runs of emitted code
have no liveness property: a Brillig program may loop for ever.

## Proofs

`AlwaysDivergentProofs` proves, for every finite set of blocks and every
graph on it, that no counter underflows (`TypeCorrect`), that a counter is
the number of edges not told (`Counting`), that no block is pushed twice
(`NoRepeatedPush`), that only blocks that cannot escape are marked
(`Soundness`) and that none is missing at the end (`Completeness`).

They follow from one inductive invariant, `IInv`. The counting invariant
alone is not inductive: that a counter is positive before a subtraction needs
that the edge about to be told was not told before, which needs to know that
a marked block is on the worklist, or being processed, or has told all its
edges (`PendingPopped`), and that it entered the worklist once. Soundness needs
that a block is marked only when its counter is zero or it is a seed
(`Marked`); completeness the converse (`Noticed`, `LeavesSeeded`). The
cardinality lemmas (`UntoldFinite`, `UntoldAfter`, `ZeroMeansTold`) are where
the arithmetic lives. The only assumption is that the set of blocks is finite.

`ArithmeticProofs` proves, for every width and every field with
2 Half^3 + Half^2 <= P, that the emitted sums, differences and products are the
VM's (`AddExact`, `SubExact`, `WideMulExact`, together `IntOpsExact`). The
assumption is `HalfAssumption` of `BrilligOps`; with Half = 2^64 it holds of
BN254's modulus. The argument is that nothing wraps around the field before the
mask applies, which for the 128-bit product needs the bound on the two cross
products and that the product of the high halves is a multiple of 2^128.

It also proves `MulExact` (`MultiplicationExact`) for every number of limbs, limb
base, native field and set of calls: a multiplication helper returns the product
modulo its modulus whenever one operand is reduced. The assumptions are that a
column of a product fits a felt (`LimbAssumption`), and of the moduli what the two
reductions rely on (`CallsAssumption`): `SolinasModulus`, c = R - p fits a limb and
c^2 + c <= R; `BarrettModulus`, R/2 < n < R and `SmallResidue`. With four limbs of
64 bits they hold of BN254's modulus and of the four moduli of the two curves,
which is a matter of evaluating them; the comments in `modular.rs` mention the second
of them only for the estimate, and `SmallResidue` nowhere. The argument has three
levels. Limb vectors denote numbers: a sum over the limbs, whose laws
(`ValueIsLinear`, `ValueSplits`, `ValueBounded`, `ValueOfConst`) are inductions over the
limbs. Every pass keeps what its columns denote, because no column reaches the native
modulus (`CarryPassCarries` with an invariant of the pass, `Carried`; `Borrowed` for
subtraction), and leaves no carry where the code drops one (`NoCarryLeft`,
`EstimateByLimbs`); the columns of `MulWide` are regrouped in rows, one per limb of
the first factor (`RowsMultiply`). Then each reduction is one on integers: Barrett's
estimate fits its limbs, leaves less than three times the modulus, and two
conditional subtractions end with the residue (`BarrettSettles`); three Solinas
rounds leave less than R, and one subtraction the residue (`RoundsSettle`).

`EcdsaProofs` proves the other properties that `ecdsa` checks, for every number of
limbs, base, native field, set of calls and curve that the assumptions describe: the
registers hold limb vectors, and bits where the code takes them for bits
(`EcdsaTypeCorrect`), a loop of squarings and multiplications ends with the inverse,
or with zero for zero (`InversionCorrect`), after every bit of the joint loop the
accumulator is the multiple that the prefixes of both scalars stand for
(`JointPrefixCorrect`), and the verdict is ACVM's on every input
(`VerificationCorrect`). The assumptions are those of `MultiplicationExact` and

- `ByteAssumption`: a limb is a whole number of bytes and its base a power of two,
  without which the mask of a bit does not divide it;
- `CurvesAssumption`: the moduli have the shapes that the reductions rely on, are
  odd, `a` is 0 or -3, and the constants of the curve are reduced;
- `FermatAssumption`: `a^(m-1) = 1` modulo both moduli, for every `a` in 1 .. m - 1.
  It is all that is used of the moduli being primes; that they have no zero divisors
  follows (`PrimeFactors`);
- `GroupAssumption`: under the chords and tangents of `AffineAdd`, the multiples of `G`
  are a group of order `n`, and they are all the points of the curve, as on every curve
  of prime order. The code relies on it when it accepts a key because it is on the
  curve.

TLC evaluates all of them on the curves of the run.

None of the four is inductive. `EcdsaInv` has one predicate per phase of a call, and
says what each has established. During an inversion, the value is the power of the
base for the bits of the exponent consumed so far (`LoopState`); a base of zero counts
as the modulus, so that it is a power of a positive number too. After the first
inversion the two scalars are `z v` and `r v` modulo `n`, for one `v` that inverts `s`
if it has an inverse and is zero for `s` zero (`ScalarsFor`): `s` may be out of range, and the
loop goes on all the same. While `G + P` is inverted, it is a Jacobian point that
stands for the sum, and is the constant point at infinity if the sum is
(`SumFor`); afterwards it is an affine operand with its flag (`OperandFor`). In the
loop, the accumulator stands for the prefixes, or is `(0, 0, 1)` while they are at infinity
and `G + P` is too (`AccFor`): the exception of `StandIn`, which the proof needs exactly
where the run shows it. Each of these holds only for a key on the curve; for other keys
the accumulator is anything, and the flag of the curve equation decides.

The lemmas are in layers. `Agree` is congruence and `Denotes` ties a limb vector to an
integer modulo the prime; every `append_*` function is exact on what its operands
denote (`DenotesOperations`). Then the formulas: the doublings for `a = 0` and for
`a = -3` compute the same (`DoubleDenotes`), which over the denominators is the tangent
of the reference, as the addition is its chord (`DoubleStands`, `RegularStands`;
`ScaledThird` is the identity they share), and `CompleteStands` goes through the
exceptional cases in the order in which `AddComplete` selects them. `JointStands` is one bit of the
loop. A mask that is halved reads the bits of a limb from above (`ConsumedBit`), so a bit
takes the prefix `u` to `2 u + b`, and `MultiplesAreGroup` turns that into doubling and
adding. Last, the flags of the inputs say that the key is on the curve and `r` and `s`
are in range (`InputFlagsDecide`), and `Verdict` compares: with `s` in range the point is
ACVM's, with `R` at infinity the last flags reject whatever the coordinates are.

`GrumpkinProofs` proves every property that `grumpkin` checks, for every prime field
but that of two, every curve `y^2 = x^3 + b`, number of bits, group order, opcode and
choice of the prover. Whatever the points, bits and flags are, the case analysis of
`AffineAdd` never divides by zero, so that sums are points of felts, and a loop never
reads a bit that its scalar does not have (`TypeCorrect`). The comparison with the
order is exact (`CompareCorrect`): `CompareInv` strengthens it with the digits being
bits while a scalar is compared (`Comparing`), without which the product of the
prefix and a digit says nothing. The accumulator of `scalar_mul` is the multiple of
its point by the bits read so far (`MultipleCorrect`), and the verdict of
`@constrain` is the relation of the opcode (`RelationCorrect`).

The last two rest on `OpcodeInv`, which says what each part of the opcode has
established: after `Prove`, that the constraints on the inputs hold (`Accepted`),
which for a true predicate means points of the curve, digits that are bits, and limbs
they add up to (`AcceptedMeans`); while scalars are compared, that those before are
below the order and the two histories are the top bits of the scalar and of the order
(`InCompare`); in the helper, that sum and accumulator are valid points which denote
what they should (`Accumulated`), and that infinity has no coordinates in them unless
an input brought some. Below it are three groups of lemmas. The constraints mean what
they say because the prime has no zero divisors (`BooleanGates`, `CurveGates`,
`ScalarBits`: the two limbs are the halves of the number). The formulas are the group
law: the chord or tangent through two points meets the curve in the point that
`Formula` reflects, counted with multiplicity (`LineEquations`, `FormulaEquations`),
and no other (`ThirdPoint`), so `Add` is `GroupSum` on valid points (`AddIsSum`); they
are identities between polynomials, proved over the integers modulo multiples of P
(`FieldProofs`). And multiples add up (`MultiplesAdd`), so doubling and adding reads a
scalar (`BitAccumulates`). The assumptions are the shapes of calls, that a limb fits a
felt, that the order has no more than `TotalBits` bits (`GrumpkinAssumption`), and
`AssociativityAssumption`, that chords and tangents make a group: the classical theorem
about curves, which the code relies on and this project does not prove; TLC evaluates
it on the curve of the run. That the order of the group is `ScalarModulus` is not
needed: scalars of that size are rejected because the code says so.

`DriverProofs` proves, for every set of programs, every property of `Driver`
that `driver` checks: `TypeCorrect`, `ModulesAreValid`, `HelpersBeforeCalls`,
`CallsAreRegistered`, `OnlyCalledBytecodeRefuses`. None of them is inductive.
`IInv` says what the module is at any time: the helpers of the program at places
1 to `Total` in the order of the list (`HelpersPart`), the circuits behind them
(`CircuitsPart`), then one function per key that is registered and not pending
(`FunctionsPart`), no symbol twice (`NamesDistinct`), and the verdict that of
`Verify` (`Outcome`). What makes a module valid is then a matter of places: a
callee is found because its place is known, and its arity is that of the helper
or variant that the call names. Three facts carry it: the search for helpers
finds the box of every opcode (`BoxIsUsed`), a helper's calls go to earlier
places (`AllHelpersTidy`), and the sorted lists of lengths are sorted
(`AscendingSorts`). The assumption is `DriverAssumption`: the types of the
program's parts, and positive block sizes.

`CircuitProofs` proves `AcceptsExactlySolutions` (`Exactness`) for every set of
programs, every prime, every width and every choice of the black boxes and of
the bytecodes: what the emitted constraints accept is exactly the relation of
the opcodes. The invariant `IInv` strengthens it in three ways. The circuits
that run are those that translate (`WellFormed`): constants fit their widths, a
block is made before it is used, calls have their callee's arity. Each frame
fits its circuit (`FrameFits`): its values are felts, the parameters are among
them, its memory has the blocks made so far and is equal to the memory of the
relation. And a frame that is not on top waits at a Call whose predicate is one
(`Waits`), without which the equality of results on return would be gated by
anything. The lemmas are the facts about gadgets that a reviewer would ask for:
selectors that meet their constraints are bits, sum to one and are set at the
index only, so that there are none when the index is outside (`SelectorsPinned`);
reading and writing through them is reading and writing (`SelectReads`,
`SelectWrites`); a width check by comparison with 2^n is the one on the number of
bits, whether a constant is checked at translation or a witness in the circuit
(`BitFits`, `WidthsAreNumbers`); the hash helpers get the message back out of
padding and length (`HelperGetsInputs`); skipping terms with coefficient zero does
not change a sum. The assumptions are `PrimeAssumption` (no zero divisors),
`WidthAssumption` and `ProgramsAssumption`. Of the prime nothing is used but that.
One gap of the model was found by the proof: `ConstrainReturn` could not read a
result that no opcode of the callee constrains.

The same module proves `FollowsAcvm` (`FollowsReference`) and `SameMemory`
(`SharesMemory`) for every set of programs, every prime, and every choice of the
black boxes and bytecodes: where ACVM solves a program, `@compute` reads nothing
too early, divides by no zero, does not stop, and has ACVM's witnesses and
memory, in the entry circuit and in every running callee. Neither is inductive,
because what happens is decided at translation: the writer of `@compute`
(`WriterAfter`) emits a solution where it does not know a witness yet, and ACVM
may solve an equation that the writer took for a check, or the other way round.
`CInv` therefore says of each frame (`ComputeFits`) that it knows exactly what
the writer knew at its opcode, with felts as values and the blocks made so far;
that it has the witnesses and the memory of ACVM while ACVM solves the frames
below it and its own (`Mirrors`); and of neighbouring frames that the caller
stands at the Call of the callee's circuit, with its inputs known, and that the
callee's ACVM started from the caller's values and is skipped only if the
predicate is zero. A callee that ACVM skips may compute anything (its results
are scaled by zero), which is why the invariant is conditional on the frames
below and not on the whole stack. The lemmas are those of a translation: the
writer's knowledge only grows, an opcode that the writer accepts reads what is
known (`SolvingReads`, `ReadsInTime`), the results of a callee are among its
members (`ResultsInTime`), solving for the one unknown of an equation is what
ACVM does even though the two skip different terms. The assumptions are, besides
those of `Exactness`, `InputsAssumption` and `ResultsAssumption`. The proof
has sharpened the model: AND and XOR have two inputs (`IsOpcode`), which ACIR's
type fixes and ACVM relies on.

`HonestProofs` proves `HonestAccepted` (`HonestIsAccepted`), the statement that the
two functions of a circuit belong together, for every set of programs, every
prime, all inputs and every choice of the black boxes and bytecodes: when ACVM has
solved a program, `@constrain` accepts the members that `@compute` wrote, at every
opcode and in every call. `FollowsAcvm` and `AcceptsExactlySolutions` are not
enough for it: the first is about a frame while it runs, and when `@constrain`
enters a callee the frame that computed its struct is long gone. `HInv` remembers
it. While ACVM solves, there is a set of executions (`Complete`: valuations with
the structs and memories that went with them, whose opcodes all hold, and whose
calls were answered by executions in the set) such that in every running frame of
`@compute` the opcodes executed so far hold (`Chronicle`), and its callees were
given its values (`GivenTo`); a frame that returns becomes an execution. In
`@constrain`, every frame goes over one of those executions, reads its witnesses and
has reached its memory (`Retraces`), and neighbouring frames go over executions of
which one answered the other (`Trace`). Then the relation of each opcode is
met, and by `Exactness` so is the constraint. What each opcode needs for that is
that ACVM's solution satisfies the relation (`ReferenceExecutes`): for an equation,
that substituting the quotient for the unknown gives zero (`SolutionSolves`), which
splits each term in the part without the unknown and its coefficient (`TermSplits`);
for the others, that what is assigned is new or is what was there
(`AssignExtends`). The assumptions are those of `FollowsReference`. `HInv` says that a
set of executions exists and cannot be evaluated by TLC; the property itself is
checked by `circuits`.

The same module proves the type invariant of `Circuit` (`CircuitTypeCorrect`), which
says more than the types of variables: neither function leaves the members of its
circuit, no frame runs past its last opcode, and a frame above another is the callee
at which the other stands. For frames of `@compute` most of it follows from `CInv`.
What does not is that a struct has the shape of the circuit whose `@constrain` it is
given, because `@constrain` starts when the frames that built the structs are gone.
`TInv` therefore adds that each frame of `@compute` has a struct for every Call behind
it (`Opens`) and each frame of `@constrain` one for its circuit (`AllGiven`).
A struct contains the structs of its calls, so "a struct of circuit c" (`IsStruct`)
would be a recursive definition; it is a set of circuit and struct pairs that is
closed under calls (`Structs`) instead. Here nothing depends on ACVM: it
holds when ACVM does not solve the program, too.

Recursive definitions of these modules are functions on 0 .. n. That such a
function satisfies its equation is proved once, from well-founded induction on
sets of naturals (`FieldProofs`): the induction theorems of the library that
take a predicate as a parameter cannot be used, but induction over a set
(`UpToInduction`) can be stated without one.

Model-checked only: termination (liveness). Everything about the structurer and
about the paths of `BrilligRam`: their modules use RECURSIVE operators and
bitwise operations, which the prover does not take.

## Plan

The order in which the modules were written: control flow of bytecode first,
because it is where meaning is lost most easily, then circuits, then what both
call. What could be added, in this order:

1. `StructuredRun` on the RAM of `BrilligRam`: the two share their paths, and
   composing them would let the escape flags of `StructuredRun` be cells. The
   deviations of both are found without it.
2. The constants of the real curves: `FermatAssumption` and `GroupAssumption` of them
   are classical facts that TLC cannot evaluate at their size.

## Not modelled

The pretty printers (wording only), reading files and options, and the
arithmetic inside SHA-256, Keccak, Blake2s, Blake3, AES and Poseidon2:
straight-line code over fixed tables, which test vectors cover and a small
instance would not. The constants of the two real curves and of Grumpkin are
replaced by small ones. Locations, types and attributes of the emitted
operations are left out, except which members exist and which are public.
Recursion of circuit calls is left out, see the hazards in `PROJECT.json`.

In `BrilligRam`, cells that were never written are zero for the emitted code
and untyped for the VM; LLZK's RAM is taken to start anew with each call.
Integer shift amounts have the width of the operand. The points that bytecode
passes to a curve are on it. An oracle answers with as many elements as the
size register of a vector says.

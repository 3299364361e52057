------------------------------- MODULE Driver -------------------------------
(***************************************************************************)
(* Driver::translate (lib.rs): the helper functions the program uses, then  *)
(* one struct per circuit, then one function per registered Brillig call,   *)
(* then the verification of the module.  What a circuit or a function       *)
(* computes is the matter of Circuit and StructuredRun; here a definition   *)
(* is its symbol, its arity and the symbols it calls.                       *)
(***************************************************************************)
EXTENDS Integers, SequencesExt

CONSTANTS BlakeBlock,  \* BLAKE2S_BLOCK_BYTES, BLOCK_BYTES
          AesBlock,    \* AES_BLOCK_SIZE
          ScalarBits,  \* SCALAR_TOTAL_BITS
          Programs     \* the programs to translate

\* A program has circuits, sequences of opcodes, and unconstrained functions, each with
\* the procedures of its bytecode, its black boxes and the calls of its bodies.  Body 0 is
\* main, the others are the entries of procedures.
BoxNames == {"msm", "blake2s", "blake3", "aes128", "curve_add", "poseidon2",
             "sha256", "keccak", "k1", "r1"}
IsBox(b) == b.fn \in BoxNames /\ b.size \in Nat

IsOpcode(op) ==
    \/ op.kind = "blackbox" /\ IsBox(op)
    \/ op.kind = "brillig" /\ op.id \in Nat /\ op.ins \in Nat /\ op.outs \in Nat
    \/ op.kind \in {"call", "other"}

\* The structurer keeps a block in the body that it belongs to, and finds a procedure once,
\* by the calls of it.
IsFunction(f) ==
    /\ f.procedures \in Seq(Nat)
    /\ \A p, q \in DOMAIN f.procedures : f.procedures[p] = f.procedures[q] => p = q
    /\ \A call \in f.calls : call.to \in ToSet(f.procedures)
    /\ f.boxes \in Seq(ToSet(f.boxes))
    /\ \A b \in ToSet(f.boxes) :
          IsBox(b) /\ (b.live => b.body = 0 \/ b.body \in ToSet(f.procedures))

IsProgram(p) ==
    /\ p.circuits \in Seq(ToSet(p.circuits))
    /\ \A c \in DOMAIN p.circuits : /\ p.circuits[c] \in Seq(ToSet(p.circuits[c]))
                                   /\ \A op \in ToSet(p.circuits[c]) : IsOpcode(op)
    /\ p.functions \in Seq(ToSet(p.functions))
    /\ \A f \in DOMAIN p.functions : IsFunction(p.functions[f])

ASSUME DriverAssumption == /\ BlakeBlock \in Nat \ {0}
                           /\ AesBlock \in Nat \ {0}
                           /\ ScalarBits \in Nat
                           /\ \A p \in Programs : IsProgram(p)

VARIABLES program,
          pc,        \* the loop of translate that runs
          helpers,   \* what remains of BlackboxFunction::used_in_program
          index,     \* the circuit translated next
          registry,  \* BrilligRegistry::entries
          pending,   \* the entries not emitted yet
          module     \* the definitions of the module, in order

vars == <<program, pc, helpers, index, registry, pending, module>>

Circuits == program.circuits
Functions == program.functions

---------------------------------------------------------------------------
\* Which helpers a program uses (blackboxes/registry.rs)

AcirBoxes == {op \in UNION {ToSet(Circuits[c]) : c \in DOMAIN Circuits} : op.kind = "blackbox"}
BrilligBoxes == UNION {ToSet(Functions[f].boxes) : f \in DOMAIN Functions}

\* Mutant of Boxes: Brillig bytecode is not searched.
BoxesAcirOnly == AcirBoxes

\* Every bytecode counts, called or not.
Boxes == AcirBoxes \union BrilligBoxes

Uses(fn) == \E b \in Boxes : b.fn = fn

Helper(fn, shape) == [fn |-> fn, shape |-> shape]

CeilDiv(a, b) == (a + b - 1) \div b
Blocks(len) == CeilDiv(IF len > 1 THEN len ELSE 1, BlakeBlock)

\* The helper that a black box calls, its shape computed from the length of its input.
HelperOf(b) ==
    CASE b.fn = "msm"                -> Helper("msm", b.size \div 3)
      [] b.fn \in {"blake2s", "blake3"} -> Helper(b.fn, Blocks(b.size))
      [] b.fn = "aes128"             -> Helper("aes128", b.size)
      [] b.fn = "k1"                 -> Helper("k1_compute", 0)
      [] b.fn = "r1"                 -> Helper("r1_compute", 0)
      [] OTHER                       -> Helper(b.fn, 0)

\* Mutant of Curve: the helpers of a curve by name.
CurveByName(fn) ==
    CASE fn = "k1" -> <<"k1_compute", "k1_inv_n", "k1_inv_p", "k1_mul_n", "k1_mul_p">>
      [] fn = "r1" -> <<"r1_compute", "r1_inv_n", "r1_inv_p", "r1_mul_n", "r1_mul_p">>
      [] OTHER     -> <<fn>>

Curve(fn) ==
    CASE fn = "k1" -> <<"k1_mul_p", "k1_mul_n", "k1_inv_p", "k1_inv_n", "k1_compute">>
      [] fn = "r1" -> <<"r1_mul_p", "r1_mul_n", "r1_inv_p", "r1_inv_n", "r1_compute">>
      [] OTHER     -> <<fn>>

Fixed(fn) == IF Uses(fn) THEN [k \in DOMAIN Curve(fn) |-> Helper(Curve(fn)[k], 0)] ELSE <<>>
used_fixed_helpers == Fixed("curve_add") \o Fixed("poseidon2") \o Fixed("sha256")
                      \o Fixed("keccak") \o Fixed("k1") \o Fixed("r1")

\* The sets of shapes are BTreeSets: each shape once, in ascending order.
Shapes(fn) == {HelperOf(b).shape : b \in {x \in Boxes : x.fn = fn}}
Ascending(S) == CHOOSE s \in [1 .. Cardinality(S) -> S] :
                    \A i, j \in 1 .. Cardinality(S) : i < j => s[i] < s[j]
Shaped(fn) == LET shapes == Ascending(Shapes(fn))
              IN  [k \in DOMAIN shapes |-> Helper(fn, shapes[k])]
used_shaped_helpers == Shaped("msm") \o Shaped("blake2s") \o Shaped("blake3") \o Shaped("aes128")

---------------------------------------------------------------------------
\* Definitions

Signature(name, ins, outs) == [name |-> name, ins |-> ins, outs |-> outs]

\* A definition returns as many values as it declares, or it is not valid.
Definition(sig, calls, returned) == [sig |-> sig, calls |-> calls, returned |-> returned]

HelperIns(h) ==
    CASE h.fn = "msm"       -> h.shape * (3 + ScalarBits) + 1
      [] h.fn = "blake2s"   -> h.shape * BlakeBlock + 2
      [] h.fn = "blake3"    -> h.shape * BlakeBlock + 1
      [] h.fn = "aes128"    -> h.shape + 2 * AesBlock
      [] h.fn = "curve_add" -> 7
      [] h.fn = "poseidon2" -> 4
      [] h.fn = "sha256"    -> 24
      [] h.fn = "keccak"    -> 25
      [] h.fn \in {"k1_mul_p", "k1_mul_n", "r1_mul_p", "r1_mul_n"} -> 8
      [] h.fn \in {"k1_inv_p", "k1_inv_n", "r1_inv_p", "r1_inv_n"} -> 4
      [] h.fn \in {"k1_compute", "r1_compute"} -> 161

\* BlackboxFunction::result_types
HelperOuts(h) ==
    CASE h.fn \in {"msm", "curve_add"}   -> 3
      [] h.fn = "poseidon2"              -> 4
      [] h.fn \in {"blake2s", "blake3"}  -> 32
      [] h.fn = "sha256"                 -> 8
      [] h.fn = "keccak"                 -> 25
      [] h.fn = "aes128"                 -> h.shape
      [] h.fn \in {"k1_compute", "r1_compute"} -> 1
      [] OTHER                           -> 4

HelperSignature(h) == Signature(<<h.fn, h.shape>>, HelperIns(h), HelperOuts(h))

\* The helpers that the body of a helper calls.
Callees(fn) ==
    CASE fn = "k1_inv_p" -> {"k1_mul_p"}
      [] fn = "k1_inv_n" -> {"k1_mul_n"}
      [] fn = "r1_inv_p" -> {"r1_mul_p"}
      [] fn = "r1_inv_n" -> {"r1_mul_n"}
      [] fn = "k1_compute" -> {"k1_mul_p", "k1_mul_n", "k1_inv_p", "k1_inv_n"}
      [] fn = "r1_compute" -> {"r1_mul_p", "r1_mul_n", "r1_inv_p", "r1_inv_n"}
      [] OTHER -> {}

\* emit_cbc_encrypt returns whole blocks only.
HelperDefinition(h) ==
    Definition(HelperSignature(h), {HelperSignature(Helper(fn, 0)) : fn \in Callees(h.fn)},
               IF h.fn = "aes128" THEN (h.shape \div AesBlock) * AesBlock ELSE HelperOuts(h))

\* The call of a black box: the arguments that its ACIR handler assembles, on the results
\* that the registry says.
BoxArguments(b) ==
    CASE b.fn = "msm"     -> b.size + (b.size \div 3) * ScalarBits + 1
      [] b.fn = "blake2s" -> Blocks(b.size) * BlakeBlock + 2
      [] b.fn = "blake3"  -> Blocks(b.size) * BlakeBlock + 1
      [] b.fn = "aes128"  -> b.size + AesBlock + AesBlock
      [] OTHER            -> HelperIns(HelperOf(b))
BoxCall(b, arguments) ==
    Signature(<<HelperOf(b).fn, HelperOf(b).shape>>, arguments, HelperOuts(HelperOf(b)))

\* The handlers of bytecode assemble as many, except that of BLAKE3: it appends the halves
\* of the length, as that of BLAKE2s does.
BrilligBoxArguments(b) ==
    IF b.fn = "blake3" THEN Blocks(b.size) * BlakeBlock + 2 ELSE BoxArguments(b)

\* ok is FALSE when another of its inputs has a wrong shape.
AcirBoxAccepted(b) == b.ok /\ (b.fn = "aes128" => b.size % AesBlock = 0)
                           /\ (b.fn = "msm" => b.size % 3 = 0)
BrilligBoxAccepted(b) == AcirBoxAccepted(b) /\ (b.fn = "aes128" => b.size > 0)

---------------------------------------------------------------------------
\* Circuits

Key(op) == <<op.id, op.ins, op.outs>>
BrilligCalls(c) == {op \in ToSet(Circuits[c]) : op.kind = "brillig"}
Keys(c) == {Key(op) : op \in BrilligCalls(c)}

FunctionSignature(key) == Signature(<<"brillig", key>>, key[2], key[3])
CircuitSignature(c) == Signature(<<"circuit", c>>, 0, 0)

\* Mutant of OpcodeAccepted: the id of a callee is not looked up.
OpcodeAcceptedAnyId(op) ==
    CASE op.kind = "blackbox" -> AcirBoxAccepted(op)
      [] op.kind = "other"    -> op.ok
      [] OTHER                -> TRUE

OpcodeAccepted(op) ==
    CASE op.kind = "blackbox" -> AcirBoxAccepted(op)
      [] op.kind = "call"     -> op.id \in DOMAIN Circuits
      [] op.kind = "brillig"  -> op.id \in DOMAIN Functions
      [] op.kind = "other"    -> op.ok

CircuitCalls(c) ==
    {BoxCall(op, BoxArguments(op)) : op \in {o \in ToSet(Circuits[c]) : o.kind = "blackbox"}}
    \union {CircuitSignature(op.id) : op \in {o \in ToSet(Circuits[c]) : o.kind = "call"}}
    \union {FunctionSignature(key) : key \in Keys(c)}

CircuitDefinition(c) == Definition(CircuitSignature(c), CircuitCalls(c), 0)

---------------------------------------------------------------------------
\* Brillig functions

ProcedureSignature(key, entry) == Signature(<<"proc", key, entry>>, 0, 0)

\* The black boxes and calls of a body that the structurer keeps: dead blocks are gone.
BodyCalls(key, body) ==
    {BoxCall(b, BrilligBoxArguments(b)) : b \in {x \in ToSet(Functions[key[1]].boxes) : x.body = body /\ x.live}}
    \union {ProcedureSignature(key, call.to) :
              call \in {x \in Functions[key[1]].calls : x.body = body}}

FunctionAccepted(key) ==
    LET f == Functions[key[1]]
    IN  f.builds /\ \A b \in ToSet(f.boxes) : b.live => BrilligBoxAccepted(b)

\* The function is inserted before its procedures.
FunctionDefinitions(key) ==
    LET procs == Functions[key[1]].procedures
    IN  <<Definition(FunctionSignature(key), BodyCalls(key, 0), key[3])>>
        \o [p \in DOMAIN procs |->
              Definition(ProcedureSignature(key, procs[p]), BodyCalls(key, procs[p]), 0)]

\* sort_by_key on (id, input_count, output_count)
Before(k, l) == \/ k[1] < l[1]
                \/ k[1] = l[1] /\ k[2] < l[2]
                \/ k[1] = l[1] /\ k[2] = l[2] /\ k[3] <= l[3]
---------------------------------------------------------------------------
Init == /\ program \in Programs
        /\ pc = "helpers"
        /\ helpers = used_fixed_helpers \o used_shaped_helpers
        /\ index = 1
        /\ registry = {} /\ pending = {}
        /\ module = <<>>

EmitHelper ==
    /\ pc = "helpers" /\ helpers # <<>>
    /\ module' = Append(module, HelperDefinition(Head(helpers)))
    /\ helpers' = Tail(helpers)
    /\ UNCHANGED <<program, pc, index, registry, pending>>

HelpersEmitted ==
    /\ pc = "helpers" /\ helpers = <<>>
    /\ pc' = "circuits"
    /\ UNCHANGED <<program, helpers, index, registry, pending, module>>

\* Mutant of Register: the first shape of a function is the only one.
RegisterById(keys) ==
    registry \union {key \in keys : \A other \in registry : other[1] # key[1]}

\* Mutant of Entries: every function of the program.
EntriesAndUncalled == registry \union {<<f, 0, 0>> : f \in DOMAIN Functions}

\* BrilligRegistry::sorted_entries, as a set; Least orders them.
Entries == registry

\* BrilligRegistry::register, for every Brillig call of a circuit.
Register(keys) == registry \union keys

\* CircuitTranslator::translate
TranslateCircuit ==
    /\ pc = "circuits" /\ index <= Len(Circuits)
    /\ \A op \in ToSet(Circuits[index]) : OpcodeAccepted(op)
    /\ registry' = Register(Keys(index))
    /\ module' = Append(module, CircuitDefinition(index))
    /\ index' = index + 1
    /\ UNCHANGED <<program, pc, helpers, pending>>

RefuseCircuit ==
    /\ pc = "circuits" /\ index <= Len(Circuits)
    /\ \E op \in ToSet(Circuits[index]) : ~OpcodeAccepted(op)
    /\ pc' = "refused"
    /\ UNCHANGED <<program, helpers, index, registry, pending, module>>

CircuitsTranslated ==
    /\ pc = "circuits" /\ index > Len(Circuits)
    /\ pc' = "functions"
    /\ pending' = Entries
    /\ UNCHANGED <<program, helpers, index, registry, module>>

Least(key) == key \in pending /\ \A other \in pending : Before(key, other)

\* One iteration of emit_brillig_functions.
EmitFunction ==
    /\ pc = "functions"
    /\ \E key \in pending :
          /\ Least(key) /\ FunctionAccepted(key)
          /\ module' = module \o FunctionDefinitions(key)
          /\ pending' = pending \ {key}
    /\ UNCHANGED <<program, pc, helpers, index, registry>>

RefuseFunction ==
    /\ pc = "functions"
    /\ \E key \in pending : Least(key) /\ ~FunctionAccepted(key)
    /\ pc' = "refused"
    /\ UNCHANGED <<program, helpers, index, registry, pending, module>>

Defined(sig) == \E i \in DOMAIN module : module[i].sig = sig

\* verify_operation_with_diags: symbols are unique, calls resolve to a function of their
\* arity, functions return what they declare.
Verifies ==
    /\ \A i, j \in DOMAIN module : module[i].sig.name = module[j].sig.name => i = j
    /\ \A i \in DOMAIN module : /\ module[i].returned = module[i].sig.outs
                                /\ \A sig \in module[i].calls : Defined(sig)

Verify ==
    /\ pc = "functions" /\ pending = {}
    /\ pc' = IF Verifies THEN "done" ELSE "invalid"
    /\ UNCHANGED <<program, helpers, index, registry, pending, module>>

Finished == pc \in {"done", "refused", "invalid"} /\ UNCHANGED vars

Next == \/ EmitHelper \/ HelpersEmitted \/ TranslateCircuit \/ RefuseCircuit
        \/ CircuitsTranslated \/ EmitFunction \/ RefuseFunction \/ Verify \/ Finished

Spec == Init /\ [][Next]_vars

---------------------------------------------------------------------------
\* Properties

TypeOK ==
    /\ pc \in {"helpers", "circuits", "functions", "done", "refused", "invalid"}
    /\ index \in 1 .. Len(Circuits) + 1
    /\ pending \subseteq registry
    /\ \A key \in registry : key \in Nat \X Nat \X Nat /\ key[1] \in DOMAIN Functions

\* The Brillig functions that circuits call, on the shape they call them with.
CalledKeys == UNION {Keys(c) : c \in DOMAIN Circuits}

\* A length that the AES helper cannot have, in bytecode: the helper is emitted whether
\* the bytecode is or not.
OddAes == \E b \in BrilligBoxes : b.fn = "aes128" /\ b.size % AesBlock # 0

\* BLAKE3 in bytecode that is emitted.
BrilligBlake3 ==
    \E key \in registry : \E b \in ToSet(Functions[key[1]].boxes) : b.fn = "blake3" /\ b.live

\* A module that reaches the verifier passes it: every helper called was found by the
\* search, on the arity of its callers, once; every variant of a Brillig function called
\* is there, once.  There are two exceptions, and with them it never passes: AES of a
\* partial block in any bytecode and BLAKE3 in bytecode that is emitted.
ModuleValid == /\ pc = "invalid" => OddAes \/ BrilligBlake3
               /\ pc = "done" => ~OddAes /\ ~BrilligBlake3

\* "Mul, inv, compute keeps every function.call after its callee's definition."
HelpersInOrder ==
    \A i \in DOMAIN module : \A sig \in module[i].calls :
        sig.name[1] \notin {"circuit", "brillig", "proc"} =>
            \E j \in 1 .. i - 1 : module[j].sig.name = sig.name

\* A call of a Brillig function is registered in the step that emits the call, and is
\* answered by exactly the variants emitted when nothing is pending.
CallsRegistered ==
    \A i \in DOMAIN module : \A sig \in module[i].calls :
        sig.name[1] = "brillig" =>
            /\ sig.name[2] \in registry
            /\ pc \in {"functions", "done"} => sig.name[2] \in pending \/ Defined(sig)

\* Bytecode that no circuit calls never stops a translation.
OnlyCalledRefused ==
    pc = "refused" =>
        \/ \E c \in DOMAIN Circuits : \E op \in ToSet(Circuits[c]) : ~OpcodeAccepted(op)
        \/ \E key \in CalledKeys : ~FunctionAccepted(key)
=============================================================================

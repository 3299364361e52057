------------------------------ MODULE MCDriver ------------------------------
(* Programs of one or two circuits and up to three functions, over one black *)
(* box of each kind and the sizes at the edges of a block.                   *)
EXTENDS Driver

Box(fn, size, ok) == [kind |-> "blackbox", fn |-> fn, size |-> size, ok |-> ok]
Brillig(id, ins, outs) == [kind |-> "brillig", id |-> id, ins |-> ins, outs |-> outs]
CallOp(id) == [kind |-> "call", id |-> id]
Other(ok) == [kind |-> "other", ok |-> ok]

Ops == {Box("msm", 6, TRUE), Box("blake2s", 0, TRUE), Box("blake2s", 65, TRUE), Box("blake3", 64, TRUE),
        Box("aes128", 16, TRUE), Box("aes128", 0, TRUE), Box("aes128", 17, TRUE),
        Box("curve_add", 0, TRUE), Box("poseidon2", 4, TRUE), Box("poseidon2", 4, FALSE),
        Box("sha256", 0, TRUE), Box("keccak", 0, TRUE), Box("k1", 0, TRUE), Box("r1", 0, TRUE),
        Brillig(1, 1, 1), Brillig(1, 2, 1), Brillig(1, 1, 2), Brillig(2, 1, 1), Brillig(3, 0, 0),
        CallOp(1), CallOp(2), Other(TRUE), Other(FALSE)}

\* Two circuits share the functions they call, in either order of their shapes.
Few == {Box("msm", 6, TRUE), Box("blake2s", 64, TRUE), Box("k1", 0, TRUE), Brillig(1, 1, 1),
        Brillig(1, 2, 1), Brillig(2, 1, 1), CallOp(2)}

SeqsOf(S) == {<<>>} \union {<<x>> : x \in S} \union {<<x, y>> : x \in S, y \in S}
CircuitLists == {<<c>> : c \in SeqsOf(Ops)} \union {<<c, d>> : c \in SeqsOf(Few), d \in SeqsOf(Few)}

InBody(body, live, box) == [fn |-> box.fn, size |-> box.size, ok |-> box.ok, body |-> body, live |-> live]
Function(builds, procedures, boxes, calls) ==
    [builds |-> builds, procedures |-> procedures, boxes |-> boxes, calls |-> calls]
Plain == Function(TRUE, <<>>, <<>>, {})

\* A helper used in a procedure only, in a dead block, in bytecode that is not translated,
\* on sizes that are refused.
WithProcedures ==
    Function(TRUE, <<3, 7>>, <<InBody(3, TRUE, Box("blake3", 65, TRUE)), InBody(0, FALSE, Box("sha256", 0, FALSE))>>,
             {[body |-> 0, to |-> 3], [body |-> 3, to |-> 7]})
Curves == Function(TRUE, <<>>, <<InBody(0, TRUE, Box("r1", 0, TRUE)), InBody(0, TRUE, Box("k1", 0, TRUE)),
                                 InBody(0, TRUE, Box("msm", 3, TRUE))>>, {})
Unstructured == Function(FALSE, <<>>, <<InBody(0, TRUE, Box("keccak", 0, TRUE))>>, {})
Partial == Function(TRUE, <<>>, <<InBody(0, TRUE, Box("aes128", 17, TRUE))>>, {})
Empty == Function(TRUE, <<>>, <<InBody(0, TRUE, Box("aes128", 0, TRUE))>>, {})

FunctionLists == {<<>>, <<Plain>>, <<WithProcedures, Curves>>, <<Curves, Unstructured>>, <<Partial, Plain>>,
                  <<Plain, Empty>>, <<Unstructured, WithProcedures>>}

AllPrograms == {[circuits |-> cs, functions |-> fs] : cs \in CircuitLists, fs \in FunctionLists}
=============================================================================

----------------------------- MODULE MCGrumpkin -----------------------------
(* The curve y^2 = x^3 - 11 over F_13: its order, 19, is a prime above the   *)
(* field's as Grumpkin's is, and needs five bits, here 3 + 2 for 128 + 126.  *)
EXTENDS Grumpkin

MCCurveB == -11
G == <<1, 4, 0>>
MinusG == <<1, 9, 0>>
TwoG == Formula(G, G, TRUE)

\* Points as the program passes them: finite, at infinity with zero and with other
\* coordinates, off the curve, with a flag that is no boolean.
Finite == {<<p[1], p[2], 0>> : p \in CurvePoints}
Inputs == Finite \union {Infinity, <<3, 5, 1>>, <<1, 4, 1>>, <<1, 1, 0>>, <<5, 0, 0>>, <<1, 4, 2>>}

Opcode(fn, points, scalars, predicate) ==
    [fn |-> fn, points |-> points, scalars |-> scalars, predicate |-> predicate]

Adds == {Opcode("add", <<p, q>>, <<>>, predicate) :
           p \in Inputs, q \in Inputs, predicate \in {0, 1, 2}}

\* Limbs within and beyond their bits, scalars below and above the order.
Limbs == (0 .. 8 \union {P - 1}) \X (0 .. 4)
Ones == {Opcode("msm", <<p>>, <<s>>, predicate) :
           p \in {G, Infinity, <<3, 5, 1>>, <<1, 1, 0>>, <<1, 4, 2>>}, s \in Limbs,
           predicate \in {0, 1, 2}}

Pairs == {Opcode("msm", <<p, q>>, <<s, t>>, 1) :
            p \in {G, <<3, 5, 1>>}, q \in {G, MinusG, TwoG},
            s \in {<<0, 0>>, <<1, 0>>, <<2, 2>>, <<7, 1>>}, t \in {<<1, 0>>, <<2, 2>>, <<3, 2>>}}

AllCalls == Adds \union Ones \union Pairs \union {Opcode("msm", <<>>, <<>>, 1)}

\* Every string of bits, and a few with a digit that is no bit.
AllBits == [1 .. TotalBits -> {0, 1}] \union
           {[[i \in 1 .. TotalBits |-> 0] EXCEPT ![k] = v] : k \in 1 .. TotalBits, v \in {2, P - 1}}
=============================================================================

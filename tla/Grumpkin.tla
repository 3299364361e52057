------------------------------ MODULE Grumpkin ------------------------------
(***************************************************************************)
(* The Grumpkin opcodes EmbeddedCurveAdd and MultiScalarMul: the helpers    *)
(* (blackboxes/grumpkin) and the two sides of the opcodes that call them    *)
(* (opcodes/grumpkin).  A behaviour is one opcode: @compute derives the     *)
(* bits of the scalars and calls the helper, a prover then chooses the bits *)
(* and the outputs, and @constrain checks them.  The comparison of a scalar *)
(* with the group order and the loops of the helper advance one bit a step. *)
(***************************************************************************)
EXTENDS PrimeField

CONSTANTS CurveB,         \* GRUMPKIN_B: the curve is y^2 = x^3 + CurveB
          LowBits,        \* SCALAR_LOW_BITS
          HighBits,       \* SCALAR_HIGH_BITS
          ScalarModulus,  \* the order of the curve's group
          Calls,          \* the opcodes to explore, with the values of their inputs
          BitChoices      \* what the prover may choose for the bits of a scalar

TotalBits == LowBits + HighBits

ASSUME GrumpkinAssumption ==
    /\ LowBits \in Nat \ {0} /\ HighBits \in Nat \ {0}
    /\ ScalarModulus \in 1 .. TwoTo(TotalBits) - 1
    /\ P # 2  \* the formulas divide by two
    /\ TwoTo(LowBits) <= P /\ TwoTo(HighBits) <= P  \* a limb is one felt
    /\ CurveB \in Int
    /\ BitChoices \subseteq [1 .. TotalBits -> F]
    /\ \A c \in Calls :
          /\ c.fn \in {"add", "msm"} /\ c.predicate \in F
          /\ c.points \in Seq(F \X F \X F) /\ c.scalars \in Seq(F \X F)
          /\ c.fn = "add" => Len(c.points) = 2 /\ c.scalars = <<>>
          /\ c.fn = "msm" => Len(c.points) = Len(c.scalars)

VARIABLES call,       \* the opcode
          side,       \* "compute" or "constrain"
          pc,         \* what runs next
          bits,       \* the bits of every scalar, low to high
          output,     \* the outputs: of the helper, then of the witness
          point, bit, \* the point and the bit a loop is at
          multiple,   \* scalar_mul's accumulator
          sum,        \* emit_multi_scalar_mul_result's accumulator
          prefix,     \* prefix_equal of emit_scalar_constraints
          holds,      \* are the constraints checked so far satisfied?
          scalarTop, modulusTop  \* history: the bits compared so far, as numbers

loop == <<point, bit, multiple, sum>>
comparison == <<prefix, scalarTop, modulusTop>>
vars == <<call, side, pc, bits, output, point, bit, multiple, sum, prefix, holds,
          scalarTop, modulusTop>>

---------------------------------------------------------------------------
\* A point is <<x, y, inf>>.

Infinity == <<0, 0, 1>>

\* The chord through two points, or the tangent (AffinePointValue::formula).
Formula(p, q, doubling) ==
    LET lambda == IF doubling
                  THEN Div(Times(3, Times(p[1], p[1])), Times(2, p[2]))
                  ELSE Div(Minus(q[2], p[2]), Minus(q[1], p[1]))
        x == Minus(Times(lambda, lambda), Plus(p[1], IF doubling THEN p[1] ELSE q[1]))
    IN  <<x, Minus(Times(lambda, Minus(p[1], x)), p[2]), 0>>

\* Mutant of AffineAdd: opposite points are doubled.
AffineAddNoInverse(p, q) ==
    IF p[1] # q[1] THEN Formula(p, q, FALSE)
    ELSE IF p[2] = 0 THEN Infinity ELSE Formula(p, q, TRUE)

AffineAdd(p, q) ==
    IF p[1] # q[1] THEN Formula(p, q, FALSE)
    ELSE IF p[2] # q[2] \/ p[2] = 0 THEN Infinity
    ELSE Formula(p, q, TRUE)

\* The operand that is not at infinity is returned as it came, coordinates and flag.
Add(p, q) == IF p[3] # 0 THEN q
             ELSE IF q[3] # 0 THEN p
             ELSE AffineAdd(p, q)

EmbeddedCurveAdd(p, q, predicate) == IF predicate = 1 THEN Add(p, q) ELSE Infinity

---------------------------------------------------------------------------
\* Constraints

Gated(gate, lhs, rhs) == Times(gate, Minus(lhs, rhs)) = 0

IsBool(v) == Times(v, Minus(1, v)) = 0

GatedBoolean(gate, v) == Gated(gate, Times(v, Minus(1, v)), 0)

PredicateGate == IF call.predicate = 1 THEN 1 ELSE 0

GatedOnCurve(gate, p) ==
    Gated(gate, Times(p[2], p[2]), Plus(Times(Times(p[1], p[1]), p[1]), CurveB))

\* Mutant of PointConstraints: the curve equation is forgotten.
PointConstraintsNoCurve ==
    \A p \in Range(call.points) : GatedBoolean(PredicateGate, p[3])

PointConstraints ==
    \A p \in Range(call.points) :
        /\ GatedBoolean(PredicateGate, p[3])
        /\ GatedOnCurve(Times(PredicateGate, Minus(1, p[3])), p)

Reconstruct(digits) == Sum([i \in DOMAIN digits |-> Times(digits[i], Pow2(i - 1))])

\* emit_scalar_constraints up to the comparison.
ScalarConstraints(limbs, digits) ==
    /\ \A i \in 1 .. TotalBits : GatedBoolean(PredicateGate, digits[i])
    /\ Gated(PredicateGate, Reconstruct(SubSeq(digits, 1, LowBits)), limbs[1])
    /\ Gated(PredicateGate, Reconstruct(SubSeq(digits, LowBits + 1, TotalBits)), limbs[2])

ModulusBit(i) == (ScalarModulus \div TwoTo(i - 1)) % 2

\* Mutant of Peeled: off by one.
PeeledOneMore(limb, count) == [i \in 1 .. count + 1 |-> (limb \div TwoTo(i - 1)) % 2]

\* peel_bits_le: the digits, and what remains of the limb.
Peeled(limb, count) == [i \in 1 .. count |-> (limb \div TwoTo(i - 1)) % 2]
Remainder(limb, count) == limb \div TwoTo(count)

---------------------------------------------------------------------------
Init == /\ call \in Calls
        /\ side = "compute" /\ pc = call.fn
        /\ bits = <<>> /\ output = Infinity
        /\ point = 1 /\ bit = TotalBits /\ multiple = Infinity /\ sum = Infinity
        /\ prefix = 1 /\ holds = TRUE /\ scalarTop = 0 /\ modulusTop = 0

\* EmbeddedCurveAdd::emit_compute
ComputeAdd ==
    /\ pc = "add" /\ side = "compute"
    /\ output' = EmbeddedCurveAdd(call.points[1], call.points[2], call.predicate)
    /\ pc' = "computed"
    /\ UNCHANGED <<call, side, bits, loop, comparison, holds>>

\* MultiScalarMul::emit_compute: a limb that does not fit its bits stops it, whatever the
\* predicate.
ComputeBits ==
    /\ pc = "msm" /\ side = "compute"
    /\ bits' = [k \in DOMAIN call.scalars |->
                   Peeled(call.scalars[k][1], LowBits) \o Peeled(call.scalars[k][2], HighBits)]
    /\ pc' = IF \A k \in DOMAIN call.scalars :
                    /\ Remainder(call.scalars[k][1], LowBits) = 0
                    /\ Remainder(call.scalars[k][2], HighBits) = 0
             THEN "helper" ELSE "trap"
    /\ UNCHANGED <<call, side, output, loop, comparison, holds>>

\* @multi_scalar_mul_<n>
Returns(value) ==
    IF side = "compute"
    THEN output' = value /\ pc' = "computed" /\ UNCHANGED holds
    ELSE /\ holds' = (output = value)
         /\ pc' = "verdict" /\ UNCHANGED output

SkipHelper ==
    /\ pc = "helper" /\ call.predicate # 1
    /\ Returns(Infinity)
    /\ UNCHANGED <<call, side, bits, loop, comparison>>

\* One bit of scalar_mul, high to low.
DoubleAndAdd ==
    /\ pc = "helper" /\ call.predicate = 1
    /\ point <= Len(call.points) /\ bit > 0
    /\ LET doubled == Add(multiple, multiple)
       IN  multiple' = IF bits[point][bit] = 1 THEN Add(doubled, call.points[point])
                                               ELSE doubled
    /\ bit' = bit - 1
    /\ UNCHANGED <<call, side, pc, bits, output, point, sum, comparison, holds>>

Accumulate ==
    /\ pc = "helper" /\ call.predicate = 1
    /\ point <= Len(call.points) /\ bit = 0
    /\ sum' = Add(sum, multiple)
    /\ point' = point + 1 /\ bit' = TotalBits /\ multiple' = Infinity
    /\ UNCHANGED <<call, side, pc, bits, output, comparison, holds>>

FinishHelper ==
    /\ pc = "helper" /\ call.predicate = 1 /\ point > Len(call.points)
    /\ Returns(sum)
    /\ UNCHANGED <<call, side, bits, loop, comparison>>

\* A prover's witness: the computed outputs or others, and any bits.  The constraints on
\* the inputs and the reconstruction of the limbs are checked at once.
Prove ==
    /\ pc \in {"computed", "trap"}
    /\ side' = "constrain"
    /\ output' \in {output, Infinity} \union Range(call.points)
    /\ bits' \in [DOMAIN call.scalars -> BitChoices]
    /\ holds' = (/\ IsBool(call.predicate)
                 /\ PointConstraints
                 /\ \A k \in DOMAIN call.scalars : ScalarConstraints(call.scalars[k], bits'[k]))
    /\ pc' = IF ~holds' THEN "verdict" ELSE IF call.fn = "add" THEN "add" ELSE "compare"
    /\ point' = 1 /\ bit' = TotalBits /\ multiple' = Infinity /\ sum' = Infinity
    /\ prefix' = 1 /\ scalarTop' = 0 /\ modulusTop' = 0
    /\ UNCHANGED call

\* EmbeddedCurveAdd::emit_constrain, the helper's call.
ConstrainAdd ==
    /\ pc = "add" /\ side = "constrain"
    /\ holds' = (output = EmbeddedCurveAdd(call.points[1], call.points[2], call.predicate))
    /\ pc' = "verdict"
    /\ UNCHANGED <<call, side, bits, output, loop, comparison>>

\* Mutant of NextPrefix: the prefix is not narrowed where the modulus has a zero.
NextPrefixAlways(digit) == Times(prefix, digit)

\* The prefixes stay equal only through a one of both.
NextPrefix(digit) == IF ModulusBit(bit) = 1 THEN Times(prefix, digit) ELSE prefix

\* One bit of the comparison of emit_scalar_constraints, high to low.
CompareBit ==
    /\ pc = "compare" /\ point <= Len(call.scalars) /\ bit > 0
    /\ LET digit == bits[point][bit]
       IN  /\ holds' = (holds /\ (\/ ModulusBit(bit) = 1
                                  \/ Gated(PredicateGate, Times(prefix, digit), 0)))
           /\ prefix' = NextPrefix(digit)
           /\ scalarTop' = 2 * scalarTop + digit
    /\ modulusTop' = 2 * modulusTop + ModulusBit(bit)
    /\ bit' = bit - 1
    /\ UNCHANGED <<call, side, pc, bits, output, point, multiple, sum>>

\* The last constraint of a scalar: it does not equal the modulus.
CompareEnd ==
    /\ pc = "compare" /\ point <= Len(call.scalars) /\ bit = 0
    /\ holds' = (holds /\ Gated(PredicateGate, prefix, 0))
    /\ pc' = IF holds' THEN pc ELSE "verdict"
    /\ point' = point + 1 /\ bit' = TotalBits
    /\ prefix' = 1 /\ scalarTop' = 0 /\ modulusTop' = 0
    /\ UNCHANGED <<call, side, bits, output, multiple, sum>>

Compared ==
    /\ pc = "compare" /\ point > Len(call.scalars)
    /\ pc' = "helper"
    /\ point' = 1
    /\ UNCHANGED <<call, side, bits, output, bit, multiple, sum, comparison, holds>>

Verdict == pc = "verdict" /\ UNCHANGED vars

Next == \/ ComputeAdd \/ ComputeBits \/ SkipHelper \/ DoubleAndAdd \/ Accumulate
        \/ FinishHelper \/ Prove \/ ConstrainAdd \/ CompareBit \/ CompareEnd \/ Compared
        \/ Verdict

Spec == Init /\ [][Next]_vars

---------------------------------------------------------------------------
\* Reference: the group of the curve by chords and tangents; the point at infinity is <<>>.

OnCurve(p) == Times(p[2], p[2]) = Plus(Times(p[1], Times(p[1], p[1])), CurveB)
CurvePoints == {p \in F \X F : OnCurve(p)}
Elements == {<<>>} \union CurvePoints

Opposite(p) == IF p = <<>> THEN p ELSE <<p[1], Neg(p[2])>>

\* The line y = m x + k meets the curve in p, q and r: the three are the roots of
\* x^3 + CurveB - (m x + k)^2.
Collinear(p, q, r) ==
    \E m, k \in F :
        /\ \A s \in {p, q, r} : s[2] = Plus(Times(m, s[1]), k)
        /\ Plus(p[1], Plus(q[1], r[1])) = Times(m, m)
        /\ Plus(Times(p[1], q[1]), Plus(Times(q[1], r[1]), Times(p[1], r[1]))) = Times(-2, Times(m, k))
        /\ Times(p[1], Times(q[1], r[1])) = Minus(Times(k, k), CurveB)

GroupLaw(p, q) ==
    IF p = <<>> THEN q ELSE IF q = <<>> THEN p
    ELSE IF q = Opposite(p) THEN <<>>
    ELSE Opposite(CHOOSE r \in CurvePoints : Collinear(p, q, r))
GroupSum == [pair \in Elements \X Elements |-> GroupLaw(pair[1], pair[2])]

\* The chords and tangents of a curve make a group: the classical fact the helper rests on.
ASSUME AssociativityAssumption ==
    \A p, q, r \in Elements : GroupSum[GroupSum[p, q], r] = GroupSum[p, GroupSum[q, r]]

\* k p, for k below 2^TotalBits
GroupMultiple ==
    [p \in Elements |->
        LET times[k \in 0 .. TwoTo(TotalBits) - 1] ==
                IF k = 0 THEN <<>> ELSE GroupSum[times[k - 1], p]
        IN  [k \in 0 .. TwoTo(TotalBits) - 1 |-> times[k]]]

ValidPoint(p) == p[3] = 1 \/ (p[3] = 0 /\ OnCurve(p))
Element(p) == IF p[3] = 1 THEN <<>> ELSE <<p[1], p[2]>>
ValidPoints == \A p \in Range(call.points) : ValidPoint(p)

ScalarOf(limbs) == limbs[1] + TwoTo(LowBits) * limbs[2]
ValidScalar(limbs) ==
    /\ limbs[1] < TwoTo(LowBits) /\ limbs[2] < TwoTo(HighBits)
    /\ ScalarOf(limbs) < ScalarModulus

BitsValue(digits) ==
    LET value[i \in 0 .. TotalBits] ==
            IF i = 0 THEN 0 ELSE value[i - 1] + digits[i] * TwoTo(i - 1)
    IN  value[TotalBits]

\* The sum of the first n terms of the opcode.
PartialSum(n) ==
    IF call.fn = "add" THEN GroupSum[Element(call.points[1]), Element(call.points[2])]
    ELSE LET total[i \in 0 .. n] ==
                 IF i = 0 THEN <<>>
                 ELSE GroupSum[total[i - 1],
                               GroupMultiple[Element(call.points[i])][BitsValue(bits[i])]]
         IN  total[n]

---------------------------------------------------------------------------
\* Properties

\* Registers hold felts, and the loops stay within the scalars.
TypeOK ==
    /\ \A p \in {output, multiple, sum} : p \in F \X F \X F
    /\ \A k \in DOMAIN bits : bits[k] \in [1 .. TotalBits -> F]
    /\ point \in 1 .. Len(call.points) + 1 /\ bit \in 0 .. TotalBits
    /\ prefix \in F /\ holds \in BOOLEAN

\* The prefix the comparison keeps means what its name says, and a constraint has failed
\* exactly when the bits read so far exceed the modulus's.
CompareExact ==
    (pc = "compare" /\ call.predicate = 1) =>
        /\ holds /\ prefix = 1 => scalarTop = modulusTop
        /\ holds /\ prefix # 1 => prefix = 0 /\ scalarTop < modulusTop
        /\ ~holds => scalarTop > modulusTop

\* Halfway through scalar_mul the accumulator is the multiple by the bits read so far:
\* doubling and adding never meets a pair of points the formulas do not cover.
PrefixMultiple ==
    (pc = "helper" /\ call.predicate = 1 /\ ValidPoints /\ point <= Len(call.points)) =>
        /\ ValidPoint(multiple) /\ ValidPoint(sum)
        /\ Element(multiple) = GroupMultiple[Element(call.points[point])]
                                            [BitsValue(bits[point]) \div TwoTo(bit)]
        /\ Element(sum) = PartialSum(point - 1)

\* What the opcode relates: a boolean predicate; when it is zero, the point at infinity;
\* when it is one, points of the curve, scalars below the group order, their bits and
\* their combination.
Relation ==
    /\ call.predicate \in {0, 1}
    /\ call.predicate = 0 => output = Infinity
    /\ call.predicate = 1 =>
          /\ ValidPoints /\ ValidPoint(output)
          /\ \A k \in DOMAIN call.scalars :
                /\ ValidScalar(call.scalars[k])
                /\ \A i \in 1 .. TotalBits : bits[k][i] \in {0, 1}
                /\ BitsValue(bits[k]) = ScalarOf(call.scalars[k])
          /\ Element(output) = PartialSum(Len(call.points))

\* @constrain accepts nothing but the relation, and all of it when the points at infinity
\* have zero coordinates: other coordinates of theirs reach the output unchanged.
AcceptsRelation ==
    (pc = "verdict" /\ side = "constrain") =>
        /\ holds => Relation
        /\ Relation /\ (\A p \in Range(call.points) \union {output} : p[3] = 1 => p = Infinity)
              => holds

=============================================================================

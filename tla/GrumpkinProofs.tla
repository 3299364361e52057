--------------------------- MODULE GrumpkinProofs ---------------------------
(* EmbeddedCurveAdd and MultiScalarMul, for every number of bits, every       *)
(* group order, every prime field, every curve and every opcode: the          *)
(* comparison of a scalar with the order is exact, every register holds a     *)
(* point or a felt, scalar_mul's accumulator is the multiple it should be,    *)
(* and the verdict of @constrain is the relation of the opcode.               *)
EXTENDS Grumpkin, FieldProofs

USE DEF TotalBits

\* The gate of a true predicate is no gate: what it multiplies must vanish.
LEMMA OpenGate ==
    ASSUME NEW a \in F, Gated(1, a, 0)
    PROVE  a = 0
<1>1. Minus(a, 0) = a
  BY FeltIsResidue, PrimeAssumption DEF Minus, F
<1>2. Times(1, a) = a
  BY FeltIsResidue, PrimeAssumption DEF Times, F
<1> QED BY <1>1, <1>2 DEF Gated

\* emit_gated_boolean constrains its value to be a bit: P has no zero divisors.
LEMMA BooleanFelt ==
    ASSUME NEW v \in F, GatedBoolean(1, v)
    PROVE  v \in {0, 1}
<1> DEFINE w == Minus(1, v)
           z == Times(v, w)
<1>1. w \in F
  BY SmallFelts, MinusZero
<1>2. z \in F
  BY <1>1, TimesZero
<1>3. Gated(1, z, 0)
  BY DEF GatedBoolean
<1> HIDE DEF z
<1>4. z = 0
  BY <1>2, <1>3, OpenGate
<1> QED BY <1>4, BitConstraint DEF z

\* The product of two bits is a bit.
LEMMA BitProduct ==
    ASSUME NEW a \in {0, 1}, NEW b \in {0, 1}
    PROVE  Times(a, b) = (IF a = 1 /\ b = 1 THEN 1 ELSE 0)
<1>1. 0 \in F /\ 1 \in F
  BY PrimeAssumption DEF F
<1> QED BY <1>1, FeltIsResidue DEF Times

\* A binary digit of a number is a bit.
LEMMA DigitIsBit ==
    ASSUME NEW a \in Nat, NEW i \in Nat \ {0}
    PROVE  (a \div TwoTo(i - 1)) % 2 \in {0, 1}
<1> DEFINE m == TwoTo(i - 1)
<1>1. m \in Nat \ {0}
  <2>1. i - 1 \in Nat /\ i - 1 \in 0 .. i - 1
    OBVIOUS
  <2> QED BY <2>1, PowersGrow
<1> HIDE DEF m
<1>2. a \div m \in Int
  BY <1>1
<1> QED BY <1>2 DEF m

\* A bit of the modulus is a bit.
LEMMA ModulusBitIsBit ==
    ASSUME NEW i \in Nat \ {0}
    PROVE  ModulusBit(i) \in {0, 1}
<1>1. ScalarModulus \in Nat
  BY GrumpkinAssumption
<1> QED BY <1>1, DigitIsBit DEF ModulusBit

---------------------------------------------------------------------------
\* While scalars are compared, their digits are bits when the predicate is one.
Comparing ==
    /\ call \in Calls
    /\ point \in Nat \ {0}
    /\ bit \in 0 .. TotalBits
    /\ call.predicate = 1 =>
          /\ scalarTop \in Int /\ modulusTop \in Int
          /\ \A k \in DOMAIN call.scalars, i \in 1 .. TotalBits : bits[k][i] \in {0, 1}
    /\ holds \in BOOLEAN

\* The inductive invariant: CompareExact and the range of what it speaks of.
CompareInv == call \in Calls /\ (pc = "compare" => Comparing) /\ CompareExact

\* Nothing is compared in the initial states.
LEMMA InitCompare == Init => CompareInv
BY GrumpkinAssumption DEF Init, CompareInv, CompareExact

\* The constraints checked before the comparison make the digits bits.
LEMMA ProveCompare == CompareInv /\ Prove => CompareInv'
<1>1. SUFFICES ASSUME CompareInv, Prove PROVE CompareInv'
  OBVIOUS
<1>2. call' = call /\ call \in Calls /\ call'.scalars = call.scalars
  BY <1>1 DEF Prove, CompareInv
<1>3. CompareExact'
  BY <1>1 DEF Prove, CompareExact
<1>4. ASSUME pc' = "compare" PROVE Comparing'
  <2>1. holds' = TRUE
    BY <1>1, <1>4 DEF Prove
  <2>2. \A k \in DOMAIN call.scalars : ScalarConstraints(call.scalars[k], bits'[k])
    BY <1>1, <2>1 DEF Prove
  <2>3. \A k \in DOMAIN call.scalars, i \in 1 .. TotalBits : bits'[k][i] \in F
    BY <1>1, GrumpkinAssumption DEF Prove
  <2>4. ASSUME call.predicate = 1, NEW k \in DOMAIN call.scalars, NEW i \in 1 .. TotalBits
        PROVE  bits'[k][i] \in {0, 1}
    <3>1. GatedBoolean(1, bits'[k][i])
      BY <2>2, <2>4 DEF ScalarConstraints, PredicateGate
    <3> QED BY <2>3, <3>1, BooleanFelt
  <2>5. TotalBits \in Nat
    BY GrumpkinAssumption
  <2> QED BY <1>1, <1>2, <2>1, <2>4, <2>5 DEF Prove, Comparing
<1> QED BY <1>2, <1>3, <1>4 DEF CompareInv

\* One bit: the numbers read so far grow by a bit each, and stay in the order that the
\* prefix and the constraints say.
LEMMA BitCompare == CompareInv /\ CompareBit => CompareInv'
<1>1. SUFFICES ASSUME CompareInv, CompareBit PROVE CompareInv'
  OBVIOUS
<1> DEFINE digit == bits[point][bit]
<1>2. Comparing /\ pc = "compare" /\ pc' = pc /\ call' = call /\ bits' = bits
  BY <1>1 DEF CompareInv, CompareBit
<1>3. bit \in 1 .. TotalBits /\ bit' = bit - 1 /\ point' = point
  BY <1>1, <1>2 DEF CompareBit, Comparing
<1>4. ModulusBit(bit) \in {0, 1}
  BY <1>3, GrumpkinAssumption, ModulusBitIsBit
<1>5. /\ scalarTop' = 2 * scalarTop + digit /\ modulusTop' = 2 * modulusTop + ModulusBit(bit)
      /\ holds' \in BOOLEAN
  BY <1>1 DEF CompareBit
<1>6. ASSUME call.predicate = 1 PROVE CompareExact'
  <2>1. point \in DOMAIN call.scalars
    BY <1>1, <1>2, GrumpkinAssumption DEF CompareBit, Comparing
  <2>2. digit \in {0, 1}
    BY <1>2, <1>3, <1>6, <2>1 DEF Comparing
  <2>3. /\ holds /\ prefix = 1 => scalarTop = modulusTop
        /\ holds /\ prefix # 1 => prefix = 0 /\ scalarTop < modulusTop
        /\ ~holds => scalarTop > modulusTop
    BY <1>1, <1>2, <1>6 DEF CompareInv, CompareExact
  <2>4. prefix' = IF ModulusBit(bit) = 1 THEN Times(prefix, digit) ELSE prefix
    BY <1>1 DEF CompareBit, NextPrefix
  <2>5. holds' = (holds /\ (ModulusBit(bit) = 1 \/ Gated(1, Times(prefix, digit), 0)))
    BY <1>1, <1>6 DEF CompareBit, PredicateGate
  <2>6. scalarTop \in Int /\ modulusTop \in Int /\ holds \in BOOLEAN
    BY <1>2, <1>6 DEF Comparing
  <2> HIDE DEF digit
  <2>7. CASE holds
    <3>1. prefix \in {0, 1}
      BY <2>3, <2>7
    <3>2. Times(prefix, digit) = IF prefix = 1 /\ digit = 1 THEN 1 ELSE 0
      BY <2>2, <3>1, BitProduct
    <3>3. Gated(1, Times(prefix, digit), 0) <=> Times(prefix, digit) = 0
      <4>1. Times(prefix, digit) \in F
        BY <3>2, PrimeAssumption DEF F
      <4>2. Gated(1, 0, 0)
        BY PrimeAssumption, FeltIsResidue DEF Gated, Times, Minus, F
      <4> QED BY <4>1, <4>2, OpenGate
    <3>4. scalarTop' = 2 * scalarTop + digit /\ modulusTop' = 2 * modulusTop + ModulusBit(bit)
      BY <1>5 DEF digit
    <3>5. CASE ModulusBit(bit) = 1
      <4>1. holds' /\ prefix' = (IF prefix = 1 /\ digit = 1 THEN 1 ELSE 0)
        BY <2>4, <2>5, <2>7, <3>2, <3>5
      <4> QED BY <2>2, <2>3, <2>6, <2>7, <3>1, <3>4, <3>5, <4>1 DEF CompareExact
    <3>6. CASE ModulusBit(bit) = 0
      <4>1. ModulusBit(bit) # 1
        BY <3>6
      <4>2. Times(prefix, digit) = 0 <=> ~(prefix = 1 /\ digit = 1)
        BY <3>2
      <4>3. holds' <=> ~(prefix = 1 /\ digit = 1)
        BY <2>5, <2>7, <3>3, <4>1, <4>2, Zenon
      <4>4. prefix' = prefix
        BY <2>4, <4>1
      <4> QED BY <2>2, <2>3, <2>6, <2>7, <3>1, <3>4, <3>6, <4>3, <4>4 DEF CompareExact
    <3> QED BY <1>4, <3>5, <3>6
  <2>8. CASE ~holds
    <3>1. scalarTop' = 2 * scalarTop + digit /\ modulusTop' = 2 * modulusTop + ModulusBit(bit)
      BY <1>5 DEF digit
    <3>2. ~holds' /\ scalarTop > modulusTop
      BY <2>3, <2>5, <2>8
    <3> QED BY <1>4, <2>2, <2>6, <3>1, <3>2 DEF CompareExact
  <2> QED BY <2>6, <2>7, <2>8
<1>7. ASSUME call.predicate # 1 PROVE CompareExact'
  BY <1>2, <1>7 DEF CompareExact
<1>8. ASSUME call.predicate = 1 PROVE scalarTop' \in Int /\ modulusTop' \in Int
  <2>1. point \in DOMAIN call.scalars
    BY <1>1, <1>2, GrumpkinAssumption DEF CompareBit, Comparing
  <2>2. digit \in {0, 1}
    BY <1>2, <1>3, <1>8, <2>1 DEF Comparing
  <2> QED BY <1>2, <1>4, <1>5, <1>8, <2>2 DEF Comparing
<1>9. Comparing'
  BY <1>2, <1>3, <1>5, <1>8, GrumpkinAssumption DEF Comparing
<1>10. CompareExact'
  BY <1>6, <1>7
<1> QED BY <1>2, <1>9, <1>10 DEF CompareInv, Comparing

\* The end of a scalar: if the constraints still hold the next one starts afresh.
LEMMA EndCompare == CompareInv /\ CompareEnd => CompareInv'
<1>1. SUFFICES ASSUME CompareInv, CompareEnd PROVE CompareInv'
  OBVIOUS
<1>2. Comparing /\ call' = call /\ bits' = bits /\ call \in Calls
  BY <1>1 DEF CompareInv, CompareEnd
<1>3. /\ point' = point + 1 /\ bit' = TotalBits /\ prefix' = 1
      /\ scalarTop' = 0 /\ modulusTop' = 0 /\ holds' \in BOOLEAN
      /\ pc' = "compare" => holds'
  BY <1>1 DEF CompareEnd
<1>4. CompareExact'
  BY <1>3 DEF CompareExact
<1>5. Comparing'
  BY <1>2, <1>3, GrumpkinAssumption DEF Comparing
<1> QED BY <1>2, <1>4, <1>5 DEF CompareInv

\* The invariant is inductive.
THEOREM CompareInvariant == Spec => []CompareInv
<1>1. Init => CompareInv
  BY InitCompare
<1>2. CompareInv /\ [Next]_vars => CompareInv'
  <2>1. SUFFICES ASSUME CompareInv, [Next]_vars PROVE CompareInv'
    OBVIOUS
  <2>2. ASSUME pc' # "compare", call' = call PROVE CompareInv'
    BY <2>1, <2>2 DEF CompareInv, CompareExact
  <2>3. CASE ComputeAdd
    BY <2>2, <2>3 DEF ComputeAdd
  <2>4. CASE ComputeBits
    BY <2>2, <2>4 DEF ComputeBits
  <2>5. CASE SkipHelper
    BY <2>2, <2>5 DEF SkipHelper, Returns
  <2>6. CASE DoubleAndAdd
    BY <2>2, <2>6 DEF DoubleAndAdd
  <2>7. CASE Accumulate
    BY <2>2, <2>7 DEF Accumulate
  <2>8. CASE FinishHelper
    BY <2>2, <2>8 DEF FinishHelper, Returns
  <2>9. CASE Prove
    BY <2>1, <2>9, ProveCompare
  <2>10. CASE ConstrainAdd
    BY <2>2, <2>10 DEF ConstrainAdd
  <2>11. CASE CompareBit
    BY <2>1, <2>11, BitCompare
  <2>12. CASE CompareEnd
    BY <2>1, <2>12, EndCompare
  <2>13. CASE Compared
    BY <2>2, <2>13 DEF Compared
  <2>14. CASE Verdict \/ UNCHANGED vars
    BY <2>1, <2>14 DEF Verdict, vars, comparison, CompareInv, CompareExact, Comparing
  <2> QED
    BY <2>1, <2>3, <2>4, <2>5, <2>6, <2>7, <2>8, <2>9, <2>10, <2>11, <2>12, <2>13, <2>14
    DEF Next
<1> QED BY <1>1, <1>2, PTL DEF Spec

\* The comparison of emit_scalar_constraints is exact: prefix_equal says whether the bits
\* read so far are those of the modulus, and a constraint fails as soon as they exceed it.
THEOREM CompareCorrect == Spec => []CompareExact
<1>1. CompareInv => CompareExact
  BY DEF CompareInv
<1> QED BY <1>1, CompareInvariant, PTL

---------------------------------------------------------------------------
\* Types: every register holds a felt or a point.

AnyPoint == F \X F \X F

\* The point at infinity is a point, and so are its multiples by any scalar.
LEMMA InfinityIsPoint == Infinity \in AnyPoint
BY SmallFelts DEF Infinity, AnyPoint

\* The chord's slope divides by the difference of two different abscissas, the tangent's by
\* twice an ordinate that is not zero: P is odd.
LEMMA FormulaIsPoint ==
    ASSUME NEW p \in AnyPoint, NEW q \in AnyPoint, NEW doubling \in BOOLEAN,
           doubling => p[2] # 0, ~doubling => p[1] # q[1]
    PROVE  Formula(p, q, doubling) \in AnyPoint
<1>1. /\ p[1] \in F /\ p[2] \in F /\ q[1] \in F /\ q[2] \in F
      /\ p[1] \in Int /\ p[2] \in Int /\ q[1] \in Int /\ q[2] \in Int
  BY FeltIsResidue DEF AnyPoint
<1> DEFINE lambda == IF doubling
                     THEN Div(Times(3, Times(p[1], p[1])), Times(2, p[2]))
                     ELSE Div(Minus(q[2], p[2]), Minus(q[1], p[1]))
           x == Minus(Times(lambda, lambda), Plus(p[1], IF doubling THEN p[1] ELSE q[1]))
           y == Minus(Times(lambda, Minus(p[1], x)), p[2])
<1>2. ASSUME doubling PROVE lambda \in F
  <2>1. 2 \in F /\ 2 # 0
    BY GrumpkinAssumption, PrimeAssumption DEF F
  <2>2. Times(2, p[2]) \in F /\ Times(2, p[2]) # 0
    BY <1>1, <1>2, <2>1, TimesZero
  <2>3. Times(p[1], p[1]) \in Int
    BY <1>1, TimesZero, FeltIsResidue
  <2>4. 3 * Times(p[1], p[1]) \in Int
    BY <2>3
  <2>5. Times(3, Times(p[1], p[1])) \in F
    BY <2>4, ResidueIsFelt DEF Times
  <2>6. Div(Times(3, Times(p[1], p[1])), Times(2, p[2])) \in F
    BY <2>2, <2>5, DivIsFelt
  <2> QED BY <1>2, <2>6
<1>3. ASSUME ~doubling PROVE lambda \in F
  <2>1. Minus(q[1], p[1]) \in F /\ Minus(q[1], p[1]) # 0 /\ Minus(q[2], p[2]) \in F
    BY <1>1, <1>3, MinusZero
  <2> QED BY <1>3, <2>1, DivIsFelt
<1>4. lambda \in F
  <2> HIDE DEF lambda
  <2> QED BY <1>2, <1>3
<1> HIDE DEF lambda
<1>5. x \in F
  <2>1. Times(lambda, lambda) \in F
    BY <1>4, TimesZero
  <2>2. Plus(p[1], IF doubling THEN p[1] ELSE q[1]) \in F
    BY <1>1, PlusIsFelt
  <2> QED BY <2>1, <2>2, MinusZero
<1>6. Formula(p, q, doubling) = <<x, y, 0>>
  BY DEF Formula, lambda
<1> HIDE DEF x
<1>7. y \in F
  <2>1. Times(lambda, Minus(p[1], x)) \in F
    BY <1>1, <1>4, <1>5, MinusZero, TimesZero
  <2> QED BY <1>1, <2>1, MinusZero
<1> HIDE DEF y
<1> QED BY <1>5, <1>6, <1>7, SmallFelts DEF AnyPoint

\* The sum of two points is a point, whatever their flags.
LEMMA AddIsPoint ==
    ASSUME NEW p \in AnyPoint, NEW q \in AnyPoint
    PROVE  Add(p, q) \in AnyPoint
<1>1. CASE p[1] # q[1]
  <2>1. Formula(p, q, FALSE) \in AnyPoint
    BY <1>1, FormulaIsPoint
  <2> QED BY <1>1, <2>1 DEF Add, AffineAdd
<1>2. CASE p[1] = q[1] /\ (p[2] # q[2] \/ p[2] = 0)
  BY <1>2, InfinityIsPoint DEF Add, AffineAdd
<1>3. CASE p[1] = q[1] /\ p[2] # 0 /\ p[2] = q[2]
  <2>1. Formula(p, q, TRUE) \in AnyPoint
    BY <1>3, FormulaIsPoint
  <2> QED BY <1>3, <2>1 DEF Add, AffineAdd
<1> QED BY <1>1, <1>2, <1>3

\* What peel_bits_le takes off two limbs are bits, as many as a scalar has.
LEMMA PeeledAreFelts ==
    ASSUME NEW lo \in F, NEW hi \in F
    PROVE  Peeled(lo, LowBits) \o Peeled(hi, HighBits) \in [1 .. TotalBits -> F]
<1>1. LowBits \in Nat /\ HighBits \in Nat
  BY GrumpkinAssumption
<1>2. ASSUME NEW limb \in F, NEW n \in Nat PROVE Peeled(limb, n) \in [1 .. n -> F]
  <2>1. ASSUME NEW i \in 1 .. n PROVE (limb \div TwoTo(i - 1)) % 2 \in F
    <3>1. limb \in Nat /\ i \in Nat \ {0}
      BY PrimeAssumption DEF F
    <3>2. (limb \div TwoTo(i - 1)) % 2 \in {0, 1}
      BY <3>1, DigitIsBit
    <3> QED BY <3>2, SmallFelts
  <2> QED BY <2>1 DEF Peeled
<1> DEFINE s == Peeled(lo, LowBits)
           t == Peeled(hi, HighBits)
<1>3. s \in [1 .. LowBits -> F] /\ t \in [1 .. HighBits -> F]
  BY <1>1, <1>2
<1> HIDE DEF s, t
<1>4. s \in Seq(F) /\ t \in Seq(F) /\ Len(s) = LowBits /\ Len(t) = HighBits
  BY <1>1, <1>3, ByElements
<1> DEFINE z == s \o t
<1>6. z \in Seq(F) /\ Len(z) = Len(s) + Len(t)
  BY <1>4
<1> HIDE DEF z
<1>5. z \in [1 .. LowBits + HighBits -> F]
  BY <1>4, <1>6
<1> QED BY <1>5 DEF s, t, z

\* The inductive invariant of the types: the helper and the comparison have the bits of every
\* scalar, and there are as many scalars as points.
TypeInv ==
    /\ call \in Calls
    /\ output \in AnyPoint /\ multiple \in AnyPoint /\ sum \in AnyPoint
    /\ \A k \in DOMAIN bits : bits[k] \in [1 .. TotalBits -> F]
    /\ point \in 1 .. Len(call.points) + 1 /\ bit \in 0 .. TotalBits
    /\ prefix \in F /\ holds \in BOOLEAN
    /\ pc = "add" => call.fn = "add"
    /\ pc = "msm" => call.fn = "msm"
    /\ pc \in {"helper", "compare"} => call.fn = "msm" /\ DOMAIN bits = DOMAIN call.scalars

\* What the assumption says of the opcode at hand.
LEMMA CallFacts ==
    ASSUME TypeInv
    PROVE  /\ Len(call.points) \in Nat /\ TotalBits \in Nat
           /\ \A k \in 1 .. Len(call.points) : call.points[k] \in AnyPoint
           /\ DOMAIN call.scalars = 1 .. Len(call.scalars)
           /\ \A k \in DOMAIN call.scalars : call.scalars[k][1] \in F /\ call.scalars[k][2] \in F
           /\ call.fn \in {"add", "msm"}
           /\ call.fn = "add" => Len(call.points) = 2
           /\ call.fn = "msm" => Len(call.points) = Len(call.scalars)
<1>1. call \in Calls
  BY DEF TypeInv
<1>2. call.points \in Seq(AnyPoint) /\ call.scalars \in Seq(F \X F)
  BY <1>1, GrumpkinAssumption DEF AnyPoint
<1>3. \A k \in DOMAIN call.scalars : call.scalars[k] \in F \X F
  BY <1>2
<1> QED BY <1>1, <1>2, <1>3, GrumpkinAssumption

\* The initial registers.
LEMMA InitTypes == Init => TypeInv
<1> SUFFICES ASSUME Init PROVE TypeInv
  OBVIOUS
<1>1. call \in Calls /\ Len(call.points) \in Nat /\ TotalBits \in Nat
  BY GrumpkinAssumption DEF Init
<1>2. /\ bits = <<>> /\ output = Infinity /\ multiple = Infinity /\ sum = Infinity
      /\ point = 1 /\ bit = TotalBits /\ prefix = 1 /\ holds = TRUE /\ pc = call.fn
  BY DEF Init
<1>3. point \in 1 .. Len(call.points) + 1 /\ bit \in 0 .. TotalBits
  BY <1>1, <1>2
<1>4. pc \in {"add", "msm"} /\ \A k \in DOMAIN bits : bits[k] \in [1 .. TotalBits -> F]
  BY <1>1, <1>2, GrumpkinAssumption
<1> QED BY <1>1, <1>2, <1>3, <1>4, InfinityIsPoint, SmallFelts DEF TypeInv

\* A conditional sum is a point.
LEMMA GatedAddIsPoint ==
    ASSUME NEW p \in AnyPoint, NEW q \in AnyPoint, NEW predicate
    PROVE  EmbeddedCurveAdd(p, q, predicate) \in AnyPoint
BY AddIsPoint, InfinityIsPoint DEF EmbeddedCurveAdd

\* Every step keeps the types.
LEMMA NextTypes == TypeInv /\ [Next]_vars => TypeInv'
<1> SUFFICES ASSUME TypeInv, [Next]_vars PROVE TypeInv'
  OBVIOUS
<1>1. CASE ComputeAdd
  <2>1. call.points[1] \in AnyPoint /\ call.points[2] \in AnyPoint
    BY <1>1, CallFacts DEF ComputeAdd, TypeInv
  <2>2. output' \in AnyPoint
    BY <1>1, <2>1, GatedAddIsPoint DEF ComputeAdd
  <2> QED BY <1>1, <2>2 DEF ComputeAdd, TypeInv, loop, comparison
<1>2. CASE ComputeBits
  <2>1. \A k \in DOMAIN call.scalars :
          Peeled(call.scalars[k][1], LowBits) \o Peeled(call.scalars[k][2], HighBits)
            \in [1 .. TotalBits -> F]
    BY CallFacts, PeeledAreFelts
  <2>2. \A k \in DOMAIN bits' : bits'[k] \in [1 .. TotalBits -> F]
    BY <1>2, <2>1 DEF ComputeBits
  <2>3. DOMAIN bits' = DOMAIN call.scalars /\ call.fn = "msm"
    BY <1>2 DEF ComputeBits, TypeInv
  <2>4. pc' \in {"helper", "trap"}
    BY <1>2 DEF ComputeBits
  <2> QED BY <1>2, <2>2, <2>3, <2>4 DEF ComputeBits, TypeInv, loop, comparison
<1>3. ASSUME NEW value \in AnyPoint, Returns(value),
             UNCHANGED <<call, side, bits, loop, comparison>>
      PROVE  TypeInv'
  <2>1. output' \in AnyPoint /\ holds' \in BOOLEAN /\ pc' \in {"computed", "verdict"}
    BY <1>3 DEF Returns, TypeInv
  <2> QED BY <1>3, <2>1 DEF TypeInv, loop, comparison
<1>4. CASE SkipHelper
  BY <1>3, <1>4, InfinityIsPoint DEF SkipHelper
<1>5. CASE DoubleAndAdd
  <2>1. Add(multiple, multiple) \in AnyPoint
    BY AddIsPoint DEF TypeInv
  <2>2. call.points[point] \in AnyPoint
    BY <1>5, CallFacts DEF DoubleAndAdd, TypeInv
  <2>3. multiple' \in AnyPoint
    BY <1>5, <2>1, <2>2, AddIsPoint DEF DoubleAndAdd
  <2>4. bit' \in 0 .. TotalBits
    BY <1>5, CallFacts DEF DoubleAndAdd, TypeInv
  <2> QED BY <1>5, <2>3, <2>4 DEF DoubleAndAdd, TypeInv, comparison
<1>6. CASE Accumulate
  <2>1. sum' \in AnyPoint /\ multiple' \in AnyPoint
    BY <1>6, AddIsPoint, InfinityIsPoint DEF Accumulate, TypeInv
  <2>2. bit' \in 0 .. TotalBits /\ point' \in 1 .. Len(call.points) + 1
    BY <1>6, CallFacts DEF Accumulate, TypeInv
  <2> QED BY <1>6, <2>1, <2>2 DEF Accumulate, TypeInv, comparison
<1>7. CASE FinishHelper
  BY <1>3, <1>7 DEF FinishHelper, TypeInv
<1>8. CASE Prove
  <2>1. \A k \in 1 .. Len(call.points) : call.points[k] \in AnyPoint
    BY CallFacts
  <2>2. DOMAIN call.points = 1 .. Len(call.points)
    BY GrumpkinAssumption DEF TypeInv
  <2>3. Range(call.points) \subseteq AnyPoint
    BY <2>1, <2>2 DEF Range
  <2>4. output' \in AnyPoint
    BY <1>8, <2>3, InfinityIsPoint DEF Prove, TypeInv
  <2>5. bits' \in [DOMAIN call.scalars -> [1 .. TotalBits -> F]]
    BY <1>8, GrumpkinAssumption DEF Prove
  <2>6. pc' \in {"verdict", "add", "compare"} /\ holds' \in BOOLEAN
    BY <1>8 DEF Prove
  <2>7. pc' = "add" => call.fn = "add"
    BY <1>8 DEF Prove
  <2>8. pc' = "compare" => call.fn = "msm"
    BY <1>8, CallFacts DEF Prove
  <2>9. point' \in 1 .. Len(call.points) + 1 /\ bit' \in 0 .. TotalBits /\ prefix' \in F
    BY <1>8, CallFacts, SmallFelts DEF Prove
  <2>10. multiple' \in AnyPoint /\ sum' \in AnyPoint /\ call' = call /\ call \in Calls
    BY <1>8, InfinityIsPoint DEF Prove, TypeInv
  <2> QED BY <2>4, <2>5, <2>6, <2>7, <2>8, <2>9, <2>10 DEF TypeInv
<1>9. CASE ConstrainAdd
  BY <1>9 DEF ConstrainAdd, TypeInv, loop, comparison
<1>10. CASE CompareBit
  <2>1. point \in DOMAIN bits /\ bit \in 1 .. TotalBits
    BY <1>10, CallFacts DEF CompareBit, TypeInv
  <2>2. bits[point][bit] \in F
    BY <2>1 DEF TypeInv
  <2>3. prefix' \in F
    BY <1>10, <2>2, TimesZero DEF CompareBit, NextPrefix, TypeInv
  <2>4. bit' \in 0 .. TotalBits
    BY <1>10, <2>1, CallFacts DEF CompareBit
  <2>5. holds' \in BOOLEAN
    BY <1>10 DEF CompareBit
  <2> QED BY <1>10, <2>3, <2>4, <2>5 DEF CompareBit, TypeInv
<1>11. CASE CompareEnd
  <2>1. point' \in 1 .. Len(call.points) + 1 /\ bit' \in 0 .. TotalBits /\ prefix' \in F
    BY <1>11, CallFacts, SmallFelts DEF CompareEnd, TypeInv
  <2>2. holds' \in BOOLEAN /\ pc' \in {"compare", "verdict"}
    BY <1>11 DEF CompareEnd
  <2> QED BY <1>11, <2>1, <2>2 DEF CompareEnd, TypeInv
<1>12. CASE Compared
  <2>1. point' \in 1 .. Len(call.points) + 1
    BY <1>12, CallFacts DEF Compared
  <2> QED BY <1>12, <2>1 DEF Compared, TypeInv, comparison
<1>13. CASE Verdict \/ UNCHANGED vars
  BY <1>13 DEF Verdict, TypeInv, vars, loop, comparison
<1> QED
  BY <1>1, <1>2, <1>4, <1>5, <1>6, <1>7, <1>8, <1>9, <1>10, <1>11, <1>12, <1>13 DEF Next

\* No register of the helper or of the constraints ever holds anything but felts: no formula
\* divides by zero on any points, on the curve or not, and no loop leaves the scalars.
THEOREM TypeCorrect == Spec => []TypeOK
<1>1. TypeInv => TypeOK
  BY DEF TypeInv, TypeOK, AnyPoint
<1> QED BY <1>1, InitTypes, NextTypes, PTL DEF Spec
---------------------------------------------------------------------------
\* The geometry of the formulas

\* Three points of the line y = m x + k, as integers up to multiples of P: if their abscissas
\* have the elementary symmetric functions that two of them determine, they are all the line
\* and the curve share.
OnLine(m, k, x, y) == IsMultiple(y - (m * x + k))
CubicSum(m, x1, x2, x3) == IsMultiple((x1 + x2 + x3) - m * m)
CubicPairs(m, k, x1, x2, x3) ==
    IsMultiple((x1 * x2 + x2 * x3 + x1 * x3) + 2 * (m * k))
CubicProduct(k, x1, x2, x3) == IsMultiple((x1 * x2 * x3 - k * k) + CurveB)
CubicCurve(x, y) == IsMultiple(y * y - (x * x * x + CurveB))

\* The curve equation of one point gives the third function, and the two give the equation of
\* the third point.
LEMMA LineMeetsCurve ==
    ASSUME NEW m \in Int, NEW k \in Int, NEW x1 \in Int, NEW y1 \in Int,
           NEW x2 \in Int, NEW x3 \in Int, NEW y3 \in Int,
           OnLine(m, k, x1, y1), OnLine(m, k, x3, y3), CubicCurve(x1, y1),
           CubicSum(m, x1, x2, x3), CubicPairs(m, k, x1, x2, x3)
    PROVE  CubicProduct(k, x1, x2, x3) /\ CubicCurve(x3, y3)
<1>0. CurveB \in Int
  BY GrumpkinAssumption
<1> DEFINE abscissas == (x1 + x2 + x3) - m * m
           pairs == (x1 * x2 + x2 * x3 + x1 * x3) + 2 * (m * k)
           product == (x1 * x2 * x3 - k * k) + CurveB
           curve1 == y1 * y1 - (x1 * x1 * x1 + CurveB)
           curve3 == y3 * y3 - (x3 * x3 * x3 + CurveB)
           line1 == y1 - (m * x1 + k)
           line3 == y3 - (m * x3 + k)
<1>1. /\ IsMultiple(abscissas) /\ IsMultiple(pairs) /\ IsMultiple(curve1)
      /\ IsMultiple(line1) /\ IsMultiple(line3)
  BY DEF OnLine, CubicCurve, CubicSum, CubicPairs
<1>2. product = (((y1 + (m * x1 + k)) * line1 - curve1) - (x1 * x1) * abscissas) + x1 * pairs
  BY <1>0
<1>3. curve3 = (((y3 + (m * x3 + k)) * line3 + x3 * pairs) - (x3 * x3) * abscissas) - product
  BY <1>0
<1>4. y1 + (m * x1 + k) \in Int /\ y3 + (m * x3 + k) \in Int /\ x1 * x1 \in Int /\ x3 * x3 \in Int
  OBVIOUS
<1> HIDE DEF abscissas, pairs, product, curve1, curve3, line1, line3
<1>5. IsMultiple(product)
  BY <1>1, <1>2, <1>4, MultipleSum, MultipleScaled
<1>6. IsMultiple(curve3)
  BY <1>1, <1>3, <1>4, <1>5, MultipleSum, MultipleScaled
<1> QED BY <1>5, <1>6 DEF product, curve3, CubicProduct, CubicCurve

\* The slope of a chord, and the second function: the curve equations of its ends differ by
\* the difference of their abscissas times a quadratic.
ChordSlope(m, x1, y1, x2, y2) == IsMultiple(m * (x2 - x1) - (y2 - y1))
TangentSlope(m, x, y) == IsMultiple(m * (2 * y) - 3 * (x * x))

LEMMA ChordPairs ==
    ASSUME NEW m \in Int, NEW k \in Int, NEW x1 \in Int, NEW y1 \in Int,
           NEW x2 \in Int, NEW y2 \in Int, NEW x3 \in Int,
           ~IsMultiple(x2 - x1), ChordSlope(m, x1, y1, x2, y2), OnLine(m, k, x1, y1),
           CubicCurve(x1, y1), CubicCurve(x2, y2), CubicSum(m, x1, x2, x3)
    PROVE  OnLine(m, k, x2, y2) /\ CubicPairs(m, k, x1, x2, x3)
<1>0. CurveB \in Int
  BY GrumpkinAssumption
<1> DEFINE abscissas == (x1 + x2 + x3) - m * m
           pairs == (x1 * x2 + x2 * x3 + x1 * x3) + 2 * (m * k)
           curve1 == y1 * y1 - (x1 * x1 * x1 + CurveB)
           curve2 == y2 * y2 - (x2 * x2 * x2 + CurveB)
           line1 == y1 - (m * x1 + k)
           line2 == y2 - (m * x2 + k)
           slope == m * (x2 - x1) - (y2 - y1)
           d == x2 - x1
           s1 == y1 + (m * x1 + k)
           s2 == y2 + (m * x2 + k)
           s == x1 + x2
<1>1. /\ IsMultiple(abscissas) /\ IsMultiple(curve1) /\ IsMultiple(curve2)
      /\ IsMultiple(line1) /\ IsMultiple(slope)
  BY DEF OnLine, CubicCurve, CubicSum, ChordSlope
<1>2. line2 = line1 - slope
  OBVIOUS
<1>3. IsMultiple(line2)
  <2> HIDE DEF line1, line2, slope
  <2> QED BY <1>1, <1>2, MultipleSum
<1>4. d * pairs = ((curve2 - s2 * line2) - (curve1 - s1 * line1)) + (d * s) * abscissas
  BY <1>0
<1>5. /\ s1 \in Int /\ s2 \in Int /\ d \in Int /\ s \in Int /\ d * s \in Int /\ pairs \in Int
  OBVIOUS
<1>6. IsMultiple(d * pairs)
  <2> HIDE DEF abscissas, pairs, curve1, curve2, line1, line2, s1, s2, s, d
  <2>1. IsMultiple(s2 * line2) /\ IsMultiple(s1 * line1) /\ IsMultiple((d * s) * abscissas)
    BY <1>1, <1>3, <1>5, MultipleScaled
  <2>2. IsMultiple(curve2 - s2 * line2) /\ IsMultiple(curve1 - s1 * line1)
    BY <1>1, <2>1, MultipleSum
  <2>3. IsMultiple((curve2 - s2 * line2) - (curve1 - s1 * line1))
    BY <2>2, MultipleSum
  <2> QED BY <1>4, <2>1, <2>3, MultipleSum
<1>7. IsMultiple(pairs)
  <2> HIDE DEF pairs, d
  <2>1. IsMultiple(d) \/ IsMultiple(pairs)
    BY <1>5, <1>6, MultiplePrime
  <2> QED BY <2>1 DEF d
<1> QED BY <1>3, <1>7 DEF OnLine, CubicPairs

\* On a tangent the second function vanishes exactly when the slope is the tangent's.
LEMMA TangentPairs ==
    ASSUME NEW m \in Int, NEW k \in Int, NEW x \in Int, NEW y \in Int, NEW z \in Int,
           OnLine(m, k, x, y), CubicSum(m, x, x, z)
    PROVE  CubicPairs(m, k, x, x, z) <=> TangentSlope(m, x, y)
<1> DEFINE abscissas == (x + x + z) - m * m
           pairs == (x * x + x * z + x * z) + 2 * (m * k)
           slope == m * (2 * y) - 3 * (x * x)
           line == y - (m * x + k)
           two == 2 * x
           c == 2 * m
<1>1. IsMultiple(abscissas) /\ IsMultiple(line) /\ two \in Int /\ c \in Int
  BY DEF OnLine, CubicSum
<1>2. pairs = slope + (two * abscissas - c * line) /\ slope = pairs - (two * abscissas - c * line)
  OBVIOUS
<1> HIDE DEF abscissas, pairs, slope, line, two, c
<1>3. IsMultiple(two * abscissas - c * line)
  BY <1>1, MultipleScaled, MultipleSum
<1>4. IsMultiple(pairs) <=> IsMultiple(slope)
  BY <1>2, <1>3, MultipleSum
<1> QED BY <1>4 DEF pairs, slope, CubicPairs, TangentSlope

\* The curve equation of the model is the integers' up to multiples of P.
LEMMA CurveEquation ==
    ASSUME NEW p, p[1] \in F, p[2] \in F
    PROVE  OnCurve(p) <=> CubicCurve(p[1], p[2])
<1> DEFINE x == p[1]
           y == p[2]
           yy == Times(y, y)
           xx == Times(x, x)
           xxx == Times(x, xx)
           right == Plus(xxx, CurveB)
<1>1. x \in F /\ y \in F /\ x \in Int /\ y \in Int /\ CurveB \in Int
  BY FeltIsResidue, GrumpkinAssumption
<1>2. Same(x, x) /\ Same(y, y) /\ Same(CurveB, CurveB)
  BY <1>1, SameAsItself
<1> HIDE DEF x, y
<1>3. Same(yy, y * y) /\ yy \in F /\ Same(xx, x * x)
  BY <1>2, SameOperations
<1> HIDE DEF xx, yy
<1>4. Same(xxx, x * (x * x))
  BY <1>2, <1>3, SameOperations
<1> HIDE DEF xxx
<1>5. Same(right, x * (x * x) + CurveB) /\ right \in F
  BY <1>2, <1>4, SameOperations
<1> HIDE DEF right
<1>6. yy = right <=> IsMultiple(y * y - (x * (x * x) + CurveB))
  BY <1>3, <1>5, SameFelts
<1>7. x * (x * x) = x * x * x
  BY <1>1
<1> QED BY <1>6, <1>7 DEF OnCurve, CubicCurve, x, y, xx, yy, xxx, right

\* The line of a collinear triple, and what its equations say of the integers.
Line(m, k, p, q, r) ==
    /\ \A s \in {p, q, r} : s[2] = Plus(Times(m, s[1]), k)
    /\ Plus(p[1], Plus(q[1], r[1])) = Times(m, m)
    /\ Plus(Times(p[1], q[1]), Plus(Times(q[1], r[1]), Times(p[1], r[1]))) = Times(-2, Times(m, k))
    /\ Times(p[1], Times(q[1], r[1])) = Minus(Times(k, k), CurveB)

LEMMA LineEquations ==
    ASSUME NEW m \in F, NEW k \in F, NEW p \in F \X F, NEW q \in F \X F, NEW r \in F \X F
    PROVE  Line(m, k, p, q, r) <=>
             /\ \A s \in {p, q, r} : OnLine(m, k, s[1], s[2])
             /\ CubicSum(m, p[1], q[1], r[1])
             /\ CubicPairs(m, k, p[1], q[1], r[1])
             /\ CubicProduct(k, p[1], q[1], r[1])
<1> DEFINE x1 == p[1]
           x2 == q[1]
           x3 == r[1]
<1>1. /\ x1 \in F /\ x2 \in F /\ x3 \in F /\ x1 \in Int /\ x2 \in Int /\ x3 \in Int
      /\ m \in Int /\ k \in Int /\ CurveB \in Int /\ -2 \in Int
  BY FeltIsResidue, GrumpkinAssumption
<1>2. ASSUME NEW s \in {p, q, r} PROVE s[2] = Plus(Times(m, s[1]), k) <=> OnLine(m, k, s[1], s[2])
  <2> DEFINE x == s[1]
             y == s[2]
             mx == Times(m, x)
             right == Plus(mx, k)
  <2>1. x \in F /\ y \in F /\ x \in Int /\ y \in Int
    BY <1>2, FeltIsResidue
  <2> HIDE DEF x, y
  <2>2. Same(x, x) /\ Same(y, y) /\ Same(m, m) /\ Same(k, k)
    BY <1>1, <2>1, SameAsItself
  <2>3. Same(mx, m * x)
    BY <2>2, SameOperations
  <2> HIDE DEF mx
  <2>4. Same(right, m * x + k) /\ right \in F
    BY <2>2, <2>3, SameOperations
  <2> HIDE DEF right
  <2>5. y = right <=> IsMultiple(y - (m * x + k))
    BY <2>1, <2>2, <2>4, SameFelts
  <2> QED BY <2>5 DEF OnLine, x, y, mx, right
<1> HIDE DEF x1, x2, x3
<1>3. /\ Same(x1, x1) /\ Same(x2, x2) /\ Same(x3, x3) /\ Same(m, m) /\ Same(k, k)
      /\ Same(CurveB, CurveB) /\ Same(-2, -2)
  BY <1>1, SameAsItself
<1>4. Plus(x1, Plus(x2, x3)) = Times(m, m) <=> CubicSum(m, x1, x2, x3)
  <2> DEFINE a == Plus(x2, x3)
             b == Plus(x1, a)
             c == Times(m, m)
  <2>1. Same(a, x2 + x3) /\ Same(c, m * m) /\ c \in F
    BY <1>3, SameOperations
  <2> HIDE DEF a, c
  <2>2. Same(b, x1 + (x2 + x3)) /\ b \in F
    BY <1>3, <2>1, SameOperations
  <2> HIDE DEF b
  <2>3. b = c <=> IsMultiple((x1 + (x2 + x3)) - m * m)
    BY <2>1, <2>2, SameFelts
  <2>4. x1 + (x2 + x3) = x1 + x2 + x3
    BY <1>1
  <2> QED BY <2>3, <2>4 DEF CubicSum, a, b, c
<1>5. Plus(Times(x1, x2), Plus(Times(x2, x3), Times(x1, x3))) = Times(-2, Times(m, k))
        <=> CubicPairs(m, k, x1, x2, x3)
  <2> DEFINE a == Times(x1, x2)
             b == Times(x2, x3)
             c == Times(x1, x3)
             d == Times(m, k)
             bc == Plus(b, c)
             left == Plus(a, bc)
             right == Times(-2, d)
  <2>1. Same(a, x1 * x2) /\ Same(b, x2 * x3) /\ Same(c, x1 * x3) /\ Same(d, m * k)
    BY <1>3, SameOperations
  <2> HIDE DEF a, b, c, d
  <2>2. Same(bc, x2 * x3 + x1 * x3) /\ Same(right, (-2) * (m * k)) /\ right \in F
    BY <1>3, <2>1, SameOperations
  <2> HIDE DEF bc, right
  <2>3. Same(left, x1 * x2 + (x2 * x3 + x1 * x3)) /\ left \in F
    BY <2>1, <2>2, SameOperations
  <2> HIDE DEF left
  <2>4. left = right <=> IsMultiple((x1 * x2 + (x2 * x3 + x1 * x3)) - (-2) * (m * k))
    BY <2>2, <2>3, SameFelts
  <2>5. (x1 * x2 + (x2 * x3 + x1 * x3)) - (-2) * (m * k)
          = (x1 * x2 + x2 * x3 + x1 * x3) + 2 * (m * k)
    BY <1>1
  <2> QED BY <2>4, <2>5 DEF CubicPairs, a, b, c, d, bc, left, right
<1>6. Times(x1, Times(x2, x3)) = Minus(Times(k, k), CurveB) <=> CubicProduct(k, x1, x2, x3)
  <2> DEFINE a == Times(x2, x3)
             b == Times(x1, a)
             c == Times(k, k)
             d == Minus(c, CurveB)
  <2>1. Same(a, x2 * x3) /\ Same(c, k * k)
    BY <1>3, SameOperations
  <2> HIDE DEF a, c
  <2>2. Same(b, x1 * (x2 * x3)) /\ b \in F /\ Same(d, k * k - CurveB) /\ d \in F
    BY <1>3, <2>1, SameOperations
  <2> HIDE DEF b, d
  <2>3. b = d <=> IsMultiple(x1 * (x2 * x3) - (k * k - CurveB))
    BY <2>2, SameFelts
  <2>4. x1 * (x2 * x3) - (k * k - CurveB) = (x1 * x2 * x3 - k * k) + CurveB
    BY <1>1
  <2> QED BY <2>3, <2>4 DEF CubicProduct, a, b, c, d
<1> HIDE DEF OnLine, CubicSum, CubicPairs, CubicProduct
<1> QED BY <1>2, <1>4, <1>5, <1>6 DEF Line, x1, x2, x3

\* What the helper computes for two points: the slope of the chord or the tangent through
\* them, and the reflection of the point where that line meets the curve again.
LEMMA FormulaEquations ==
    ASSUME NEW p \in AnyPoint, NEW q \in AnyPoint, NEW doubling \in BOOLEAN,
           doubling => p[2] # 0 /\ q[1] = p[1], ~doubling => p[1] # q[1]
    PROVE  \E m, k \in F :
              /\ IF doubling THEN TangentSlope(m, p[1], p[2])
                             ELSE ChordSlope(m, p[1], p[2], q[1], q[2])
              /\ OnLine(m, k, p[1], p[2])
              /\ CubicSum(m, p[1], q[1], Formula(p, q, doubling)[1])
              /\ OnLine(m, k, Formula(p, q, doubling)[1], -Formula(p, q, doubling)[2])
<1> DEFINE x1 == p[1]
           y1 == p[2]
           x2 == q[1]
           y2 == q[2]
           m == IF doubling
                THEN Div(Times(3, Times(x1, x1)), Times(2, y1))
                ELSE Div(Minus(y2, y1), Minus(x2, x1))
           mm == Times(m, m)
           s == Plus(x1, x2)
           x3 == Minus(mm, s)
           d == Minus(x1, x3)
           md == Times(m, d)
           y3 == Minus(md, y1)
           mx == Times(m, x1)
           k == Minus(y1, mx)
<1>1. Formula(p, q, doubling) = <<x3, y3, 0>>
  <2>1. (IF doubling THEN p[1] ELSE q[1]) = q[1]
    OBVIOUS
  <2>2. Plus(p[1], IF doubling THEN p[1] ELSE q[1]) = Plus(p[1], q[1])
    BY <2>1
  <2> QED BY <2>2 DEF Formula
<1>2. /\ x1 \in F /\ y1 \in F /\ x2 \in F /\ y2 \in F
      /\ x1 \in Int /\ y1 \in Int /\ x2 \in Int /\ y2 \in Int
      /\ doubling => y1 # 0
      /\ ~doubling => x1 # x2
  BY FeltIsResidue DEF AnyPoint
<1> HIDE DEF x1, y1, x2, y2
<1>3. Same(x1, x1) /\ Same(y1, y1) /\ Same(x2, x2) /\ Same(y2, y2) /\ Same(2, 2) /\ Same(3, 3)
  BY <1>2, SameAsItself
<1>4. ASSUME doubling PROVE m \in F /\ TangentSlope(m, x1, y1)
  <2> DEFINE xx == Times(x1, x1)
             a == Times(3, xx)
             b == Times(2, y1)
             z == Div(a, b)
             zb == Times(z, b)
  <2>1. 2 \in F /\ 2 # 0
    BY GrumpkinAssumption, PrimeAssumption DEF F
  <2>2. b \in F /\ b # 0 /\ Same(b, 2 * y1)
    BY <1>2, <1>3, <1>4, <2>1, TimesZero, SameOperations
  <2>3. Same(xx, x1 * x1)
    BY <1>3, SameOperations
  <2> HIDE DEF xx
  <2>4. a \in F /\ Same(a, 3 * (x1 * x1))
    BY <1>3, <2>3, SameOperations
  <2> HIDE DEF a, b
  <2>5. z \in F /\ zb = a
    BY <2>2, <2>4, DivIsFelt
  <2> HIDE DEF z
  <2>6. z \in Int
    BY <2>5, FeltIsResidue
  <2>7. Same(zb, z * (2 * y1)) /\ zb \in F
    BY <2>2, <2>6, SameAsItself, SameOperations
  <2> HIDE DEF zb
  <2>8. IsMultiple(z * (2 * y1) - 3 * (x1 * x1))
    BY <2>4, <2>5, <2>7, SameFelts
  <2>9. m = z
    BY <1>4 DEF xx, a, b, z
  <2> HIDE DEF m
  <2> QED BY <2>5, <2>8, <2>9 DEF TangentSlope
<1>5. ASSUME ~doubling PROVE m \in F /\ ChordSlope(m, x1, y1, x2, y2)
  <2> DEFINE a == Minus(y2, y1)
             b == Minus(x2, x1)
             z == Div(a, b)
             zb == Times(z, b)
  <2>2. b \in F /\ b # 0 /\ Same(b, x2 - x1) /\ a \in F /\ Same(a, y2 - y1)
    BY <1>2, <1>3, <1>5, MinusZero, SameOperations
  <2> HIDE DEF a, b
  <2>5. z \in F /\ zb = a
    BY <2>2, DivIsFelt
  <2> HIDE DEF z
  <2>6. z \in Int
    BY <2>5, FeltIsResidue
  <2>7. Same(zb, z * (x2 - x1)) /\ zb \in F
    BY <2>2, <2>6, SameAsItself, SameOperations
  <2> HIDE DEF zb
  <2>8. IsMultiple(z * (x2 - x1) - (y2 - y1))
    BY <2>2, <2>5, <2>7, SameFelts
  <2>9. m = z
    BY <1>5 DEF a, b, z
  <2> HIDE DEF m
  <2> QED BY <2>5, <2>8, <2>9 DEF ChordSlope
<1> HIDE DEF m
<1>6. m \in F
  BY <1>4, <1>5
<1>7. m \in Int /\ Same(m, m)
  BY <1>6, FeltIsResidue, SameAsItself
<1>8. Same(mm, m * m) /\ Same(s, x1 + x2) /\ Same(mx, m * x1)
  BY <1>3, <1>7, SameOperations
<1> HIDE DEF mm, s, mx
<1>9. Same(x3, m * m - (x1 + x2)) /\ x3 \in F /\ Same(k, y1 - m * x1) /\ k \in F
  BY <1>3, <1>8, SameOperations
<1> HIDE DEF x3, k
<1>10. x3 \in Int /\ k \in Int /\ Same(x3, x3)
  BY <1>9, FeltIsResidue, SameAsItself
<1>11. Same(d, x1 - x3)
  BY <1>3, <1>10, SameOperations
<1> HIDE DEF d
<1>12. Same(md, m * (x1 - x3))
  BY <1>7, <1>11, SameOperations
<1> HIDE DEF md
<1>13. Same(y3, m * (x1 - x3) - y1) /\ y3 \in F
  BY <1>3, <1>12, SameOperations
<1> HIDE DEF y3
<1>14. y3 \in Int
  BY <1>13, FeltIsResidue
<1>15. IsMultiple(0)
  BY PrimeAssumption DEF IsMultiple
<1> DEFINE ek == k - (y1 - m * x1)
           ex == x3 - (m * m - (x1 + x2))
           ey == y3 - (m * (x1 - x3) - y1)
<1>16. IsMultiple(ek) /\ IsMultiple(ex) /\ IsMultiple(ey)
  BY <1>9, <1>13 DEF Same
<1>17. /\ y1 - (m * x1 + k) = 0 - ek
       /\ (x1 + x2 + x3) - m * m = ex
       /\ (-y3) - (m * x3 + k) = (0 - ey) - ek
  BY <1>2, <1>7, <1>10, <1>14
<1> HIDE DEF ek, ex, ey
<1>18. IsMultiple(0 - ek) /\ IsMultiple(0 - ey)
  BY <1>15, <1>16, MultipleSum
<1>19. IsMultiple((0 - ey) - ek)
  BY <1>16, <1>18, MultipleSum
<1>20. OnLine(m, k, x1, y1) /\ CubicSum(m, x1, x2, x3) /\ OnLine(m, k, x3, -y3)
  BY <1>16, <1>17, <1>18, <1>19 DEF OnLine, CubicSum
<1>21. IF doubling THEN TangentSlope(m, x1, y1) ELSE ChordSlope(m, x1, y1, x2, y2)
  BY <1>4, <1>5
<1> HIDE DEF OnLine, CubicSum, TangentSlope, ChordSlope
<1>22. Formula(p, q, doubling)[1] = x3 /\ Formula(p, q, doubling)[2] = y3
  BY <1>1 DEF x3, y3, d, md, mm, s, x1, y1, x2, y2, m
<1> QED BY <1>6, <1>9, <1>20, <1>21, <1>22 DEF x1, y1, x2, y2

\* The group's sum, unfolded.
LEMMA GroupSumUnfolds ==
    ASSUME NEW p \in Elements, NEW q \in Elements
    PROVE  GroupSum[p, q] = GroupLaw(p, q)
BY DEF GroupSum

\* Twice a felt vanishes only with the felt: P is odd.
LEMMA TwiceFelt ==
    ASSUME NEW a \in F, a # 0
    PROVE  ~IsMultiple(2 * a)
<1>1. 2 \in F /\ 2 # 0 /\ a \in Int /\ 0 \in F
  BY GrumpkinAssumption, PrimeAssumption, FeltIsResidue DEF F
<1>2. Times(2, a) # 0 /\ Times(2, a) \in F
  BY <1>1, TimesZero
<1>0. Same(2, 2) /\ Same(a, a) /\ Same(0, 0)
  BY <1>1, SameAsItself
<1>3. Same(Times(2, a), 2 * a)
  BY <1>0, SameOperations
<1> DEFINE t == Times(2, a)
           v == 2 * a
<1> HIDE DEF t
<1>4. t = 0 <=> IsMultiple(v - 0)
  <2>1. t \in F /\ Same(t, v) /\ Same(0, 0)
    BY <1>0, <1>2, <1>3 DEF t
  <2> HIDE DEF v
  <2> QED BY <1>1, <2>1, SameFelts
<1>5. v - 0 = v
  BY <1>1
<1> QED BY <1>2, <1>4, <1>5 DEF t

\* Two felts that are different are not congruent.
LEMMA DifferentFelts ==
    ASSUME NEW a \in F, NEW b \in F, a # b
    PROVE  ~IsMultiple(a - b) /\ ~IsMultiple(b - a)
BY MultipleFelts

\* Slopes, and with them lines, are determined.
LEMMA SlopeUnique ==
    ASSUME NEW m \in F, NEW n \in F, NEW c \in Int, ~IsMultiple(c), IsMultiple((m - n) * c)
    PROVE  m = n
<1>1. m \in Int /\ n \in Int /\ m - n \in Int
  BY FeltIsResidue
<1> DEFINE d == m - n
<1>2. IsMultiple(d * c) /\ d \in Int
  BY <1>1
<1>3. IsMultiple(d)
  <2> HIDE DEF d
  <2> QED BY <1>2, MultiplePrime
<1> QED BY <1>3, MultipleFelts

\* The curve and a line through two of its points, or a tangent, share one more point.
LEMMA ThirdPoint ==
    ASSUME NEW p \in F \X F, NEW q \in F \X F, NEW r \in F \X F, NEW m \in F, NEW k \in F,
           q = p => p[2] # 0 /\ TangentSlope(m, p[1], p[2]),
           q # p => p[1] # q[1] /\ ChordSlope(m, p[1], p[2], q[1], q[2]),
           OnLine(m, k, p[1], p[2]), OnLine(m, k, r[1], r[2]), CubicSum(m, p[1], q[1], r[1]),
           NEW s \in F \X F, Collinear(p, q, s)
    PROVE  s = r
<1>1. PICK n \in F, j \in F : Line(n, j, p, q, s)
  BY DEF Collinear, Line
<1> DEFINE x1 == p[1]
           y1 == p[2]
           x2 == q[1]
           y2 == q[2]
           x == s[1]
           y == s[2]
           u == r[1]
           v == r[2]
<1>2. /\ x1 \in F /\ y1 \in F /\ x2 \in F /\ y2 \in F /\ x \in F /\ y \in F /\ u \in F /\ v \in F
      /\ x1 \in Int /\ y1 \in Int /\ x2 \in Int /\ y2 \in Int /\ x \in Int /\ y \in Int
      /\ u \in Int /\ v \in Int /\ m \in Int /\ k \in Int /\ n \in Int /\ j \in Int
  BY FeltIsResidue
<1>3. /\ OnLine(n, j, x1, y1) /\ OnLine(n, j, x2, y2) /\ OnLine(n, j, x, y)
      /\ CubicSum(n, x1, x2, x) /\ CubicPairs(n, j, x1, x2, x)
  <2> HIDE DEF OnLine, CubicSum, CubicPairs, CubicProduct
  <2> QED BY <1>1, LineEquations
<1>4. p = <<x1, y1>> /\ q = <<x2, y2>> /\ s = <<x, y>> /\ r = <<u, v>>
  OBVIOUS
<1>5. OnLine(m, k, x1, y1) /\ OnLine(m, k, u, v) /\ CubicSum(m, x1, x2, u)
  OBVIOUS
<1>6. m = n
  <2>1. CASE q = p
    <3>1. x2 = x1 /\ y2 = y1 /\ y1 # 0 /\ TangentSlope(m, x1, y1)
      BY <2>1
    <3> HIDE DEF x1, y1, x2, y2, x, y, u, v
    <3>2. TangentSlope(n, x1, y1)
      BY <1>2, <1>3, <3>1, TangentPairs
    <3>3. (m - n) * (2 * y1) = (m * (2 * y1) - 3 * (x1 * x1)) - (n * (2 * y1) - 3 * (x1 * x1))
      BY <1>2
    <3>4. IsMultiple((m - n) * (2 * y1))
      BY <3>1, <3>2, <3>3, MultipleSum DEF TangentSlope
    <3>5. ~IsMultiple(2 * y1) /\ 2 * y1 \in Int
      BY <1>2, <3>1, TwiceFelt
    <3> DEFINE c == 2 * y1
    <3> HIDE DEF c
    <3>6. ~IsMultiple(c) /\ c \in Int /\ IsMultiple((m - n) * c)
      BY <3>4, <3>5 DEF c
    <3> QED BY <3>6, SlopeUnique
  <2>2. CASE q # p
    <3>1. x1 # x2 /\ ChordSlope(m, x1, y1, x2, y2)
      BY <2>2
    <3> HIDE DEF x1, y1, x2, y2, x, y, u, v
    <3> DEFINE c == x2 - x1
               l1 == y1 - (n * x1 + j)
               l2 == y2 - (n * x2 + j)
               sl == m * c - (y2 - y1)
    <3>2. (m - n) * c = sl + (l2 - l1)
      BY <1>2
    <3>3. IsMultiple(l1) /\ IsMultiple(l2) /\ IsMultiple(sl)
      BY <1>3, <3>1 DEF OnLine, ChordSlope
    <3>4. ~IsMultiple(c) /\ c \in Int
      BY <1>2, <3>1, DifferentFelts
    <3> HIDE DEF c, l1, l2, sl
    <3>5. IsMultiple((m - n) * c)
      BY <3>2, <3>3, MultipleSum
    <3> QED BY <3>4, <3>5, SlopeUnique
  <2> QED BY <2>1, <2>2
<1> HIDE DEF x1, y1, x2, y2, x, y, u, v
<1>7. k = j
  <2>1. k - j = (y1 - (n * x1 + j)) - (y1 - (m * x1 + k))
    BY <1>2, <1>6
  <2>2. IsMultiple(k - j)
    BY <1>3, <1>5, <2>1, MultipleSum DEF OnLine
  <2> QED BY <2>2, MultipleFelts
<1>8. x = u
  <2>1. x - u = ((x1 + x2 + x) - n * n) - ((x1 + x2 + u) - m * m)
    BY <1>2, <1>6
  <2>2. IsMultiple(x - u)
    BY <1>3, <1>5, <2>1, MultipleSum DEF CubicSum
  <2> QED BY <1>2, <2>2, MultipleFelts
<1>9. y = v
  <2>1. y - v = (y - (n * x + j)) - (v - (m * u + k))
    BY <1>2, <1>6, <1>7, <1>8
  <2>2. IsMultiple(y - v)
    BY <1>3, <1>5, <2>1, MultipleSum DEF OnLine
  <2> QED BY <1>2, <2>2, MultipleFelts
<1> QED BY <1>4, <1>8, <1>9

\* On points of the curve the formulas are the group's law: a chord between two abscissas, a
\* tangent where the ordinate is not zero.
LEMMA FormulaIsSum ==
    ASSUME NEW p \in AnyPoint, NEW q \in AnyPoint, NEW doubling \in BOOLEAN,
           doubling => p[2] # 0 /\ q[1] = p[1] /\ q[2] = p[2], ~doubling => p[1] # q[1],
           OnCurve(p), OnCurve(q)
    PROVE  LET f == Formula(p, q, doubling)
           IN  OnCurve(f) /\ f[3] = 0 /\ GroupSum[<<p[1], p[2]>>, <<q[1], q[2]>>] = <<f[1], f[2]>>
<1> DEFINE f == Formula(p, q, doubling)
           x1 == p[1]
           y1 == p[2]
           x2 == q[1]
           y2 == q[2]
           x3 == f[1]
           y3 == f[2]
           r == <<x3, Neg(y3)>>
           a == <<x1, y1>>
           b == <<x2, y2>>
<1>1. PICK m \in F, k \in F :
         /\ IF doubling THEN TangentSlope(m, x1, y1) ELSE ChordSlope(m, x1, y1, x2, y2)
         /\ OnLine(m, k, x1, y1)
         /\ CubicSum(m, x1, x2, x3)
         /\ OnLine(m, k, x3, -y3)
  <2> HIDE DEF f
  <2> QED BY FormulaEquations DEF f
<1>2. f \in AnyPoint /\ f[3] = 0
  <2>1. f \in AnyPoint
    <3> HIDE DEF f
    <3> QED BY FormulaIsPoint DEF f
  <2> QED BY <2>1 DEF Formula
<1> HIDE DEF f
<1>3. x1 \in F /\ y1 \in F /\ x2 \in F /\ y2 \in F /\ x3 \in F /\ y3 \in F
  BY <1>2 DEF AnyPoint
<1>4. CubicCurve(x1, y1) /\ CubicCurve(x2, y2)
  BY <1>3, CurveEquation
<1>5. /\ doubling => y1 # 0 /\ x2 = x1 /\ y2 = y1
      /\ ~doubling => x1 # x2
  OBVIOUS
<1> HIDE DEF x1, y1, x2, y2, x3, y3
<1>6. /\ x1 \in Int /\ y1 \in Int /\ x2 \in Int /\ y2 \in Int /\ x3 \in Int /\ y3 \in Int
      /\ -y3 \in Int /\ m \in Int /\ k \in Int
  <2>1. \A z \in F : z \in Int
    BY FeltIsResidue
  <2> QED BY <1>3, <2>1
<1>7. OnLine(m, k, x2, y2) /\ CubicPairs(m, k, x1, x2, x3)
  <2>1. CASE doubling
    <3>1. CubicPairs(m, k, x1, x1, x3)
      BY <1>1, <1>5, <1>6, <2>1, TangentPairs
    <3> QED BY <1>1, <1>5, <2>1, <3>1
  <2>2. CASE ~doubling
    <3>1. ~IsMultiple(x2 - x1)
      BY <1>3, <1>5, <2>2, DifferentFelts
    <3> QED BY <1>1, <1>4, <1>6, <2>2, <3>1, ChordPairs
  <2> QED BY <2>1, <2>2
<1>8. CubicProduct(k, x1, x2, x3) /\ CubicCurve(x3, -y3)
  BY <1>1, <1>4, <1>6, <1>7, LineMeetsCurve
<1>9. CubicCurve(x3, y3)
  <2>1. (-y3) * (-y3) = y3 * y3
    BY <1>6
  <2> QED BY <1>8, <2>1 DEF CubicCurve
<1>10. OnCurve(f)
  BY <1>3, <1>9, CurveEquation DEF x3, y3
<1> DEFINE z == Neg(y3)
<1>11. z \in F /\ z \in Int /\ Same(z, -y3)
  <2>1. Same(y3, y3)
    BY <1>6, SameAsItself
  <2>2. z \in F /\ Same(z, -y3)
    BY <2>1, SameOperations
  <2> QED BY <2>2, FeltIsResidue
<1> HIDE DEF z
<1>12. OnLine(m, k, x3, z)
  <2>1. z - (m * x3 + k) = (z - (-y3)) + ((-y3) - (m * x3 + k))
    BY <1>6, <1>11
  <2>2. IsMultiple(z - (-y3)) /\ IsMultiple((-y3) - (m * x3 + k))
    BY <1>1, <1>11 DEF Same, OnLine
  <2> QED BY <2>1, <2>2, MultipleSum DEF OnLine
<1>13. CubicCurve(x3, z)
  BY <1>1, <1>4, <1>6, <1>7, <1>11, <1>12, LineMeetsCurve
<1>14. a \in F \X F /\ b \in F \X F /\ r \in F \X F /\ r = <<x3, z>>
  BY <1>3, <1>11 DEF z
<1>15. a \in CurvePoints /\ b \in CurvePoints /\ r \in CurvePoints
  <2>1. OnCurve(a) /\ OnCurve(b) /\ OnCurve(r)
    BY <1>3, <1>4, <1>11, <1>13, <1>14, CurveEquation
  <2> QED BY <1>14, <2>1 DEF CurvePoints
<1> HIDE DEF r
<1>16. Collinear(a, b, r)
  <2>1. \A s \in {a, b, r} : OnLine(m, k, s[1], s[2])
    BY <1>1, <1>7, <1>12, <1>14
  <2>2. Line(m, k, a, b, r)
    <3> HIDE DEF a, b, OnLine, CubicSum, CubicPairs, CubicProduct
    <3>1. CubicSum(m, a[1], b[1], r[1]) /\ CubicPairs(m, k, a[1], b[1], r[1])
          /\ CubicProduct(k, a[1], b[1], r[1])
      BY <1>1, <1>7, <1>8, <1>14 DEF a, b
    <3> QED BY <1>14, <2>1, <3>1, LineEquations
  <2> QED BY <2>2 DEF Collinear, Line
<1>17. ASSUME NEW s \in CurvePoints, Collinear(a, b, s) PROVE s = r
  <2>1. b = a => a[2] # 0 /\ TangentSlope(m, a[1], a[2])
    BY <1>1, <1>5
  <2>2. b # a => a[1] # b[1] /\ ChordSlope(m, a[1], a[2], b[1], b[2])
    BY <1>1, <1>5
  <2>3. OnLine(m, k, a[1], a[2]) /\ OnLine(m, k, r[1], r[2]) /\ CubicSum(m, a[1], b[1], r[1])
    BY <1>1, <1>12, <1>14
  <2>4. s \in F \X F
    BY DEF CurvePoints
  <2> HIDE DEF a, b, OnLine, CubicSum
  <2> QED BY <1>14, <1>17, <2>1, <2>2, <2>3, <2>4, ThirdPoint
<1>18. b # Opposite(a)
  <2>1. SUFFICES ASSUME b = Opposite(a) PROVE FALSE
    OBVIOUS
  <2>2. x2 = x1 /\ y2 = Neg(y1)
    BY <2>1 DEF Opposite
  <2>3. doubling /\ y1 = Neg(y1) /\ y1 # 0
    BY <1>5, <2>2
  <2>4. IsMultiple(Neg(y1) + y1)
    BY <1>6, MultipleOperations
  <2>5. Neg(y1) + y1 = 2 * y1
    BY <1>6, <2>3
  <2> QED BY <1>3, <2>3, <2>4, <2>5, TwiceFelt
<1>19. (CHOOSE s \in CurvePoints : Collinear(a, b, s)) = r
  <2> HIDE DEF a, b
  <2> QED BY <1>15, <1>16, <1>17
<1>20. GroupSum[a, b] = Opposite(r)
  <2>1. a \in Elements /\ b \in Elements /\ a # <<>> /\ b # <<>>
    BY <1>15 DEF Elements
  <2> HIDE DEF a, b
  <2>2. GroupSum[a, b] = GroupLaw(a, b)
    BY <2>1, GroupSumUnfolds
  <2> QED BY <1>18, <1>19, <2>1, <2>2 DEF GroupLaw
<1>21. Opposite(r) = <<x3, y3>>
  <2>1. Opposite(r) = <<x3, Neg(z)>>
    BY <1>14 DEF Opposite
  <2>2. Same(z, -y3) /\ Same(y3, y3)
    BY <1>6, <1>11, SameAsItself
  <2>3. Same(Neg(z), -(-y3)) /\ Neg(z) \in F
    BY <2>2, SameOperations
  <2>4. Neg(z) = y3 <=> IsMultiple((-(-y3)) - y3)
    BY <1>3, <2>2, <2>3, SameFelts
  <2>5. IsMultiple((-(-y3)) - y3)
    <3>1. (-(-y3)) - y3 = P * 0 /\ (-(-y3)) - y3 \in Int
      BY <1>6, PrimeAssumption
    <3> QED BY <3>1 DEF IsMultiple
  <2> QED BY <2>1, <2>4, <2>5
<1> QED BY <1>2, <1>10, <1>20, <1>21 DEF f, x1, y1, x2, y2, x3, y3

\* A point of the curve, or at infinity, whatever its coordinates there.
LEMMA ValidElement ==
    ASSUME NEW p \in AnyPoint, ValidPoint(p)
    PROVE  Element(p) \in Elements /\ (Element(p) = <<>> <=> p[3] = 1)
<1>1. CASE p[3] = 1
  BY <1>1 DEF Element, Elements
<1>2. CASE p[3] # 1
  <2>1. p[3] = 0 /\ OnCurve(p)
    BY <1>2 DEF ValidPoint
  <2>2. OnCurve(p) <=> OnCurve(<<p[1], p[2]>>)
    BY DEF OnCurve
  <2>3. <<p[1], p[2]>> \in CurvePoints
    BY <2>1, <2>2 DEF CurvePoints, AnyPoint
  <2> QED BY <1>2, <2>3 DEF Element, Elements
<1> QED BY <1>1, <1>2

\* Two points of the curve with one abscissa are the same or opposite.
LEMMA SameAbscissa ==
    ASSUME NEW x \in F, NEW y \in F, NEW z \in F, CubicCurve(x, y), CubicCurve(x, z), y # z
    PROVE  z = Neg(y)
<1>1. x \in Int /\ y \in Int /\ z \in Int /\ CurveB \in Int
  BY FeltIsResidue, GrumpkinAssumption
<1> DEFINE c == y - z
           d == y + z
<1>2. c * d = (y * y - (x * x * x + CurveB)) - (z * z - (x * x * x + CurveB))
  BY <1>1
<1>3. IsMultiple(c * d)
  BY <1>2, MultipleSum DEF CubicCurve
<1>4. c \in Int /\ d \in Int /\ ~IsMultiple(c)
  BY <1>1, DifferentFelts
<1>5. IsMultiple(d)
  <2> HIDE DEF c, d
  <2> QED BY <1>3, <1>4, MultiplePrime
<1>6. Same(y, y) /\ Same(z, z)
  BY <1>1, SameAsItself
<1>7. Same(Neg(y), -y) /\ Neg(y) \in F
  BY <1>6, SameOperations
<1>8. z = Neg(y) <=> IsMultiple(z - (-y))
  BY <1>6, <1>7, SameFelts
<1>9. z - (-y) = y + z
  BY <1>1
<1> QED BY <1>5, <1>8, <1>9

\* The helper's addition is the group's law on every pair of valid points: of the points at
\* infinity only one of the operands reaches the sum, as it came.
LEMMA AddIsSum ==
    ASSUME NEW p \in AnyPoint, NEW q \in AnyPoint, ValidPoint(p), ValidPoint(q)
    PROVE  /\ Add(p, q) \in AnyPoint /\ ValidPoint(Add(p, q))
           /\ Element(Add(p, q)) = GroupSum[Element(p), Element(q)]
           /\ (p[3] = 1 => p = Infinity) /\ (q[3] = 1 => q = Infinity)
                => (Add(p, q)[3] = 1 => Add(p, q) = Infinity)
<1>1. /\ Add(p, q) \in AnyPoint
      /\ Element(p) \in Elements /\ Element(q) \in Elements
      /\ Element(p) = <<>> <=> p[3] = 1
      /\ Element(q) = <<>> <=> q[3] = 1
      /\ p[3] \in {0, 1} /\ q[3] \in {0, 1}
  BY AddIsPoint, ValidElement DEF ValidPoint
<1>2. GroupSum[Element(p), Element(q)] = GroupLaw(Element(p), Element(q))
  BY <1>1, GroupSumUnfolds
<1>3. CASE p[3] = 1
  <2>1. Add(p, q) = q
    BY <1>3 DEF Add
  <2>2. GroupLaw(Element(p), Element(q)) = Element(q)
    BY <1>1, <1>3 DEF GroupLaw
  <2> QED BY <1>1, <1>2, <2>1, <2>2
<1>4. CASE p[3] = 0 /\ q[3] = 1
  <2>1. Add(p, q) = p
    BY <1>4 DEF Add
  <2>2. GroupLaw(Element(p), Element(q)) = Element(p)
    BY <1>1, <1>4 DEF GroupLaw
  <2> QED BY <1>1, <1>2, <2>1, <2>2
<1>5. CASE p[3] = 0 /\ q[3] = 0
  <2>1. OnCurve(p) /\ OnCurve(q) /\ Add(p, q) = AffineAdd(p, q)
    BY <1>5 DEF ValidPoint, Add
  <2>2. Element(p) = <<p[1], p[2]>> /\ Element(q) = <<q[1], q[2]>>
    BY <1>5 DEF Element
  <2>3. /\ p[1] \in F /\ p[2] \in F /\ q[1] \in F /\ q[2] \in F
    BY DEF AnyPoint
  <2>4. ASSUME NEW f, f = Add(p, q), OnCurve(f), f[3] = 0,
               GroupSum[<<p[1], p[2]>>, <<q[1], q[2]>>] = <<f[1], f[2]>>
        PROVE  /\ ValidPoint(f) /\ Element(f) = GroupSum[Element(p), Element(q)] /\ f[3] # 1
    BY <2>2, <2>4 DEF ValidPoint, Element
  <2>5. CASE p[1] # q[1]
    <3> DEFINE f == Formula(p, q, FALSE)
    <3>1. f = Add(p, q)
      BY <2>1, <2>5 DEF AffineAdd
    <3>2. OnCurve(f) /\ f[3] = 0 /\ GroupSum[<<p[1], p[2]>>, <<q[1], q[2]>>] = <<f[1], f[2]>>
      BY <2>1, <2>5, FormulaIsSum
    <3> HIDE DEF f
    <3> QED BY <1>1, <2>4, <3>1, <3>2
  <2>6. CASE p[1] = q[1] /\ p[2] = q[2] /\ p[2] # 0
    <3> DEFINE f == Formula(p, q, TRUE)
    <3>1. f = Add(p, q)
      BY <2>1, <2>6 DEF AffineAdd
    <3>2. OnCurve(f) /\ f[3] = 0 /\ GroupSum[<<p[1], p[2]>>, <<q[1], q[2]>>] = <<f[1], f[2]>>
      BY <2>1, <2>6, FormulaIsSum
    <3> HIDE DEF f
    <3> QED BY <1>1, <2>4, <3>1, <3>2
  <2>7. CASE p[1] = q[1] /\ (p[2] # q[2] \/ p[2] = 0)
    <3>1. Add(p, q) = Infinity
      BY <2>1, <2>7 DEF AffineAdd
    <3>2. CubicCurve(p[1], p[2]) /\ CubicCurve(p[1], q[2])
      BY <2>1, <2>3, <2>7, CurveEquation
    <3>3. q[2] = Neg(p[2])
      <4>1. CASE p[2] # q[2]
        BY <2>3, <3>2, <4>1, SameAbscissa
      <4>2. CASE p[2] = q[2] /\ p[2] = 0
        <5>1. Neg(0) \in F /\ Plus(0, Neg(0)) = 0
          BY SmallFelts, PlusNeg
        <5>2. Neg(0) = 0
          BY <5>1, PlusZero
        <5> QED BY <4>2, <5>2
      <4> QED BY <2>7, <4>1, <4>2
    <3>4. Element(q) = Opposite(Element(p))
      BY <2>2, <2>7, <3>3 DEF Opposite
    <3>5. GroupSum[Element(p), Element(q)] = <<>>
      BY <1>1, <1>2, <1>5, <3>4 DEF GroupLaw
    <3>6. Infinity[3] = 1
      BY DEF Infinity
    <3>7. ValidPoint(Infinity) /\ Element(Infinity) = <<>>
      BY <3>6 DEF ValidPoint, Element
    <3> QED BY <1>1, <3>1, <3>5, <3>7
  <2> QED BY <2>5, <2>6, <2>7
<1> QED BY <1>1, <1>3, <1>4, <1>5

\* The sum of two elements is an element.
LEMMA SumIsElement ==
    ASSUME NEW a \in Elements, NEW b \in Elements
    PROVE  GroupSum[a, b] \in Elements
<1> DEFINE Pt(e) == IF e = <<>> THEN Infinity ELSE <<e[1], e[2], 0>>
<1>1. ASSUME NEW e \in Elements PROVE Pt(e) \in AnyPoint /\ ValidPoint(Pt(e)) /\ Element(Pt(e)) = e
  <2>1. CASE e = <<>>
    BY <2>1, InfinityIsPoint DEF ValidPoint, Element, Infinity
  <2>2. CASE e # <<>>
    <3>1. e \in F \X F /\ OnCurve(e)
      BY <2>2 DEF Elements, CurvePoints
    <3>2. OnCurve(Pt(e)) /\ Pt(e) \in AnyPoint /\ Pt(e)[3] = 0
      BY <2>2, <3>1, SmallFelts DEF OnCurve, AnyPoint
    <3> QED BY <2>2, <3>1, <3>2 DEF ValidPoint, Element
  <2> QED BY <2>1, <2>2
<1> HIDE DEF Pt
<1> DEFINE p == Pt(a)
           q == Pt(b)
           s == Add(p, q)
<1>3. /\ p \in AnyPoint /\ ValidPoint(p) /\ Element(p) = a
      /\ q \in AnyPoint /\ ValidPoint(q) /\ Element(q) = b
  BY <1>1
<1> HIDE DEF p, q
<1>2. s \in AnyPoint /\ ValidPoint(s) /\ Element(s) = GroupSum[a, b]
  BY <1>3, AddIsSum
<1> HIDE DEF s
<1> QED BY <1>2, ValidElement

---------------------------------------------------------------------------
\* Multiples and bits

Most == TwoTo(TotalBits) - 1

LEMMA MostIsNat == TotalBits \in Nat /\ Most \in Nat
<1>1. TotalBits \in Nat
  BY GrumpkinAssumption
<1> QED BY <1>1, PowersGrow DEF Most

\* The multiples of an element.
LEMMA MultiplesUnfold ==
    ASSUME NEW e \in Elements
    PROVE  /\ GroupMultiple[e] \in [0 .. Most -> Elements]
           /\ GroupMultiple[e][0] = <<>>
           /\ \A k \in 1 .. Most : GroupMultiple[e][k] = GroupSum[GroupMultiple[e][k - 1], e]
<1> DEFINE n == Most
           zero == <<>>
           Grow(a) == GroupSum[a, e]
           step == [k \in 1 .. n |-> [a \in Elements |-> Grow(a)]]
           Multiples(f) == f = [k \in 0 .. n |-> IF k = 0 THEN zero ELSE Grow(f[k - 1])]
           times == CHOOSE f : Multiples(f)
<1>1. n \in Nat
  BY MostIsNat
<1>2. GroupMultiple[e] = [k \in 0 .. n |-> times[k]]
  BY DEF GroupMultiple, Most
<1>4. zero \in Elements
  BY DEF Elements
<1>0. \A a \in Elements : Grow(a) \in Elements
  BY SumIsElement
<1> HIDE DEF n, zero, Grow
<1>3. step \in [1 .. n -> [Elements -> Elements]]
  BY <1>0
<1>5. \E f \in [0 .. n -> Elements] : Follows(f, n, zero, step)
  <2> HIDE DEF step
  <2> QED BY <1>1, <1>3, <1>4, UpToRecursion
<1>6. PICK f \in [0 .. n -> Elements] : Follows(f, n, zero, step)
  BY <1>5
<1>7. f[0] = zero /\ \A k \in 1 .. n : f[k] = Grow(f[k - 1])
  <2>1. ASSUME NEW k \in 1 .. n, NEW a \in Elements PROVE step[k][a] = Grow(a)
    OBVIOUS
  <2> HIDE DEF step
  <2>2. \A k \in 1 .. n : f[k] = step[k][f[k - 1]] /\ f[k - 1] \in Elements
    BY <1>1, <1>6 DEF Follows
  <2> QED BY <1>1, <1>6, <2>1, <2>2 DEF Follows
<1> HIDE DEF step
<1>8. Multiples(f)
  <2>1. \A k \in 0 .. n : f[k] = IF k = 0 THEN zero ELSE Grow(f[k - 1])
    BY <1>1, <1>7
  <2> QED BY <2>1
<1>9. Multiples(times)
  <2> HIDE DEF Multiples
  <2> QED BY <1>8
<1> HIDE DEF times
<1>10. times[0] = zero /\ \A k \in 1 .. n : times[k] = Grow(times[k - 1])
  BY <1>1, <1>9
<1> DEFINE S == {k \in 0 .. n : times[k] \in Elements}
<1>11. ASSUME NEW k \in 0 .. n - 1, k \in S PROVE k + 1 \in S
  <2>1. k + 1 \in 1 .. n /\ (k + 1) - 1 = k /\ k + 1 \in 0 .. n
    BY <1>1
  <2>2. times[k + 1] = Grow(times[k])
    BY <1>10, <2>1
  <2> QED BY <1>0, <1>11, <2>1, <2>2
<1>12. 0 \in S
  BY <1>1, <1>4, <1>10
<1>13. \A k \in 0 .. n : k \in S
  <2> HIDE DEF S
  <2> QED BY <1>1, <1>11, <1>12, UpToInduction
<1> HIDE DEF Multiples
<1>14. /\ GroupMultiple[e] \in [0 .. n -> Elements]
       /\ \A k \in 0 .. n : GroupMultiple[e][k] = times[k]
  BY <1>2, <1>13
<1>15. 0 \in 0 .. n /\ \A k \in 1 .. n : k \in 0 .. n /\ k - 1 \in 0 .. n
  BY <1>1
<1> QED BY <1>10, <1>14, <1>15 DEF n, zero, Grow

\* The point at infinity is neutral.
LEMMA ZeroElement ==
    ASSUME NEW a \in Elements
    PROVE  GroupSum[a, <<>>] = a /\ GroupSum[<<>>, a] = a
<1>1. <<>> \in Elements
  BY DEF Elements
<1>2. GroupSum[a, <<>>] = GroupLaw(a, <<>>) /\ GroupSum[<<>>, a] = GroupLaw(<<>>, a)
  BY <1>1, GroupSumUnfolds
<1> QED BY <1>2 DEF GroupLaw

\* Multiples add up: the law is associative.
LEMMA MultiplesAdd ==
    ASSUME NEW e \in Elements, NEW a \in Nat, NEW b \in Nat, a + b \in 0 .. Most
    PROVE  GroupSum[GroupMultiple[e][a], GroupMultiple[e][b]] = GroupMultiple[e][a + b]
<1> DEFINE M == GroupMultiple[e]
           n == Most - a
           zero == <<>>
           Grow(x) == GroupSum[x, e]
           Beyond(x) == GroupSum[M[a], x]
           S == {k \in 0 .. n : Beyond(M[k]) = M[a + k]}
<1>1. /\ M \in [0 .. Most -> Elements] /\ M[0] = zero
      /\ \A k \in 1 .. Most : M[k] = Grow(M[k - 1])
  BY MultiplesUnfold
<1> HIDE DEF M, zero, Grow
<1>2. Most \in Nat /\ n \in Nat /\ a \in 0 .. Most /\ b \in 0 .. n
  BY MostIsNat
<1>3. M[a] \in Elements
  BY <1>1, <1>2
<1>4. Beyond(zero) = M[a]
  BY <1>3, ZeroElement DEF zero
<1>5. \A x \in Elements : Grow(Beyond(x)) = Beyond(Grow(x))
  BY <1>3, AssociativityAssumption DEF Grow
<1> HIDE DEF Beyond
<1>6. 0 \in S
  BY <1>1, <1>2, <1>4
<1>7. ASSUME NEW k \in 0 .. n - 1, k \in S PROVE k + 1 \in S
  <2>1. /\ k + 1 \in 1 .. Most /\ (k + 1) - 1 = k /\ k \in 0 .. Most /\ a + k \in 0 .. Most
        /\ a + (k + 1) \in 1 .. Most /\ (a + (k + 1)) - 1 = a + k /\ k + 1 \in 0 .. n
    BY <1>2
  <2>2. M[k + 1] = Grow(M[k]) /\ M[a + (k + 1)] = Grow(M[a + k])
    BY <1>1, <2>1
  <2>3. M[k] \in Elements
    BY <1>1, <2>1
  <2>4. Grow(Beyond(M[k])) = Beyond(Grow(M[k]))
    BY <1>5, <2>3
  <2> QED BY <1>7, <2>1, <2>2, <2>4
<1>8. \A k \in 0 .. n : k \in S
  <2> HIDE DEF S
  <2> QED BY <1>2, <1>6, <1>7, UpToInduction
<1>9. Beyond(M[b]) = M[a + b]
  BY <1>2, <1>8
<1> QED BY <1>9 DEF M, Beyond

\* What a quotient is.
LEMMA QuotientIs ==
    ASSUME NEW m \in Nat \ {0}, NEW h \in Nat, NEW r \in Nat, r < m
    PROVE  (r + m * h) \div m = h
<1> DEFINE v == r + m * h
           a == v \div m
           s == v % m
<1>1. v \in Nat /\ v = r + m * h
  OBVIOUS
<1> HIDE DEF v
<1>2. a \in Int /\ s \in 0 .. m - 1 /\ v = m * a + s
  BY <1>1
<1> HIDE DEF a, s
<1>3. m * (a - h) = r - s
  BY <1>1, <1>2
<1>4. ASSUME a - h >= 1 PROVE FALSE
  <2>1. m * (a - h) >= m * 1
    BY <1>2, <1>4
  <2> QED BY <1>2, <1>3, <2>1
<1>5. ASSUME h - a >= 1 PROVE FALSE
  <2>1. m * (h - a) >= m * 1 /\ m * (h - a) = -(m * (a - h))
    BY <1>2, <1>5
  <2> QED BY <1>2, <1>3, <2>1
<1>6. a = h
  BY <1>2, <1>4, <1>5
<1> QED BY <1>6 DEF a, v

\* The number that n bits write, low to high.
Value(digits, n) ==
    LET value[i \in 0 .. n] ==
            IF i = 0 THEN 0 ELSE value[i - 1] + digits[i] * TwoTo(i - 1)
    IN  value[n]

\* Its partial sums, and the powers of two they are below.
AreValues(digits, n, v, p) ==
    /\ v \in [0 .. n -> Nat] /\ p \in [0 .. n -> Nat \ {0}]
    /\ v[0] = 0 /\ \A i \in 1 .. n : v[i] = v[i - 1] + digits[i] * p[i - 1]
    /\ p[0] = 1 /\ \A i \in 1 .. n : p[i] = 2 * p[i - 1]
    /\ \A i \in 0 .. n : TwoTo(i) = p[i] /\ v[i] < p[i]
    /\ Value(digits, n) = v[n]

LEMMA ValueUnfolds ==
    ASSUME NEW n \in Nat, NEW digits, \A i \in 1 .. n : digits[i] \in {0, 1}
    PROVE  \E v, p : AreValues(digits, n, v, p)
<1>1. PICK p \in [0 .. n -> Nat] :
         p[0] = 1 /\ (\A k \in 1 .. n : p[k] = 2 * p[k - 1]) /\ \A m \in 0 .. n : TwoTo(m) = p[m]
  BY PowersUpTo
<1>2. \A m \in 0 .. n : p[m] \in Nat \ {0}
  <2>1. ASSUME NEW m \in 0 .. n PROVE p[m] \in Nat \ {0}
    <3>1. m \in Nat /\ m \in 0 .. m
      OBVIOUS
    <3>2. TwoTo(m) \in Nat \ {0}
      BY <3>1, PowersGrow
    <3> QED BY <1>1, <3>2
  <2> QED BY <2>1
<1> DEFINE step == [k \in 1 .. n |-> [a \in Nat |-> a + digits[k] * p[k - 1]]]
           Values(f) == f = [i \in 0 .. n |-> IF i = 0 THEN 0 ELSE f[i - 1] + digits[i] * TwoTo(i - 1)]
           value == CHOOSE f : Values(f)
<1>3. Value(digits, n) = value[n]
  BY DEF Value
<1>4. step \in [1 .. n -> [Nat -> Nat]]
  <2>1. ASSUME NEW k \in 1 .. n, NEW a \in Nat PROVE a + digits[k] * p[k - 1] \in Nat
    <3>1. digits[k] \in {0, 1} /\ p[k - 1] \in Nat
      OBVIOUS
    <3> QED BY <3>1
  <2> QED BY <2>1
<1>5. PICK f \in [0 .. n -> Nat] : Follows(f, n, 0, step)
  <2> HIDE DEF step
  <2> QED BY <1>4, UpToRecursion
<1>6. f[0] = 0 /\ \A k \in 1 .. n : f[k] = f[k - 1] + digits[k] * p[k - 1]
  <2>1. ASSUME NEW k \in 1 .. n, NEW a \in Nat PROVE step[k][a] = a + digits[k] * p[k - 1]
    OBVIOUS
  <2> HIDE DEF step
  <2>2. \A k \in 1 .. n : f[k] = step[k][f[k - 1]] /\ f[k - 1] \in Nat
    BY <1>5 DEF Follows
  <2> QED BY <1>5, <2>1, <2>2 DEF Follows
<1> HIDE DEF step
<1>7. \A k \in 1 .. n : TwoTo(k - 1) = p[k - 1]
  BY <1>1
<1>8. Values(f)
  <2>1. \A i \in 0 .. n : f[i] = IF i = 0 THEN 0 ELSE f[i - 1] + digits[i] * TwoTo(i - 1)
    BY <1>6, <1>7
  <2> QED BY <2>1
<1>9. Values(value)
  <2> HIDE DEF Values
  <2> QED BY <1>8
<1> HIDE DEF value
<1>10. value[0] = 0 /\ \A k \in 1 .. n : value[k] = value[k - 1] + digits[k] * p[k - 1]
  BY <1>7, <1>9
<1> DEFINE S == {k \in 0 .. n : value[k] \in Nat /\ value[k] < p[k]}
<1>11. ASSUME NEW k \in 0 .. n - 1, k \in S PROVE k + 1 \in S
  <2>1. k + 1 \in 1 .. n /\ (k + 1) - 1 = k /\ k + 1 \in 0 .. n
    OBVIOUS
  <2>2. value[k + 1] = value[k] + digits[k + 1] * p[k] /\ p[k + 1] = 2 * p[k]
    BY <1>1, <1>10, <2>1
  <2>3. digits[k + 1] \in {0, 1} /\ p[k] \in Nat
    BY <2>1
  <2>4. value[k] \in Nat /\ value[k] < p[k]
    BY <1>11
  <2>5. digits[k + 1] * p[k] = 0 \/ digits[k + 1] * p[k] = p[k]
    BY <2>3
  <2>6. value[k + 1] \in Nat /\ value[k + 1] < p[k + 1]
    BY <2>2, <2>3, <2>4, <2>5, SMTT(40)
  <2> QED BY <2>1, <2>6
<1>12. 0 \in S
  BY <1>1, <1>10
<1>13. \A k \in 0 .. n : k \in S
  <2> HIDE DEF S
  <2> QED BY <1>11, <1>12, UpToInduction
<1>14. value \in [0 .. n -> Nat]
  BY <1>9, <1>13
<1>15. p \in [0 .. n -> Nat \ {0}]
  BY <1>2
<1> HIDE DEF Values
<1>16. AreValues(digits, n, value, p)
  BY <1>1, <1>3, <1>10, <1>13, <1>14, <1>15 DEF AreValues
<1> QED BY <1>16

\* The values of the bits above each place: doubled, and the next bit added.
LEMMA ValueTop ==
    ASSUME NEW n \in Nat, NEW digits, \A i \in 1 .. n : digits[i] \in {0, 1}
    PROVE  LET v == Value(digits, n)
           IN  /\ v \in 0 .. TwoTo(n) - 1 /\ v \div TwoTo(n) = 0 /\ v \div TwoTo(0) = v
               /\ \A i \in 1 .. n :
                     /\ v \div TwoTo(i) \in Nat
                     /\ v \div TwoTo(i - 1) = 2 * (v \div TwoTo(i)) + digits[i]
<1>1. PICK v, p : AreValues(digits, n, v, p)
  BY ValueUnfolds
<1> USE <1>1 DEF AreValues
<1> DEFINE w == v[n]
           Top(i, h) == h \in Nat /\ w = v[i] + p[i] * h
<1>2. ASSUME NEW i \in 0 .. n, NEW h \in Nat, Top(i, h) PROVE w \div p[i] = h
  <2>1. v[i] \in Nat /\ p[i] \in Nat \ {0} /\ v[i] < p[i]
    OBVIOUS
  <2> DEFINE a == v[i]
             q == p[i]
  <2> HIDE DEF a, q
  <2>2. (a + q * h) \div q = h
    BY <2>1, QuotientIs DEF a, q
  <2>3. w = a + q * h
    BY <1>2 DEF a, q
  <2> HIDE DEF w
  <2> QED BY <2>2, <2>3 DEF q
<1>3. ASSUME NEW i \in 1 .. n, NEW h \in Nat, Top(i, h)
      PROVE  Top(i - 1, 2 * h + digits[i])
  <2> DEFINE a == v[i - 1]
             q == p[i - 1]
             d == digits[i]
  <2>1. a \in Nat /\ q \in Nat /\ d \in {0, 1} /\ v[i] = a + d * q /\ p[i] = 2 * q
    OBVIOUS
  <2>2. w = v[i] + p[i] * h
    BY <1>3
  <2> HIDE DEF a, q, d, w
  <2>3. w = (a + d * q) + (2 * q) * h
    BY <2>1, <2>2
  <2>4. (a + d * q) + (2 * q) * h = a + q * (2 * h + d) /\ 2 * h + d \in Nat
    BY <2>1
  <2>5. Top(i - 1, 2 * h + d)
    BY <2>3, <2>4 DEF a, q
  <2> QED BY <2>5 DEF d
<1> DEFINE S == {j \in 0 .. n : \E h \in Nat : Top(n - j, h)}
<1>4. 0 \in S
  <2>1. w \in Nat /\ p[n] \in Nat /\ n - 0 = n
    OBVIOUS
  <2>2. Top(n - 0, 0)
    BY <2>1
  <2> QED BY <2>2
<1>5. ASSUME NEW j \in 0 .. n - 1, j \in S PROVE j + 1 \in S
  <2>1. PICK h \in Nat : Top(n - j, h)
    BY <1>5
  <2>2. n - j \in 1 .. n /\ n - (j + 1) = (n - j) - 1 /\ j + 1 \in 0 .. n
    OBVIOUS
  <2> HIDE DEF Top
  <2>3. Top((n - j) - 1, 2 * h + digits[n - j]) /\ 2 * h + digits[n - j] \in Nat
    <3>1. Top((n - j) - 1, 2 * h + digits[n - j])
      BY <1>3, <2>1, <2>2
    <3> QED BY <3>1 DEF Top
  <2> QED BY <2>2, <2>3
<1>6. \A j \in 0 .. n : j \in S
  <2> HIDE DEF S
  <2> QED BY <1>4, <1>5, UpToInduction
<1>7. ASSUME NEW i \in 0 .. n PROVE \E h \in Nat : Top(i, h)
  <2>1. n - i \in 0 .. n /\ n - (n - i) = i
    OBVIOUS
  <2>2. n - i \in S
    BY <1>6, <2>1
  <2> HIDE DEF Top
  <2> QED BY <2>1, <2>2
<1> HIDE DEF S, Top
<1>8. ASSUME NEW i \in 1 .. n
      PROVE  w \div p[i] \in Nat /\ w \div p[i - 1] = 2 * (w \div p[i]) + digits[i]
  <2>1. i \in 0 .. n /\ i - 1 \in 0 .. n
    OBVIOUS
  <2>2. PICK h \in Nat : Top(i, h)
    BY <1>7, <2>1
  <2>3. Top(i - 1, 2 * h + digits[i])
    BY <1>3, <2>2
  <2>4. 2 * h + digits[i] \in Nat
    BY <2>3 DEF Top
  <2>5. w \div p[i] = h /\ w \div p[i - 1] = 2 * h + digits[i]
    BY <1>2, <2>1, <2>2, <2>3, <2>4
  <2> QED BY <2>5
<1>9. w \in Nat /\ w < p[n] /\ p[n] \in Nat /\ w \div p[n] = 0
  <2>1. Top(n, 0)
    BY DEF Top
  <2> QED BY <1>2, <2>1
<1>10. w \div p[0] = w
  BY <1>9
<1>11. \A i \in 0 .. n : TwoTo(i) = p[i]
  OBVIOUS
<1>12. \A i \in 1 .. n : TwoTo(i) = p[i] /\ TwoTo(i - 1) = p[i - 1]
  BY <1>11
<1>13. Value(digits, n) = w
  OBVIOUS
<1> HIDE <1>1
<1> HIDE DEF AreValues, w
<1>14. TwoTo(n) = p[n] /\ TwoTo(0) = p[0]
  BY <1>11
<1>15. w \in 0 .. TwoTo(n) - 1 /\ w \div TwoTo(n) = 0 /\ w \div TwoTo(0) = w
  BY <1>9, <1>10, <1>14
<1>16. \A i \in 1 .. n :
         /\ w \div TwoTo(i) \in Nat
         /\ w \div TwoTo(i - 1) = 2 * (w \div TwoTo(i)) + digits[i]
  BY <1>8, <1>12
<1> QED BY <1>13, <1>15, <1>16, Zenon

\* Bits that a felt can hold are reconstructed without overflow.
LEMMA ReconstructIs ==
    ASSUME NEW n \in Nat, NEW digits \in [1 .. n -> {0, 1}], TwoTo(n) <= P
    PROVE  Reconstruct(digits) = Value(digits, n)
<1>0. P \in Nat /\ \A i \in 1 .. n : digits[i] \in {0, 1}
  BY PrimeAssumption
<1>1. PICK v, p : AreValues(digits, n, v, p)
  BY <1>0, ValueUnfolds
<1>2. /\ v \in [0 .. n -> Nat] /\ p \in [0 .. n -> Nat \ {0}]
      /\ v[0] = 0 /\ \A i \in 1 .. n : v[i] = v[i - 1] + digits[i] * p[i - 1]
      /\ \A i \in 0 .. n : TwoTo(i) = p[i] /\ v[i] < p[i]
      /\ Value(digits, n) = v[n]
  BY <1>1 DEF AreValues
<1>3. ASSUME NEW i \in 0 .. n PROVE v[i] \in F
  <2>1. TwoTo(i) <= TwoTo(n) /\ TwoTo(i) \in Nat /\ TwoTo(n) \in Nat
    BY PowersGrow
  <2>2. v[i] \in Nat /\ v[i] < TwoTo(i)
    BY <1>2
  <2> QED BY <1>0, <2>1, <2>2 DEF F
<1> DEFINE xs == [i \in 1 .. n |-> Times(digits[i], Pow2(i - 1))]
<1>4. ASSUME NEW i \in 1 .. n PROVE xs[i] \in F /\ Same(xs[i], digits[i] * p[i - 1])
  <2> DEFINE q == p[i - 1]
             d == digits[i]
             z == Pow2(i - 1)
  <2>1. i - 1 \in 0 .. n /\ d \in {0, 1}
    OBVIOUS
  <2>2. q \in Int /\ z = q % P
    BY <1>2, <2>1 DEF Pow2
  <2> HIDE DEF q, d, z
  <2>3. Same(z, q) /\ Same(d, d)
    BY <2>1, <2>2, MultipleResidue, SameAsItself DEF Same
  <2>4. Same(Times(d, z), d * q) /\ Times(d, z) \in F
    BY <2>3, SameOperations
  <2> QED BY <2>4 DEF q, d, z
<1>5. xs \in [1 .. n -> F]
  BY <1>4
<1>6. Reconstruct(digits) = Sum(xs)
  BY DEF Reconstruct
<1> HIDE DEF xs
<1>7. PICK s \in [0 .. n -> F] :
         Sum(xs) = s[n] /\ s[0] = 0 /\ \A k \in 1 .. n : s[k] = Plus(s[k - 1], xs[k])
  BY <1>5, SumUnfolds
<1> DEFINE S == {k \in 0 .. n : s[k] = v[k]}
<1>8. 0 \in S
  BY <1>2, <1>7
<1>9. ASSUME NEW k \in 0 .. n - 1, k \in S PROVE k + 1 \in S
  <2>1. k + 1 \in 1 .. n /\ (k + 1) - 1 = k /\ k + 1 \in 0 .. n /\ k \in 0 .. n
    OBVIOUS
  <2> DEFINE a == v[k]
             x == xs[k + 1]
             w == digits[k + 1] * p[k]
             b == v[k + 1]
  <2>2. s[k + 1] = Plus(a, x) /\ b = a + w
    BY <1>2, <1>7, <1>9, <2>1
  <2>3. a \in F /\ b \in F /\ Same(x, w) /\ x \in F
    BY <1>3, <1>4, <2>1
  <2> HIDE DEF a, x, w, b
  <2>4. Same(a, a) /\ Same(b, b)
    BY <2>3, FeltIsResidue, SameAsItself
  <2>5. Same(Plus(a, x), a + w) /\ Plus(a, x) \in F
    BY <2>3, <2>4, SameOperations
  <2>6. Same(Plus(a, x), b)
    BY <2>2, <2>5
  <2>7. Plus(a, x) = b <=> IsMultiple(b - b)
    BY <2>3, <2>4, <2>5, <2>6, SameFelts
  <2>8. IsMultiple(b - b)
    BY <2>4 DEF Same
  <2> QED BY <2>1, <2>2, <2>7, <2>8 DEF b
<1>10. \A k \in 0 .. n : k \in S
  <2> HIDE DEF S
  <2> QED BY <1>8, <1>9, UpToInduction
<1>11. s[n] = v[n]
  BY <1>10
<1> QED BY <1>2, <1>6, <1>7, <1>11

\* The value of bits in two parts.
LEMMA ValueOfTwo ==
    ASSUME NEW n \in Nat, NEW m \in Nat, NEW digits, NEW lo, NEW hi,
           \A i \in 1 .. n + m : digits[i] \in {0, 1},
           \A i \in 1 .. n : lo[i] = digits[i], \A i \in 1 .. m : hi[i] = digits[n + i]
    PROVE  Value(digits, n + m) = Value(lo, n) + TwoTo(n) * Value(hi, m)
<1>0. /\ n + m \in Nat /\ \A i \in 1 .. n : i \in 1 .. n + m
      /\ \A i \in 1 .. m : n + i \in 1 .. n + m
  OBVIOUS
<1>1. PICK v, p : AreValues(digits, n + m, v, p)
  <2> DEFINE j == n + m
  <2> HIDE DEF j
  <2>1. \E v, p : AreValues(digits, j, v, p)
    BY <1>0, ValueUnfolds DEF j
  <2> QED BY <2>1 DEF j
<1>2. PICK a, q : AreValues(lo, n, a, q)
  BY <1>0, ValueUnfolds
<1>3. PICK b, r : AreValues(hi, m, b, r)
  BY <1>0, ValueUnfolds
<1>4. /\ v \in [0 .. n + m -> Nat] /\ p \in [0 .. n + m -> Nat]
      /\ a \in [0 .. n -> Nat] /\ q \in [0 .. n -> Nat]
      /\ b \in [0 .. m -> Nat] /\ r \in [0 .. m -> Nat]
      /\ v[0] = 0 /\ a[0] = 0 /\ b[0] = 0 /\ p[0] = 1 /\ q[0] = 1 /\ r[0] = 1
      /\ \A i \in 1 .. n + m : v[i] = v[i - 1] + digits[i] * p[i - 1] /\ p[i] = 2 * p[i - 1]
      /\ \A i \in 1 .. n : a[i] = a[i - 1] + lo[i] * q[i - 1] /\ q[i] = 2 * q[i - 1]
      /\ \A i \in 1 .. m : b[i] = b[i - 1] + hi[i] * r[i - 1] /\ r[i] = 2 * r[i - 1]
      /\ Value(digits, n + m) = v[n + m] /\ Value(lo, n) = a[n] /\ Value(hi, m) = b[m]
      /\ TwoTo(n) = q[n]
  <2> DEFINE IsList(digs, k, f, g) ==
               /\ f \in [0 .. k -> Nat] /\ g \in [0 .. k -> Nat] /\ f[0] = 0 /\ g[0] = 1
               /\ \A i \in 1 .. k : f[i] = f[i - 1] + digs[i] * g[i - 1] /\ g[i] = 2 * g[i - 1]
               /\ Value(digs, k) = f[k] /\ TwoTo(k) = g[k]
  <2>1. ASSUME NEW digs, NEW k \in Nat, NEW f, NEW g, AreValues(digs, k, f, g)
        PROVE  IsList(digs, k, f, g)
    <3>1. k \in 0 .. k
      OBVIOUS
    <3> QED BY <2>1, <3>1 DEF AreValues
  <2>2. IsList(digits, n + m, v, p) /\ IsList(lo, n, a, q) /\ IsList(hi, m, b, r)
    <3> HIDE DEF IsList
    <3> QED BY <1>0, <1>1, <1>2, <1>3, <2>1
  <2> QED BY <2>2
<1> DEFINE S == {i \in 0 .. n : v[i] = a[i] /\ p[i] = q[i]}
<1>5. 0 \in S
  BY <1>4
<1>6. ASSUME NEW i \in 0 .. n - 1, i \in S PROVE i + 1 \in S
  <2>1. i + 1 \in 1 .. n /\ (i + 1) - 1 = i /\ i + 1 \in 1 .. n + m /\ i + 1 \in 0 .. n
    OBVIOUS
  <2>2. v[i + 1] = v[i] + digits[i + 1] * p[i] /\ p[i + 1] = 2 * p[i]
    BY <1>4, <2>1
  <2>3. a[i + 1] = a[i] + lo[i + 1] * q[i] /\ q[i + 1] = 2 * q[i]
    BY <1>4, <2>1
  <2>4. lo[i + 1] = digits[i + 1] /\ v[i] = a[i] /\ p[i] = q[i]
    BY <1>6, <2>1
  <2>5. v[i + 1] = a[i + 1] /\ p[i + 1] = q[i + 1]
    BY <2>2, <2>3, <2>4
  <2> QED BY <2>1, <2>5
<1>7. \A i \in 0 .. n : i \in S
  <2> HIDE DEF S
  <2> QED BY <1>5, <1>6, UpToInduction
<1>8. v[n] = a[n] /\ p[n] = q[n]
  BY <1>7
<1> HIDE DEF S
<1> DEFINE U == {i \in 0 .. m : v[n + i] = a[n] + q[n] * b[i] /\ p[n + i] = q[n] * r[i]}
<1>9. 0 \in U
  <2>1. n + 0 = n /\ q[n] * 0 = 0 /\ q[n] * 1 = q[n] /\ a[n] + 0 = a[n] /\ 0 \in 0 .. m
    BY <1>4
  <2> QED BY <1>4, <1>8, <2>1
<1>10. ASSUME NEW i \in 0 .. m - 1, i \in U PROVE i + 1 \in U
  <2>1. /\ i + 1 \in 1 .. m /\ (i + 1) - 1 = i /\ n + (i + 1) \in 1 .. n + m
        /\ (n + (i + 1)) - 1 = n + i /\ i + 1 \in 0 .. m /\ i \in 0 .. m
    OBVIOUS
  <2> DEFINE d == digits[n + (i + 1)]
             A == a[n]
             Q == q[n]
             B == b[i]
             R == r[i]
  <2>2. v[n + (i + 1)] = v[n + i] + d * p[n + i] /\ p[n + (i + 1)] = 2 * p[n + i]
    BY <1>4, <2>1
  <2>3. b[i + 1] = B + d * R /\ r[i + 1] = 2 * R
    BY <1>4, <2>1
  <2>4. v[n + i] = A + Q * B /\ p[n + i] = Q * R
    BY <1>10
  <2>5. A \in Int /\ Q \in Int /\ B \in Int /\ R \in Int /\ d \in Int
    <3>1. n \in 0 .. n /\ d \in {0, 1} /\ i \in 0 .. m
      BY <2>1
    <3>2. a \in [0 .. n -> Nat] /\ q \in [0 .. n -> Nat]
      BY <1>4
    <3>3. b \in [0 .. m -> Nat] /\ r \in [0 .. m -> Nat]
      BY <1>4
    <3>4. A \in Nat /\ Q \in Nat
      BY <3>1, <3>2
    <3>5. B \in Nat /\ R \in Nat
      BY <3>1, <3>3
    <3>6. d \in Int
      BY <3>1
    <3> HIDE DEF A, Q, B, R, d
    <3> QED BY <3>4, <3>5, <3>6
  <2> HIDE DEF d, A, Q, B, R
  <2>6. (A + Q * B) + d * (Q * R) = A + Q * (B + d * R) /\ 2 * (Q * R) = Q * (2 * R)
    BY <2>5
  <2>7. v[n + (i + 1)] = A + Q * b[i + 1] /\ p[n + (i + 1)] = Q * r[i + 1]
    BY <2>2, <2>3, <2>4, <2>6
  <2> QED BY <2>1, <2>7 DEF A, Q
<1>11. \A i \in 0 .. m : i \in U
  <2> HIDE DEF U
  <2> QED BY <1>9, <1>10, UpToInduction
<1>12. v[n + m] = a[n] + q[n] * b[m]
  BY <1>11
<1> QED BY <1>4, <1>12

\* The digits of a scalar that are bits: its two limbs are what the constraints reconstruct,
\* and together they are the scalar.
AreBits(digits) == \A i \in 1 .. TotalBits : digits[i] \in {0, 1}

LEMMA ScalarBits ==
    ASSUME NEW digits \in [1 .. TotalBits -> F], AreBits(digits)
    PROVE  LET lo == Reconstruct(SubSeq(digits, 1, LowBits))
               hi == Reconstruct(SubSeq(digits, LowBits + 1, TotalBits))
           IN  /\ lo \in 0 .. TwoTo(LowBits) - 1 /\ hi \in 0 .. TwoTo(HighBits) - 1
               /\ lo \in F /\ hi \in F
               /\ BitsValue(digits) = lo + TwoTo(LowBits) * hi
<1>0. LowBits \in Nat /\ HighBits \in Nat /\ TotalBits \in Nat /\ P \in Nat
  BY GrumpkinAssumption, PrimeAssumption
<1> DEFINE d == SubSeq(digits, 1, LowBits)
           e == SubSeq(digits, LowBits + 1, TotalBits)
<1>1. digits \in Seq(F) /\ Len(digits) = TotalBits
  BY <1>0
<1>2. d = [i \in 1 .. LowBits |-> digits[i]]
  BY <1>0, <1>1
<1>3. e = [i \in 1 .. HighBits |-> digits[LowBits + i]]
  BY <1>0, <1>1
<1> HIDE DEF d, e
<1>4. d \in [1 .. LowBits -> {0, 1}] /\ e \in [1 .. HighBits -> {0, 1}]
  <2>1. \A i \in 1 .. LowBits : digits[i] \in {0, 1}
    BY <1>0 DEF AreBits
  <2>2. ASSUME NEW i \in 1 .. HighBits PROVE digits[LowBits + i] \in {0, 1}
    <3>1. LowBits + i \in 1 .. LowBits + HighBits
      BY <1>0
    <3> QED BY <3>1 DEF AreBits
  <2> QED BY <1>2, <1>3, <2>1, <2>2
<1>5. Reconstruct(d) = Value(d, LowBits) /\ Reconstruct(e) = Value(e, HighBits)
  BY <1>0, <1>4, ReconstructIs, GrumpkinAssumption
<1>6. /\ Value(d, LowBits) \in 0 .. TwoTo(LowBits) - 1
      /\ Value(e, HighBits) \in 0 .. TwoTo(HighBits) - 1
  <2>1. \A i \in 1 .. LowBits : d[i] \in {0, 1}
    BY <1>4
  <2>2. \A i \in 1 .. HighBits : e[i] \in {0, 1}
    BY <1>4
  <2> QED BY <1>0, <2>1, <2>2, ValueTop
<1>7. Value(digits, LowBits + HighBits) = Value(d, LowBits) + TwoTo(LowBits) * Value(e, HighBits)
  <2>1. \A i \in 1 .. LowBits + HighBits : digits[i] \in {0, 1}
    BY DEF AreBits
  <2>2. \A i \in 1 .. LowBits : d[i] = digits[i]
    BY <1>2
  <2>3. \A i \in 1 .. HighBits : e[i] = digits[LowBits + i]
    BY <1>3
  <2> QED BY <1>0, <2>1, <2>2, <2>3, ValueOfTwo
<1>8. BitsValue(digits) = Value(digits, TotalBits)
  BY DEF BitsValue, Value
<1>9. \A x \in Nat : x < P => x \in F
  BY <1>0 DEF F
<1>10. TwoTo(LowBits) \in Nat /\ TwoTo(HighBits) \in Nat /\ TwoTo(LowBits) <= P /\ TwoTo(HighBits) <= P
  BY <1>0, PowersGrow, GrumpkinAssumption
<1>11. Value(d, LowBits) \in F /\ Value(e, HighBits) \in F
  BY <1>0, <1>6, <1>9, <1>10
<1> QED BY <1>5, <1>6, <1>7, <1>8, <1>11 DEF d, e

\* What is read of a scalar from its highest bit down.
LEMMA BitsTop ==
    ASSUME NEW digits, AreBits(digits)
    PROVE  /\ BitsValue(digits) \in 0 .. Most
           /\ BitsValue(digits) \div TwoTo(TotalBits) = 0
           /\ BitsValue(digits) \div TwoTo(0) = BitsValue(digits)
           /\ \A i \in 1 .. TotalBits :
                 /\ BitsValue(digits) \div TwoTo(i) \in Nat
                 /\ BitsValue(digits) \div TwoTo(i - 1)
                      = 2 * (BitsValue(digits) \div TwoTo(i)) + digits[i]
                 /\ BitsValue(digits) \div TwoTo(i - 1) \in 0 .. Most
<1>1. TotalBits \in Nat
  BY MostIsNat
<1> DEFINE n == TotalBits
           v == BitsValue(digits)
<1>2. v = Value(digits, n)
  BY DEF BitsValue, Value
<1>3. \A i \in 1 .. n : digits[i] \in {0, 1}
  BY DEF AreBits
<1> HIDE DEF n, v
<1>4. /\ v \in 0 .. TwoTo(n) - 1 /\ v \div TwoTo(n) = 0 /\ v \div TwoTo(0) = v
      /\ \A i \in 1 .. n :
            /\ v \div TwoTo(i) \in Nat
            /\ v \div TwoTo(i - 1) = 2 * (v \div TwoTo(i)) + digits[i]
  BY <1>1, <1>2, <1>3, ValueTop DEF n
<1>5. ASSUME NEW m \in Nat \ {0}, NEW w \in Nat PROVE w \div m \in 0 .. w
  <2> DEFINE a == w \div m
             s == w % m
  <2>1. a \in Int /\ s \in 0 .. m - 1 /\ w = m * a + s
    OBVIOUS
  <2> HIDE DEF a, s
  <2>2. ASSUME a <= -1 PROVE FALSE
    <3>1. m * (-1 - a) >= 0 /\ m * (-1 - a) = -m - m * a
      BY <2>1, <2>2
    <3> QED BY <2>1, <3>1
  <2>3. ASSUME a > w PROVE FALSE
    <3>1. (m - 1) * a >= 0 /\ m * a = (m - 1) * a + a
      BY <2>1, <2>3
    <3> QED BY <2>1, <2>3, <3>1
  <2>4. a \in 0 .. w
    BY <2>1, <2>2, <2>3
  <2> QED BY <2>4 DEF a
<1>6. ASSUME NEW i \in 1 .. n PROVE v \div TwoTo(i - 1) \in 0 .. TwoTo(n) - 1
  <2>1. i - 1 \in Nat /\ i - 1 \in 0 .. i - 1
    OBVIOUS
  <2>2. TwoTo(i - 1) \in Nat \ {0}
    BY <2>1, PowersGrow
  <2>3. v \in Nat /\ TwoTo(n) \in Nat
    BY <1>1, <1>4, PowersGrow DEF n
  <2>4. v \div TwoTo(i - 1) \in 0 .. v
    BY <1>5, <2>2, <2>3
  <2> QED BY <1>4, <2>3, <2>4
<1>7. Most = TwoTo(n) - 1
  BY DEF Most, n
<1> QED BY <1>4, <1>6, <1>7 DEF n, v

\* The bits of the modulus, read the same way.
LEMMA ModulusTop ==
    /\ ScalarModulus \div TwoTo(TotalBits) = 0
    /\ ScalarModulus \div TwoTo(0) = ScalarModulus
    /\ \A i \in 1 .. TotalBits :
          ScalarModulus \div TwoTo(i - 1) = 2 * (ScalarModulus \div TwoTo(i)) + ModulusBit(i)
<1> DEFINE w == ScalarModulus
           n == TotalBits
<1>1. w \in Nat /\ n \in Nat /\ w < TwoTo(n) /\ TwoTo(n) \in Nat
  BY MostIsNat, PowersGrow, GrumpkinAssumption
<1>2. PICK p \in [0 .. n -> Nat] :
         p[0] = 1 /\ (\A k \in 1 .. n : p[k] = 2 * p[k - 1]) /\ \A m \in 0 .. n : TwoTo(m) = p[m]
  BY <1>1, PowersUpTo
<1>3. TwoTo(0) = 1
  BY <1>1, <1>2
<1>4. w \div TwoTo(n) = 0
  <2> DEFINE m == TwoTo(n)
  <2> HIDE DEF m
  <2>1. m \in Nat \ {0} /\ w < m /\ w + m * 0 = w
    BY <1>1 DEF m
  <2>2. (w + m * 0) \div m = 0
    BY <1>1, <2>1, QuotientIs
  <2> QED BY <2>1, <2>2 DEF m
<1>5. ASSUME NEW i \in 1 .. n
      PROVE  w \div TwoTo(i - 1) = 2 * (w \div TwoTo(i)) + ((w \div TwoTo(i - 1)) % 2)
  <2> DEFINE m == TwoTo(i - 1)
             q == w \div m
             r == w % m
             h == q \div 2
             b == q % 2
  <2>1. TwoTo(i) = 2 * m
    <3>1. i \in 0 .. n /\ i - 1 \in 0 .. n
      BY <1>1
    <3>2. TwoTo(i) = p[i] /\ TwoTo(i - 1) = p[i - 1]
      BY <1>2, <3>1
    <3> QED BY <1>2, <3>2
  <2>2. m \in Nat \ {0}
    <3>1. i - 1 \in Nat /\ i - 1 \in 0 .. i - 1
      OBVIOUS
    <3> QED BY <3>1, PowersGrow
  <2> HIDE DEF m, w
  <2>3. q \in Int /\ r \in 0 .. m - 1 /\ w = m * q + r
    BY <1>1, <2>2
  <2>4. q >= 0
    <3>1. SUFFICES ASSUME q <= -1 PROVE FALSE
      BY <2>3
    <3> HIDE DEF q, r
    <3>2. m * (-1 - q) >= 0 /\ m * (-1 - q) = -m - m * q
      BY <2>2, <2>3, <3>1
    <3> QED BY <1>1, <2>2, <2>3, <3>2
  <2> HIDE DEF q, r
  <2>5. h \in Nat /\ b \in {0, 1} /\ q = 2 * h + b
    BY <2>3, <2>4
  <2> HIDE DEF h, b
  <2> DEFINE s == b * m + r
             k == 2 * m
  <2>6. s \in Nat /\ s < k /\ k \in Nat \ {0}
    <3>1. b * m = 0 \/ b * m = m
      BY <2>2, <2>5
    <3> QED BY <2>2, <2>3, <2>5, <3>1
  <2>7. w = s + k * h
    BY <2>2, <2>3, <2>5
  <2> HIDE DEF s, k
  <2>8. w \div k = h
    BY <2>5, <2>6, <2>7, QuotientIs
  <2> QED BY <2>1, <2>5, <2>8 DEF k, q, m, b
<1> HIDE DEF w, n
<1>6. w \div 1 = w
  BY <1>1
<1> QED BY <1>3, <1>4, <1>5, <1>6 DEF w, n, ModulusBit

---------------------------------------------------------------------------
\* What the constraints say

\* An open gate is an equation, a shut one says nothing.
LEMMA Gates ==
    ASSUME NEW a \in F, NEW b \in F
    PROVE  (Gated(1, a, b) <=> a = b) /\ Gated(0, a, b)
<1>1. Minus(a, b) \in F /\ (Minus(a, b) = 0 <=> a = b)
  BY MinusZero
<1>2. Times(1, Minus(a, b)) = Minus(a, b) /\ Times(0, Minus(a, b)) = 0
  BY <1>1, SmallFelts, TimesOne, TimesZero
<1> QED BY <1>1, <1>2 DEF Gated

\* The gated constraint that a felt is a bit.
LEMMA BooleanGates ==
    ASSUME NEW v \in F
    PROVE  (GatedBoolean(1, v) <=> v \in {0, 1}) /\ GatedBoolean(0, v)
<1> DEFINE w == Minus(1, v)
           z == Times(v, w)
<1>1. z \in F /\ (z = 0 <=> v \in {0, 1})
  <2>1. w \in F
    BY SmallFelts, MinusZero
  <2> QED BY <2>1, TimesZero, BitConstraint
<1> HIDE DEF z
<1>2. (Gated(1, z, 0) <=> z = 0) /\ Gated(0, z, 0)
  BY <1>1, SmallFelts, Gates
<1> QED BY <1>1, <1>2 DEF GatedBoolean, z

\* The gated constraint that a point is on the curve.
LEMMA CurveGates ==
    ASSUME NEW p \in AnyPoint
    PROVE  (GatedOnCurve(1, p) <=> OnCurve(p)) /\ GatedOnCurve(0, p)
<1> DEFINE x == p[1]
           y == p[2]
           xx == Times(x, x)
           right == Plus(Times(xx, x), CurveB)
           left == Times(y, y)
<1>1. x \in F /\ y \in F /\ CurveB \in Int
  BY GrumpkinAssumption DEF AnyPoint
<1> HIDE DEF x, y
<1>2. xx \in F /\ left \in F
  BY <1>1, TimesZero
<1>3. Times(xx, x) = Times(x, xx) /\ Times(xx, x) \in F
  BY <1>1, <1>2, TimesCommutes, TimesZero
<1>4. right \in F
  BY <1>1, <1>3, FeltIsResidue, PlusIsFelt
<1> HIDE DEF left, right
<1>5. (Gated(1, left, right) <=> left = right) /\ Gated(0, left, right)
  BY <1>2, <1>4, Gates
<1>6. OnCurve(p) <=> left = right
  BY <1>3 DEF OnCurve, left, right, x, y
<1>7. GatedOnCurve(1, p) = Gated(1, left, right) /\ GatedOnCurve(0, p) = Gated(0, left, right)
  BY DEF GatedOnCurve, left, right, x, y
<1> QED BY <1>5, <1>6, <1>7

\* With a true predicate the constraints on the points make them valid; with a false one they
\* say nothing.
LEMMA PointsMean ==
    ASSUME TypeInv
    PROVE  /\ call.predicate = 1 => (PointConstraints <=> ValidPoints)
           /\ call.predicate = 0 => PointConstraints
           /\ \A p \in Range(call.points) : p \in AnyPoint
           /\ \A k \in 1 .. Len(call.points) : call.points[k] \in Range(call.points)
<1>1. DOMAIN call.points = 1 .. Len(call.points) /\ Len(call.points) \in Nat
  BY GrumpkinAssumption DEF TypeInv
<1>2. /\ \A p \in Range(call.points) : p \in AnyPoint
      /\ \A k \in 1 .. Len(call.points) : call.points[k] \in Range(call.points)
  BY <1>1, CallFacts DEF Range
<1>3. Times(1, Minus(1, 0)) = 1 /\ Times(1, Minus(1, 1)) = 0
  <2>1. Minus(1, 1) = 0
    BY SmallFelts, MinusZero
  <2>2. Minus(1, 0) = 1
    BY SmallFelts, FeltIsResidue DEF Minus
  <2> QED BY <2>1, <2>2, SmallFelts, TimesOne
<1>4. ASSUME NEW p \in AnyPoint
      PROVE  (GatedBoolean(1, p[3]) /\ GatedOnCurve(Times(1, Minus(1, p[3])), p)) <=> ValidPoint(p)
  <2>1. p[3] \in F
    BY DEF AnyPoint
  <2>2. GatedBoolean(1, p[3]) <=> p[3] \in {0, 1}
    BY <2>1, BooleanGates
  <2>3. CASE p[3] = 0
    BY <1>3, <2>2, <2>3, CurveGates DEF ValidPoint
  <2>4. CASE p[3] = 1
    BY <1>3, <2>2, <2>4, CurveGates DEF ValidPoint
  <2>5. CASE p[3] \notin {0, 1}
    BY <2>2, <2>5 DEF ValidPoint
  <2> QED BY <2>3, <2>4, <2>5
<1>5. ASSUME call.predicate = 1 PROVE PointConstraints <=> ValidPoints
  <2>1. PredicateGate = 1
    BY <1>5 DEF PredicateGate
  <2>2. PointConstraints <=>
          \A p \in Range(call.points) :
             GatedBoolean(1, p[3]) /\ GatedOnCurve(Times(1, Minus(1, p[3])), p)
    BY <2>1 DEF PointConstraints
  <2> QED BY <1>2, <1>4, <2>2 DEF ValidPoints
<1>6. ASSUME call.predicate = 0 PROVE PointConstraints
  <2>1. PredicateGate = 0
    BY <1>6 DEF PredicateGate
  <2>2. ASSUME NEW p \in Range(call.points)
        PROVE  GatedBoolean(0, p[3]) /\ GatedOnCurve(Times(0, Minus(1, p[3])), p)
    <3>1. p \in AnyPoint /\ p[3] \in F
      BY <1>2 DEF AnyPoint
    <3>2. Minus(1, p[3]) \in F
      BY <3>1, SmallFelts, MinusZero
    <3>3. Times(0, Minus(1, p[3])) = 0
      BY <3>2, SmallFelts, TimesZero
    <3> QED BY <3>1, <3>3, BooleanGates, CurveGates
  <2> QED BY <2>1, <2>2 DEF PointConstraints
<1> QED BY <1>2, <1>5, <1>6

\* The constraints on the digits of a scalar up to the comparison: with a true predicate they
\* are the bits of a scalar whose limbs are within their widths; with a false one they are
\* any felts.
LEMMA ScalarsMean ==
    ASSUME NEW limbs \in F \X F, NEW digits \in [1 .. TotalBits -> F]
    PROVE  /\ call.predicate = 1 =>
                (ScalarConstraints(limbs, digits) <=>
                   /\ limbs[1] < TwoTo(LowBits) /\ limbs[2] < TwoTo(HighBits)
                   /\ AreBits(digits) /\ BitsValue(digits) = ScalarOf(limbs))
           /\ call.predicate = 0 => ScalarConstraints(limbs, digits)
<1> DEFINE d == SubSeq(digits, 1, LowBits)
           e == SubSeq(digits, LowBits + 1, TotalBits)
           lo == Reconstruct(d)
           hi == Reconstruct(e)
           a == limbs[1]
           b == limbs[2]
<1>1. lo \in F /\ hi \in F /\ a \in F /\ b \in F /\ \A i \in 1 .. TotalBits : digits[i] \in F
  <2>0. LowBits \in Nat /\ HighBits \in Nat /\ TotalBits \in Nat
    BY GrumpkinAssumption
  <2>1. digits \in Seq(F) /\ Len(digits) = TotalBits
    BY <2>0
  <2>2. d \in [1 .. LowBits -> F] /\ e \in [1 .. HighBits -> F]
    <3>1. d = [i \in 1 .. LowBits |-> digits[i]]
      BY <2>0, <2>1
    <3>2. e = [i \in 1 .. HighBits |-> digits[LowBits + i]]
      BY <2>0, <2>1
    <3> HIDE DEF d, e
    <3>3. ASSUME NEW i \in 1 .. LowBits PROVE digits[i] \in F
      BY <2>0
    <3>4. ASSUME NEW i \in 1 .. HighBits PROVE digits[LowBits + i] \in F
      <4>1. LowBits + i \in 1 .. LowBits + HighBits
        BY <2>0
      <4> QED BY <4>1
    <3> QED BY <3>1, <3>2, <3>3, <3>4
  <2>3. ASSUME NEW n \in Nat, NEW c \in [1 .. n -> F] PROVE Reconstruct(c) \in F
    <3> DEFINE xs == [i \in 1 .. n |-> Times(c[i], Pow2(i - 1))]
    <3>1. ASSUME NEW i \in 1 .. n PROVE Times(c[i], Pow2(i - 1)) \in F
      <4>1. TwoTo(i - 1) \in Int
        <5>1. i - 1 \in Nat
          OBVIOUS
        <5> QED BY <5>1, PowersGrow
      <4>2. Pow2(i - 1) \in F
        BY <4>1, ResidueIsFelt DEF Pow2
      <4> QED BY <4>2, TimesZero
    <3>2. xs \in [1 .. n -> F]
      BY <3>1
    <3>3. Reconstruct(c) = Sum(xs)
      BY DEF Reconstruct
    <3> HIDE DEF xs
    <3> QED BY <3>2, <3>3, SumIsFelt
  <2> HIDE DEF d, e
  <2> QED BY <2>0, <2>2, <2>3
<1> HIDE DEF lo, hi
<1>2. (Gated(1, lo, a) <=> lo = a) /\ Gated(0, lo, a) /\ (Gated(1, hi, b) <=> hi = b) /\ Gated(0, hi, b)
  BY <1>1, Gates
<1>3. \A i \in 1 .. TotalBits :
         (GatedBoolean(1, digits[i]) <=> digits[i] \in {0, 1}) /\ GatedBoolean(0, digits[i])
  BY <1>1, BooleanGates
<1>4. ASSUME AreBits(digits)
      PROVE  /\ lo \in 0 .. TwoTo(LowBits) - 1 /\ hi \in 0 .. TwoTo(HighBits) - 1
             /\ BitsValue(digits) = lo + TwoTo(LowBits) * hi
  BY <1>4, ScalarBits DEF lo, hi, d, e
<1>5. ASSUME call.predicate = 1
      PROVE  ScalarConstraints(limbs, digits) <=> AreBits(digits) /\ lo = a /\ hi = b
  <2>1. PredicateGate = 1
    BY <1>5 DEF PredicateGate
  <2> QED BY <1>2, <1>3, <2>1 DEF ScalarConstraints, AreBits, lo, hi, d, e
<1>6. ASSUME call.predicate = 0 PROVE ScalarConstraints(limbs, digits)
  <2>1. PredicateGate = 0
    BY <1>6 DEF PredicateGate
  <2> QED BY <1>2, <1>3, <2>1 DEF ScalarConstraints, lo, hi, d, e
<1>7. ASSUME AreBits(digits)
      PROVE  (lo = a /\ hi = b) <=>
               (a < TwoTo(LowBits) /\ b < TwoTo(HighBits) /\ BitsValue(digits) = a + TwoTo(LowBits) * b)
  <2> DEFINE m == TwoTo(LowBits)
             n == TwoTo(HighBits)
  <2>1. m \in Nat \ {0} /\ n \in Nat \ {0}
    <3>1. LowBits \in Nat /\ HighBits \in Nat /\ LowBits \in 0 .. LowBits /\ HighBits \in 0 .. HighBits
      BY GrumpkinAssumption
    <3> QED BY <3>1, PowersGrow
  <2>2. lo \in 0 .. m - 1 /\ hi \in 0 .. n - 1 /\ BitsValue(digits) = lo + m * hi
    BY <1>4, <1>7
  <2>3. a \in Nat /\ b \in Nat
    BY <1>1, PrimeAssumption DEF F
  <2> HIDE DEF m, n, a, b
  <2>4. ASSUME lo = a, hi = b PROVE a < m /\ b < n /\ BitsValue(digits) = a + m * b
    BY <2>1, <2>2, <2>4
  <2>5. ASSUME a < m, lo + m * hi = a + m * b PROVE lo = a /\ hi = b
    <3>1. (lo + m * hi) \div m = hi /\ (a + m * b) \div m = b
      BY <2>1, <2>2, <2>3, <2>5, QuotientIs
    <3>2. hi = b
      BY <2>5, <3>1
    <3> QED BY <2>1, <2>2, <2>3, <2>5, <3>2
  <2>6. (lo = a /\ hi = b) <=> (a < m /\ b < n /\ BitsValue(digits) = a + m * b)
    BY <2>2, <2>4, <2>5
  <2> QED BY <2>6 DEF m, n
<1> HIDE DEF a, b
<1>8. ScalarOf(limbs) = a + TwoTo(LowBits) * b
  BY DEF ScalarOf, a, b
<1>9. ASSUME call.predicate = 1
      PROVE  ScalarConstraints(limbs, digits) <=>
               /\ a < TwoTo(LowBits) /\ b < TwoTo(HighBits)
               /\ AreBits(digits) /\ BitsValue(digits) = ScalarOf(limbs)
  BY <1>5, <1>7, <1>8, <1>9
<1> QED BY <1>6, <1>9 DEF a, b

---------------------------------------------------------------------------
\* The combination of the opcode

\* A combination of points: its terms, and the sum of the first n.
Term(points, digits, i) == GroupMultiple[Element(points[i])][BitsValue(digits[i])]
Total(points, digits, n) ==
    LET total[i \in 0 .. n] ==
            IF i = 0 THEN <<>> ELSE GroupSum[total[i - 1], Term(points, digits, i)]
    IN  total[n]

AreTotals(points, digits, n, s) ==
    /\ s \in [0 .. n -> Elements] /\ s[0] = <<>>
    /\ \A i \in 1 .. n : s[i] = GroupSum[s[i - 1], Term(points, digits, i)]
    /\ Total(points, digits, n) = s[n]

\* The terms are elements of the group.
AreTerms(points, digits, n) ==
    \A i \in 1 .. n : points[i] \in AnyPoint /\ ValidPoint(points[i]) /\ AreBits(digits[i])

LEMMA TermIsElement ==
    ASSUME NEW p \in AnyPoint, ValidPoint(p), NEW digits, AreBits(digits)
    PROVE  GroupMultiple[Element(p)][BitsValue(digits)] \in Elements
<1>1. Element(p) \in Elements
  BY ValidElement
<1>2. BitsValue(digits) \in 0 .. Most
  BY BitsTop
<1> QED BY <1>1, <1>2, MultiplesUnfold

\* The partial sums of a combination.
LEMMA TotalUnfolds ==
    ASSUME NEW n \in Nat, NEW points, NEW digits, AreTerms(points, digits, n)
    PROVE  \E s : AreTotals(points, digits, n, s)
<1> DEFINE zero == <<>>
           Grow(a, i) == GroupSum[a, Term(points, digits, i)]
           step == [k \in 1 .. n |-> [a \in Elements |-> Grow(a, k)]]
           Totals(f) == f = [k \in 0 .. n |-> IF k = 0 THEN zero ELSE Grow(f[k - 1], k)]
           total == CHOOSE f : Totals(f)
<1>1. Total(points, digits, n) = total[n]
  BY DEF Total
<1>2. zero \in Elements
  BY DEF Elements
<1>3. ASSUME NEW a \in Elements, NEW i \in 1 .. n PROVE Grow(a, i) \in Elements
  <2>1. Term(points, digits, i) \in Elements
    BY TermIsElement DEF AreTerms, Term
  <2> QED BY <2>1, SumIsElement
<1> HIDE DEF zero, Grow
<1>4. step \in [1 .. n -> [Elements -> Elements]]
  BY <1>3
<1>5. PICK f \in [0 .. n -> Elements] : Follows(f, n, zero, step)
  <2> HIDE DEF step
  <2> QED BY <1>2, <1>4, UpToRecursion
<1>6. f[0] = zero /\ \A k \in 1 .. n : f[k] = Grow(f[k - 1], k)
  <2>1. ASSUME NEW k \in 1 .. n, NEW a \in Elements PROVE step[k][a] = Grow(a, k)
    OBVIOUS
  <2> HIDE DEF step
  <2>2. \A k \in 1 .. n : f[k] = step[k][f[k - 1]] /\ f[k - 1] \in Elements
    BY <1>5 DEF Follows
  <2> QED BY <1>5, <2>1, <2>2 DEF Follows
<1> HIDE DEF step
<1>8. Totals(f)
  <2>1. \A k \in 0 .. n : f[k] = IF k = 0 THEN zero ELSE Grow(f[k - 1], k)
    BY <1>6
  <2> QED BY <2>1
<1>9. Totals(total)
  <2> HIDE DEF Totals
  <2> QED BY <1>8
<1> HIDE DEF total
<1>10. total[0] = zero /\ \A k \in 1 .. n : total[k] = Grow(total[k - 1], k)
  BY <1>9
<1> DEFINE S == {k \in 0 .. n : total[k] \in Elements}
<1>11. ASSUME NEW k \in 0 .. n - 1, k \in S PROVE k + 1 \in S
  <2>1. k + 1 \in 1 .. n /\ (k + 1) - 1 = k /\ k + 1 \in 0 .. n
    OBVIOUS
  <2>2. total[k + 1] = Grow(total[k], k + 1)
    BY <1>10, <2>1
  <2> QED BY <1>3, <1>11, <2>1, <2>2
<1>12. 0 \in S
  BY <1>2, <1>10
<1>13. \A k \in 0 .. n : k \in S
  <2> HIDE DEF S
  <2> QED BY <1>11, <1>12, UpToInduction
<1>14. total \in [0 .. n -> Elements]
  BY <1>9, <1>13
<1> HIDE DEF Totals
<1>15. AreTotals(points, digits, n, total)
  BY <1>1, <1>10, <1>14 DEF zero, Grow, AreTotals
<1> QED BY <1>15

\* A sum does not depend on how many terms follow, so it grows by one term.
LEMMA TotalGrows ==
    ASSUME NEW n \in Nat, NEW points, NEW digits, AreTerms(points, digits, n + 1)
    PROVE  /\ Total(points, digits, 0) = <<>>
           /\ Total(points, digits, n) \in Elements
           /\ Total(points, digits, n + 1) =
                GroupSum[Total(points, digits, n), Term(points, digits, n + 1)]
<1> DEFINE zero == <<>>
           Grow(a, i) == GroupSum[a, Term(points, digits, i)]
<1>0. 0 \in Nat /\ n + 1 \in Nat /\ AreTerms(points, digits, 0) /\ AreTerms(points, digits, n)
  BY DEF AreTerms
<1>10. PICK s : AreTotals(points, digits, n, s)
  BY <1>0, TotalUnfolds
<1>11. PICK t : AreTotals(points, digits, n + 1, t)
  <2> DEFINE m == n + 1
  <2> HIDE DEF m
  <2>1. m \in Nat /\ AreTerms(points, digits, m)
    BY <1>0 DEF m
  <2>2. \E t : AreTotals(points, digits, m, t)
    BY <2>1, TotalUnfolds
  <2> QED BY <2>2 DEF m
<1>12. PICK u : AreTotals(points, digits, 0, u)
  BY <1>0, TotalUnfolds
<1>1. /\ s \in [0 .. n -> Elements] /\ s[0] = zero /\ \A i \in 1 .. n : s[i] = Grow(s[i - 1], i)
      /\ Total(points, digits, n) = s[n]
  BY <1>10 DEF AreTotals
<1>2. /\ t \in [0 .. n + 1 -> Elements] /\ t[0] = zero
      /\ \A i \in 1 .. n + 1 : t[i] = Grow(t[i - 1], i)
      /\ Total(points, digits, n + 1) = t[n + 1]
  BY <1>11 DEF AreTotals
<1>3. Total(points, digits, 0) = zero
  BY <1>12 DEF AreTotals
<1> HIDE DEF zero, Grow
<1> DEFINE S == {k \in 0 .. n : s[k] = t[k]}
<1>4. 0 \in S
  BY <1>1, <1>2
<1>5. ASSUME NEW k \in 0 .. n - 1, k \in S PROVE k + 1 \in S
  <2>1. k + 1 \in 1 .. n /\ k + 1 \in 1 .. n + 1 /\ (k + 1) - 1 = k /\ k + 1 \in 0 .. n
    OBVIOUS
  <2>2. s[k + 1] = Grow(s[k], k + 1) /\ t[k + 1] = Grow(t[k], k + 1)
    BY <1>1, <1>2, <2>1
  <2> QED BY <1>5, <2>1, <2>2
<1>6. \A k \in 0 .. n : k \in S
  <2> HIDE DEF S
  <2> QED BY <1>4, <1>5, UpToInduction
<1>7. s[n] = t[n] /\ n + 1 \in 1 .. n + 1 /\ (n + 1) - 1 = n
  BY <1>6
<1>8. t[n + 1] = Grow(s[n], n + 1) /\ s[n] \in Elements
  BY <1>2, <1>7
<1> QED BY <1>1, <1>2, <1>3, <1>8 DEF zero, Grow

\* A valid point is determined by its element, up to the coordinates of infinity.
Canonical(p) == p[3] = 1 => p = Infinity

LEMMA ElementInjective ==
    ASSUME NEW p \in AnyPoint, NEW q \in AnyPoint, ValidPoint(p), ValidPoint(q),
           Canonical(p), Canonical(q), Element(p) = Element(q)
    PROVE  p = q
<1>1. (p[3] = 1 <=> q[3] = 1) /\ p[3] \in {0, 1} /\ q[3] \in {0, 1}
  BY ValidElement DEF ValidPoint
<1>2. CASE p[3] = 1
  BY <1>1, <1>2 DEF Canonical
<1>3. CASE p[3] = 0
  <2>1. q[3] = 0 /\ <<p[1], p[2]>> = <<q[1], q[2]>>
    BY <1>1, <1>3 DEF Element
  <2>2. p = <<p[1], p[2], p[3]>> /\ q = <<q[1], q[2], q[3]>>
    BY DEF AnyPoint
  <2> QED BY <1>3, <2>1, <2>2
<1> QED BY <1>1, <1>2, <1>3

\* Where the helper stands among the n terms: at bit b of term k, with an accumulator m and a
\* sum s.  They are valid points, the sum is that of the terms before and the accumulator the
\* multiple by the bits above b; and no infinity among them has coordinates of its own unless
\* one of the inputs has.
Accumulated(points, digits, n, k, b, m, s) ==
    /\ m \in AnyPoint /\ s \in AnyPoint /\ ValidPoint(m) /\ ValidPoint(s)
    /\ Element(s) = Total(points, digits, k - 1)
    /\ k <= n => Element(m) = GroupMultiple[Element(points[k])][BitsValue(digits[k]) \div TwoTo(b)]
    /\ (\A i \in 1 .. n : Canonical(points[i])) => Canonical(m) /\ Canonical(s)

\* No terms add up to nothing.
LEMMA TotalOfNone ==
    ASSUME NEW points, NEW digits
    PROVE  Total(points, digits, 0) = <<>>
<1>1. 0 \in Nat /\ AreTerms(points, digits, 0)
  BY DEF AreTerms
<1>2. PICK s : AreTotals(points, digits, 0, s)
  BY <1>1, TotalUnfolds
<1> QED BY <1>2 DEF AreTotals

LEMMA InfinityIsValid ==
    Infinity \in AnyPoint /\ ValidPoint(Infinity) /\ Element(Infinity) = <<>> /\ Canonical(Infinity)
<1>1. Infinity[3] = 1
  BY DEF Infinity
<1> QED BY <1>1, InfinityIsPoint DEF ValidPoint, Element, Canonical

\* A term starts from nothing, at its highest bit.
LEMMA TermStarts ==
    ASSUME NEW n \in Nat, NEW points, NEW digits, AreTerms(points, digits, n),
           NEW k \in 1 .. n
    PROVE  GroupMultiple[Element(points[k])][BitsValue(digits[k]) \div TwoTo(TotalBits)] = <<>>
<1>1. points[k] \in AnyPoint /\ ValidPoint(points[k]) /\ AreBits(digits[k])
  BY DEF AreTerms
<1>2. Element(points[k]) \in Elements
  BY <1>1, ValidElement
<1>3. BitsValue(digits[k]) \div TwoTo(TotalBits) = 0
  BY <1>1, BitsTop
<1> QED BY <1>2, <1>3, MultiplesUnfold

LEMMA HelperStarts ==
    ASSUME NEW n \in Nat, NEW points, NEW digits, AreTerms(points, digits, n)
    PROVE  Accumulated(points, digits, n, 1, TotalBits, Infinity, Infinity)
<1>1. 1 - 1 = 0
  OBVIOUS
<1>2. 1 <= n => 1 \in 1 .. n
  OBVIOUS
<1> QED BY <1>1, <1>2, TotalOfNone, InfinityIsValid, TermStarts DEF Accumulated

\* A bit is read: the accumulator doubles, and takes the point once more for a one.
LEMMA BitAccumulates ==
    ASSUME NEW n \in Nat, NEW points, NEW digits, AreTerms(points, digits, n),
           NEW k \in 1 .. n, NEW b \in 1 .. TotalBits, NEW m, NEW s,
           Accumulated(points, digits, n, k, b, m, s)
    PROVE  Accumulated(points, digits, n, k, b - 1,
                       IF digits[k][b] = 1 THEN Add(Add(m, m), points[k]) ELSE Add(m, m), s)
<1> DEFINE p == points[k]
           e == Element(p)
           M == GroupMultiple[e]
           v == BitsValue(digits[k])
           h == v \div TwoTo(b)
           g == v \div TwoTo(b - 1)
           d == digits[k][b]
           double == Add(m, m)
           next == IF d = 1 THEN Add(double, p) ELSE double
           clean == \A i \in 1 .. n : Canonical(points[i])
<1>1. p \in AnyPoint /\ ValidPoint(p) /\ AreBits(digits[k]) /\ e \in Elements /\ (clean => Canonical(p))
  BY ValidElement DEF AreTerms
<1>2. d \in {0, 1} /\ h \in Nat /\ g = 2 * h + d /\ g \in 0 .. Most
  BY <1>1, BitsTop DEF AreBits
<1>3. /\ m \in AnyPoint /\ s \in AnyPoint /\ ValidPoint(m) /\ ValidPoint(s)
      /\ Element(s) = Total(points, digits, k - 1)
      /\ Element(m) = M[h]
      /\ clean => Canonical(m) /\ Canonical(s)
  BY DEF Accumulated
<1>4. M \in [0 .. Most -> Elements] /\ \A i \in 1 .. Most : M[i] = GroupSum[M[i - 1], e]
  BY <1>1, MultiplesUnfold
<1>5. h + h \in 0 .. Most /\ (d = 1 => 2 * h + 1 \in 1 .. Most /\ (2 * h + 1) - 1 = h + h)
  BY <1>2, MostIsNat
<1>6. GroupSum[M[h], M[h]] = M[h + h]
  BY <1>1, <1>2, <1>5, MultiplesAdd
<1>7. /\ double \in AnyPoint /\ ValidPoint(double) /\ Element(double) = M[h + h]
      /\ clean => Canonical(double)
  BY <1>3, <1>6, AddIsSum DEF Canonical
<1> HIDE DEF p, e, M, double, clean
<1>8. CASE d = 1
  <2>1. /\ Add(double, p) \in AnyPoint /\ ValidPoint(Add(double, p))
        /\ Element(Add(double, p)) = GroupSum[M[h + h], e]
        /\ clean => Canonical(Add(double, p))
    BY <1>1, <1>7, AddIsSum DEF Canonical, e
  <2>2. M[g] = GroupSum[M[h + h], e]
    BY <1>2, <1>4, <1>5, <1>8
  <2>3. next = Add(double, p)
    BY <1>8
  <2> QED BY <1>3, <2>1, <2>2, <2>3 DEF Accumulated, M, e, p, clean, double
<1>9. CASE d = 0
  <2>1. g = h + h /\ next = double
    BY <1>2, <1>9
  <2> QED BY <1>3, <1>7, <2>1 DEF Accumulated, M, e, p, clean, double
<1> QED BY <1>2, <1>8, <1>9

\* A term ends: its multiple joins the sum.
LEMMA TermAccumulates ==
    ASSUME NEW n \in Nat, NEW points, NEW digits, AreTerms(points, digits, n),
           NEW k \in 1 .. n, NEW m, NEW s, Accumulated(points, digits, n, k, 0, m, s)
    PROVE  Accumulated(points, digits, n, k + 1, TotalBits, Infinity, Add(s, m))
<1> DEFINE clean == \A i \in 1 .. n : Canonical(points[i])
           total(i) == Total(points, digits, i)
<1>1. /\ m \in AnyPoint /\ s \in AnyPoint /\ ValidPoint(m) /\ ValidPoint(s)
      /\ Element(s) = total(k - 1)
      /\ Element(m) = GroupMultiple[Element(points[k])][BitsValue(digits[k]) \div TwoTo(0)]
      /\ clean => Canonical(m) /\ Canonical(s)
  BY DEF Accumulated
<1>2. AreBits(digits[k])
  BY DEF AreTerms
<1>3. Element(m) = Term(points, digits, k)
  BY <1>1, <1>2, BitsTop DEF Term
<1>4. total(k) = GroupSum[total(k - 1), Term(points, digits, k)]
  <2>1. k - 1 \in Nat /\ (k - 1) + 1 = k /\ AreTerms(points, digits, (k - 1) + 1)
    BY DEF AreTerms
  <2>2. Total(points, digits, (k - 1) + 1)
          = GroupSum[Total(points, digits, k - 1), Term(points, digits, (k - 1) + 1)]
    BY <2>1, TotalGrows
  <2> QED BY <2>1, <2>2
<1>5. /\ Add(s, m) \in AnyPoint /\ ValidPoint(Add(s, m)) /\ Element(Add(s, m)) = total(k)
      /\ clean => Canonical(Add(s, m))
  BY <1>1, <1>3, <1>4, AddIsSum DEF Canonical
<1>6. k + 1 <= n => k + 1 \in 1 .. n
  OBVIOUS
<1>7. (k + 1) - 1 = k
  OBVIOUS
<1>8. k + 1 <= n =>
        GroupMultiple[Element(points[k + 1])][BitsValue(digits[k + 1]) \div TwoTo(TotalBits)] = <<>>
  BY <1>6, TermStarts
<1> QED BY <1>5, <1>7, <1>8, InfinityIsValid DEF Accumulated

---------------------------------------------------------------------------
\* The opcode

\* What is checked before the comparison and before the helper.
Accepted(digits) ==
    /\ IsBool(call.predicate)
    /\ PointConstraints
    /\ \A k \in DOMAIN call.scalars : ScalarConstraints(call.scalars[k], digits[k])

\* The digits of every scalar are its bits, and its limbs within their widths.
AreScalars(digits) ==
    \A k \in DOMAIN call.scalars :
        /\ call.scalars[k][1] < TwoTo(LowBits) /\ call.scalars[k][2] < TwoTo(HighBits)
        /\ AreBits(digits[k]) /\ BitsValue(digits[k]) = ScalarOf(call.scalars[k])

LEMMA AcceptedMeans ==
    ASSUME TypeInv, NEW digits,
           \A k \in DOMAIN call.scalars : digits[k] \in [1 .. TotalBits -> F]
    PROVE  Accepted(digits) <=> /\ call.predicate \in {0, 1}
                                /\ call.predicate = 1 => ValidPoints /\ AreScalars(digits)
<1>1. call.predicate \in F
  BY GrumpkinAssumption DEF TypeInv
<1>2. IsBool(call.predicate) <=> call.predicate \in {0, 1}
  BY <1>1, BitConstraint DEF IsBool
<1>3. ASSUME NEW k \in DOMAIN call.scalars
      PROVE  call.scalars[k] \in F \X F /\ digits[k] \in [1 .. TotalBits -> F]
  <2>1. call.scalars \in Seq(F \X F)
    BY GrumpkinAssumption DEF TypeInv
  <2> QED BY <2>1
<1>4. CASE call.predicate = 1
  <2>1. PointConstraints <=> ValidPoints
    BY <1>4, PointsMean
  <2>2. ASSUME NEW k \in DOMAIN call.scalars
        PROVE  ScalarConstraints(call.scalars[k], digits[k]) <=>
                 /\ call.scalars[k][1] < TwoTo(LowBits) /\ call.scalars[k][2] < TwoTo(HighBits)
                 /\ AreBits(digits[k]) /\ BitsValue(digits[k]) = ScalarOf(call.scalars[k])
    BY <1>3, <1>4, ScalarsMean
  <2>3. (\A k \in DOMAIN call.scalars : ScalarConstraints(call.scalars[k], digits[k]))
          <=> AreScalars(digits)
    BY <2>2 DEF AreScalars
  <2> QED BY <1>2, <1>4, <2>1, <2>3 DEF Accepted
<1>5. CASE call.predicate = 0
  <2>1. PointConstraints
    BY <1>5, PointsMean
  <2>2. \A k \in DOMAIN call.scalars : ScalarConstraints(call.scalars[k], digits[k])
    BY <1>3, <1>5, ScalarsMean
  <2> QED BY <1>2, <1>5, <2>1, <2>2 DEF Accepted
<1>6. CASE call.predicate \notin {0, 1}
  BY <1>2, <1>6 DEF Accepted
<1> QED BY <1>4, <1>5, <1>6

\* The scalars before the n-th are below the order of the group.
BelowOrder(n) ==
    \A k \in DOMAIN call.scalars : k < n => ScalarOf(call.scalars[k]) < ScalarModulus

InCompare ==
    /\ side = "constrain" /\ multiple = Infinity /\ sum = Infinity
    /\ point > Len(call.scalars) => bit = TotalBits
    /\ call.predicate # 1 => holds
    /\ call.predicate = 1 =>
          /\ BelowOrder(point)
          /\ point <= Len(call.scalars) =>
                /\ scalarTop = BitsValue(bits[point]) \div TwoTo(bit)
                /\ modulusTop = ScalarModulus \div TwoTo(bit)

InHelper ==
    call.predicate = 1 =>
        /\ \A k \in DOMAIN call.scalars : AreBits(bits[k])
        /\ ValidPoints => Accumulated(call.points, bits, Len(call.points), point, bit, multiple, sum)
        /\ side = "constrain" => BelowOrder(point + Len(call.scalars))

\* The inductive invariant of the opcode: where the helper stands, what the constraints
\* checked so far have established, and that the verdict is the relation's.
OpcodeInv ==
    /\ side \in {"compute", "constrain"}
    /\ pc = "msm" => point = 1 /\ bit = TotalBits /\ multiple = Infinity /\ sum = Infinity
    /\ pc = "compare" => InCompare
    /\ pc = "helper" => InHelper
    /\ pc \in {"add", "compare", "helper"} /\ side = "constrain" => Accepted(bits)
    /\ AcceptsRelation

\* The terms of a valid opcode.
LEMMA OpcodeTerms ==
    ASSUME TypeInv, call.fn = "msm", ValidPoints, \A k \in DOMAIN call.scalars : AreBits(bits[k])
    PROVE  AreTerms(call.points, bits, Len(call.points)) /\ Len(call.points) \in Nat
<1>1. Len(call.points) \in Nat /\ DOMAIN call.scalars = 1 .. Len(call.points)
  BY CallFacts
<1>2. ASSUME NEW k \in 1 .. Len(call.points)
      PROVE  call.points[k] \in AnyPoint /\ ValidPoint(call.points[k]) /\ AreBits(bits[k])
  BY <1>1, PointsMean DEF ValidPoints
<1> QED BY <1>1, <1>2 DEF AreTerms

\* The opcode's sum is that of its terms.
LEMMA PartialSumIs ==
    ASSUME call.fn = "msm", NEW n
    PROVE  PartialSum(n) = Total(call.points, bits, n)
<1>1. call.fn # "add"
  OBVIOUS
<1> QED BY <1>1 DEF PartialSum, Total, Term

LEMMA InitOpcode == Init => OpcodeInv
<1> SUFFICES ASSUME Init PROVE OpcodeInv
  OBVIOUS
<1>1. pc \in {"add", "msm"} /\ side = "compute"
  BY GrumpkinAssumption DEF Init
<1> QED BY <1>1 DEF Init, OpcodeInv, AcceptsRelation

\* @compute's bits are bits.
LEMMA BitsOpcode == TypeInv /\ OpcodeInv /\ ComputeBits => OpcodeInv'
<1> SUFFICES ASSUME TypeInv, OpcodeInv, ComputeBits PROVE OpcodeInv'
  OBVIOUS
<1>1. /\ call' = call /\ side' = side /\ side = "compute" /\ point' = point /\ bit' = bit
      /\ multiple' = multiple /\ sum' = sum /\ pc' \in {"helper", "trap"} /\ call.fn = "msm"
      /\ point = 1 /\ bit = TotalBits /\ multiple = Infinity /\ sum = Infinity
  BY DEF ComputeBits, OpcodeInv, TypeInv, loop
<1>2. ASSUME NEW k \in DOMAIN call.scalars PROVE AreBits(bits'[k])
  <2> DEFINE a == call.scalars[k][1]
             b == call.scalars[k][2]
             s == Peeled(a, LowBits)
             t == Peeled(b, HighBits)
  <2>1. a \in Nat /\ b \in Nat /\ LowBits \in Nat /\ HighBits \in Nat
    BY CallFacts, GrumpkinAssumption, PrimeAssumption DEF F
  <2>2. bits'[k] = s \o t
    BY DEF ComputeBits
  <2>3. ASSUME NEW limb \in Nat, NEW n \in Nat PROVE Peeled(limb, n) \in [1 .. n -> {0, 1}]
    <3>1. ASSUME NEW i \in 1 .. n PROVE (limb \div TwoTo(i - 1)) % 2 \in {0, 1}
      BY DigitIsBit
    <3> QED BY <3>1 DEF Peeled
  <2>4. s \in [1 .. LowBits -> {0, 1}] /\ t \in [1 .. HighBits -> {0, 1}]
    BY <2>1, <2>3
  <2> HIDE DEF s, t
  <2>5. s \in Seq({0, 1}) /\ t \in Seq({0, 1}) /\ Len(s) = LowBits /\ Len(t) = HighBits
    BY <2>1, <2>4, ByElements
  <2>6. ASSUME NEW i \in 1 .. LowBits + HighBits PROVE (s \o t)[i] \in {0, 1}
    <3>1. (s \o t) \in Seq({0, 1}) /\ Len(s \o t) = LowBits + HighBits
      BY <2>5
    <3> QED BY <2>1, <3>1
  <2> QED BY <2>2, <2>6 DEF AreBits
<1>3. ASSUME call.predicate = 1, ValidPoints
      PROVE  Accumulated(call.points, bits', Len(call.points), point, bit, multiple, sum)
  <2>1. AreTerms(call.points, bits', Len(call.points)) /\ Len(call.points) \in Nat
    <3>1. Len(call.points) \in Nat /\ DOMAIN call.scalars = 1 .. Len(call.points)
      BY <1>1, CallFacts
    <3> QED BY <1>2, <1>3, <3>1, PointsMean DEF AreTerms, ValidPoints
  <2> QED BY <1>1, <2>1, HelperStarts
<1>4. ValidPoints' <=> ValidPoints
  BY <1>1 DEF ValidPoints
<1>5. InHelper'
  BY <1>1, <1>2, <1>3, <1>4 DEF InHelper
<1>6. AcceptsRelation'
  BY <1>1 DEF AcceptsRelation
<1> QED BY <1>1, <1>5, <1>6 DEF OpcodeInv

---------------------------------------------------------------------------
\* The verdict

\* The opcode's sum, and the relation, of any bits and output.
Combined(c, digits, n) ==
    IF c.fn = "add" THEN GroupSum[Element(c.points[1]), Element(c.points[2])]
    ELSE LET total[i \in 0 .. n] ==
                 IF i = 0 THEN <<>>
                 ELSE GroupSum[total[i - 1],
                               GroupMultiple[Element(c.points[i])][BitsValue(digits[i])]]
         IN  total[n]

Relates(digits, out) ==
    /\ call.predicate \in {0, 1}
    /\ call.predicate = 0 => out = Infinity
    /\ call.predicate = 1 =>
          /\ ValidPoints /\ ValidPoint(out)
          /\ AreScalars(digits) /\ BelowOrder(Len(call.scalars) + 1)
          /\ Element(out) = Combined(call, digits, Len(call.points))

Clean(out) == \A p \in Range(call.points) \union {out} : Canonical(p)

LEMMA CombinedIs ==
    ASSUME call.fn = "msm", NEW digits, NEW n
    PROVE  Combined(call, digits, n) = Total(call.points, digits, n)
<1>1. call.fn # "add"
  OBVIOUS
<1> QED BY <1>1 DEF Combined, Total, Term

\* The verdict of a step is judged by the relation of its bits and its output.
LEMMA VerdictIs ==
    ASSUME TypeInv, call' = call,
           holds' => Relates(bits', output'),
           Relates(bits', output') /\ Clean(output') => holds'
    PROVE  AcceptsRelation'
<1>1. PartialSum(Len(call.points))' = Combined(call', bits', Len(call'.points))
  BY DEF PartialSum, Combined
<1>2. PartialSum(Len(call.points))' = Combined(call, bits', Len(call.points))
  BY <1>1
<1>3. ValidPoints' <=> ValidPoints
  BY DEF ValidPoints
<1> DEFINE scalars == \A k \in DOMAIN call.scalars :
                        /\ ValidScalar(call.scalars[k])
                        /\ \A i \in 1 .. TotalBits : bits'[k][i] \in {0, 1}
                        /\ BitsValue(bits'[k]) = ScalarOf(call.scalars[k])
<1>4. scalars <=> AreScalars(bits') /\ BelowOrder(Len(call.scalars) + 1)
  <2>1. \A k \in DOMAIN call.scalars : k < Len(call.scalars) + 1
    <3>1. DOMAIN call.scalars = 1 .. Len(call.scalars) /\ Len(call.scalars) \in Nat
      BY CallFacts, GrumpkinAssumption DEF TypeInv
    <3> QED BY <3>1
  <2> QED BY <2>1 DEF AreScalars, BelowOrder, ValidScalar, AreBits
<1>5. Relation' <=> /\ call.predicate \in {0, 1}
                    /\ call.predicate = 0 => output' = Infinity
                    /\ call.predicate = 1 =>
                          /\ ValidPoints /\ ValidPoint(output') /\ scalars
                          /\ Element(output') = Combined(call, bits', Len(call.points))
  BY <1>2, <1>3 DEF Relation
<1> HIDE DEF scalars
<1>6. Relation' <=> Relates(bits', output')
  BY <1>4, <1>5 DEF Relates
<1>7. (\A p \in Range(call.points) \union {output} : p[3] = 1 => p = Infinity)' <=> Clean(output')
  BY DEF Clean, Canonical
<1> QED BY <1>6, <1>7 DEF AcceptsRelation

\* What has been accepted and the order of the scalars are what the relation says of the inputs.
LEMMA RelatesAccepted ==
    ASSUME TypeInv, NEW digits, NEW out, Relates(digits, out),
           \A k \in DOMAIN call.scalars : digits[k] \in [1 .. TotalBits -> F]
    PROVE  Accepted(digits)
BY AcceptedMeans DEF Relates

\* The relation and the constraints depend on the variables they read.
LEMMA SameRelation ==
    ASSUME UNCHANGED <<call, bits, output>>
    PROVE  Relation' <=> Relation
<1>1. PartialSum(Len(call.points))' = Combined(call', bits', Len(call'.points))
  BY DEF PartialSum, Combined
<1>2. PartialSum(Len(call.points)) = Combined(call, bits, Len(call.points))
  BY DEF PartialSum, Combined
<1>3. PartialSum(Len(call.points))' = PartialSum(Len(call.points))
  BY <1>1, <1>2
<1>4. ValidPoints' <=> ValidPoints
  BY DEF ValidPoints
<1> QED BY <1>3, <1>4 DEF Relation

LEMMA SameAccepted ==
    ASSUME call' = call
    PROVE  Accepted(bits)' <=> Accepted(bits')
<1>1. PredicateGate' = PredicateGate
  BY DEF PredicateGate
<1>2. PointConstraints' <=> PointConstraints
  BY <1>1 DEF PointConstraints
<1>3. \A k \in DOMAIN call.scalars :
         ScalarConstraints(call.scalars[k], bits[k])' <=> ScalarConstraints(call.scalars[k], bits'[k])
  BY <1>1 DEF ScalarConstraints
<1> QED BY <1>1, <1>2, <1>3 DEF Accepted

\* A step that answers changes nothing else the invariant reads.
LEMMA IdleOpcode == OpcodeInv /\ (ComputeAdd \/ Verdict \/ UNCHANGED vars) => OpcodeInv'
<1> SUFFICES ASSUME OpcodeInv, ComputeAdd \/ Verdict \/ UNCHANGED vars PROVE OpcodeInv'
  OBVIOUS
<1>1. CASE ComputeAdd
  <2>1. pc' = "computed" /\ side' = side
    BY <1>1 DEF ComputeAdd
  <2> QED BY <2>1 DEF OpcodeInv, AcceptsRelation
<1>2. CASE UNCHANGED vars
  <2>1. UNCHANGED <<call, side, pc, bits, output, point, bit, multiple, sum, holds, scalarTop, modulusTop>>
    BY <1>2 DEF vars
  <2>2. (Relation' <=> Relation) /\ (Accepted(bits)' <=> Accepted(bits))
    BY <2>1, SameRelation, SameAccepted
  <2>3. AcceptsRelation'
    BY <2>1, <2>2 DEF OpcodeInv, AcceptsRelation
  <2>4. \A n : BelowOrder(n)' <=> BelowOrder(n)
    BY <2>1 DEF BelowOrder
  <2>5. pc' = "compare" => InCompare'
    BY <2>1, <2>4 DEF OpcodeInv, InCompare, BelowOrder
  <2>6. ValidPoints' <=> ValidPoints
    BY <2>1 DEF ValidPoints
  <2>7. pc' = "helper" => InHelper'
    BY <2>1, <2>6 DEF OpcodeInv, InHelper, BelowOrder
  <2> QED BY <2>1, <2>2, <2>3, <2>5, <2>7 DEF OpcodeInv
<1>3. Verdict => UNCHANGED vars
  BY DEF Verdict
<1> QED BY <1>1, <1>2, <1>3

\* The helper's loops carry the accumulators along.
LEMMA LoopOpcode == TypeInv /\ OpcodeInv /\ (DoubleAndAdd \/ Accumulate) => OpcodeInv'
<1> SUFFICES ASSUME TypeInv, OpcodeInv, DoubleAndAdd \/ Accumulate PROVE OpcodeInv'
  OBVIOUS
<1>1. /\ UNCHANGED <<call, side, pc, bits, output, holds>> /\ pc = "helper" /\ call.fn = "msm"
      /\ call.predicate = 1 /\ point <= Len(call.points) /\ point \in 1 .. Len(call.points)
      /\ Len(call.points) \in Nat /\ Len(call.scalars) = Len(call.points)
  BY CallFacts DEF DoubleAndAdd, Accumulate, TypeInv
<1>2. /\ \A k \in DOMAIN call.scalars : AreBits(bits[k])
      /\ ValidPoints => Accumulated(call.points, bits, Len(call.points), point, bit, multiple, sum)
      /\ side = "constrain" => BelowOrder(point + Len(call.scalars))
  BY <1>1 DEF OpcodeInv, InHelper
<1>3. ASSUME ValidPoints
      PROVE  Accumulated(call.points, bits, Len(call.points), point', bit', multiple', sum')
  <2>1. AreTerms(call.points, bits, Len(call.points))
    BY <1>1, <1>2, <1>3, OpcodeTerms
  <2>2. Accumulated(call.points, bits, Len(call.points), point, bit, multiple, sum)
    BY <1>2, <1>3
  <2>3. CASE DoubleAndAdd
    <3>1. bit \in 1 .. TotalBits /\ bit' = bit - 1 /\ point' = point /\ sum' = sum
      BY <2>3, CallFacts DEF DoubleAndAdd, TypeInv
    <3>2. multiple' = IF bits[point][bit] = 1 THEN Add(Add(multiple, multiple), call.points[point])
                                              ELSE Add(multiple, multiple)
      BY <2>3 DEF DoubleAndAdd
    <3> QED BY <1>1, <2>1, <2>2, <3>1, <3>2, BitAccumulates
  <2>4. CASE Accumulate
    <3>1. bit = 0 /\ sum' = Add(sum, multiple) /\ point' = point + 1 /\ bit' = TotalBits
          /\ multiple' = Infinity
      BY <2>4 DEF Accumulate
    <3> QED BY <1>1, <2>1, <2>2, <3>1, TermAccumulates
  <2> QED BY <2>3, <2>4
<1>4. side' = "constrain" => BelowOrder(point + Len(call.scalars))'
  <2>1. \A k \in DOMAIN call.scalars : k < point + Len(call.scalars)
    <3>1. DOMAIN call.scalars = 1 .. Len(call.scalars)
      BY CallFacts
    <3> QED BY <1>1, <3>1
  <2> QED BY <1>1, <1>2, <2>1 DEF BelowOrder
<1>5. ValidPoints' <=> ValidPoints
  BY <1>1 DEF ValidPoints
<1>6. InHelper'
  BY <1>1, <1>2, <1>3, <1>4, <1>5 DEF InHelper
<1>7. Accepted(bits)' <=> Accepted(bits)
  BY <1>1, SameAccepted
<1>8. AcceptsRelation'
  BY <1>1 DEF AcceptsRelation
<1> QED BY <1>1, <1>6, <1>7, <1>8 DEF OpcodeInv

\* The helper answers: with a false predicate infinity, else the sum of all its terms.
LEMMA ReturnOpcode == TypeInv /\ OpcodeInv /\ (SkipHelper \/ FinishHelper) => OpcodeInv'
<1> SUFFICES ASSUME TypeInv, OpcodeInv, SkipHelper \/ FinishHelper PROVE OpcodeInv'
  OBVIOUS
<1>1. UNCHANGED <<call, side, bits>> /\ pc = "helper" /\ call.fn = "msm"
  BY DEF SkipHelper, FinishHelper, TypeInv
<1>2. CASE side = "compute"
  <2>1. pc' = "computed" /\ side' = "compute"
    BY <1>1, <1>2 DEF SkipHelper, FinishHelper, Returns
  <2> QED BY <2>1 DEF OpcodeInv, AcceptsRelation
<1>3. CASE side = "constrain"
  <2>1. pc' = "verdict" /\ side' = "constrain" /\ output' = output
    BY <1>1, <1>3 DEF SkipHelper, FinishHelper, Returns
  <2>2. /\ call.predicate \in {0, 1}
        /\ call.predicate = 1 => ValidPoints /\ AreScalars(bits)
    <3>1. \A k \in DOMAIN call.scalars : bits[k] \in [1 .. TotalBits -> F]
      BY <1>1 DEF TypeInv
    <3>2. Accepted(bits)
      BY <1>1, <1>3 DEF OpcodeInv
    <3> QED BY <3>1, <3>2, AcceptedMeans
  <2>3. CASE SkipHelper
    <3>1. call.predicate = 0 /\ holds' = (output = Infinity)
      BY <1>3, <2>2, <2>3 DEF SkipHelper, Returns
    <3>2. Relates(bits', output') <=> output = Infinity
      BY <2>1, <3>1 DEF Relates
    <3>3. AcceptsRelation'
      BY <1>1, <3>1, <3>2, VerdictIs
    <3> QED BY <2>1, <3>3 DEF OpcodeInv
  <2>4. CASE FinishHelper
    <3>1. call.predicate = 1 /\ holds' = (output = sum) /\ point > Len(call.points)
      BY <1>3, <2>4 DEF FinishHelper, Returns
    <3>2. /\ point = Len(call.points) + 1 /\ Len(call.points) \in Nat
          /\ Len(call.scalars) = Len(call.points) /\ point - 1 = Len(call.points)
      BY <1>1, <3>1, CallFacts DEF TypeInv
    <3>3. ValidPoints /\ AreScalars(bits)
      BY <2>2, <3>1
    <3>4. Accumulated(call.points, bits, Len(call.points), point, bit, multiple, sum)
      BY <1>1, <3>1, <3>3 DEF OpcodeInv, InHelper
    <3>5. ValidPoint(sum) /\ Element(sum) = Combined(call, bits, Len(call.points))
      BY <1>1, <3>2, <3>4, CombinedIs DEF Accumulated
    <3>6. BelowOrder(Len(call.scalars) + 1)
      <4>1. BelowOrder(point + Len(call.scalars))
        BY <1>1, <1>3, <3>1 DEF OpcodeInv, InHelper
      <4>2. \A k \in DOMAIN call.scalars : k < point + Len(call.scalars)
        BY <3>2, CallFacts
      <4> QED BY <4>1, <4>2 DEF BelowOrder
    <3>7. ASSUME holds' PROVE Relates(bits', output')
      <4>1. bits' = bits /\ output' = output /\ output = sum
        BY <1>1, <2>1, <3>1, <3>7
      <4> QED BY <3>1, <3>3, <3>5, <3>6, <4>1 DEF Relates
    <3>8. ASSUME Relates(bits', output'), Clean(output') PROVE holds'
      <4>1. ValidPoint(output) /\ Element(output) = Element(sum)
        BY <1>1, <2>1, <3>1, <3>5, <3>8 DEF Relates
      <4>2. Canonical(output) /\ \A i \in 1 .. Len(call.points) : Canonical(call.points[i])
        BY <2>1, <3>8, PointsMean DEF Clean
      <4>3. Canonical(sum)
        BY <3>4, <4>2 DEF Accumulated
      <4>4. output = sum
        BY <3>5, <4>1, <4>2, <4>3, ElementInjective DEF TypeInv
      <4> QED BY <3>1, <4>4
    <3>9. AcceptsRelation'
      BY <1>1, <3>7, <3>8, VerdictIs
    <3> QED BY <2>1, <3>9 DEF OpcodeInv
  <2> QED BY <2>3, <2>4
<1> QED BY <1>2, <1>3 DEF OpcodeInv

\* EmbeddedCurveAdd's answer: with a false predicate infinity, else the sum of its two points.
LEMMA AddOpcode == TypeInv /\ OpcodeInv /\ ConstrainAdd => OpcodeInv'
<1> SUFFICES ASSUME TypeInv, OpcodeInv, ConstrainAdd PROVE OpcodeInv'
  OBVIOUS
<1> DEFINE p == call.points[1]
           q == call.points[2]
<1>1. UNCHANGED <<call, side, bits, output>> /\ pc = "add" /\ side = "constrain" /\ pc' = "verdict"
      /\ call.fn = "add" /\ holds' = (output = EmbeddedCurveAdd(p, q, call.predicate))
  BY DEF ConstrainAdd, TypeInv
<1>2. DOMAIN call.scalars = {} /\ Len(call.points) = 2
  BY <1>1, GrumpkinAssumption DEF TypeInv
<1>3. call.predicate \in {0, 1} /\ (call.predicate = 1 => ValidPoints)
  <2>1. Accepted(bits)
    BY <1>1 DEF OpcodeInv
  <2> QED BY <1>2, <2>1, AcceptedMeans
<1>4. p \in AnyPoint /\ q \in AnyPoint /\ p \in Range(call.points) /\ q \in Range(call.points)
  BY <1>2, PointsMean
<1> HIDE DEF p, q
<1>5. CASE call.predicate = 0
  <2>1. holds' = (output = Infinity)
    BY <1>1, <1>5 DEF EmbeddedCurveAdd
  <2>2. Relates(bits', output') <=> output = Infinity
    BY <1>1, <1>5 DEF Relates
  <2> QED BY <1>1, <2>1, <2>2, VerdictIs DEF OpcodeInv
<1>6. CASE call.predicate = 1
  <2> DEFINE r == Add(p, q)
  <2>1. holds' = (output = r)
    BY <1>1, <1>6 DEF EmbeddedCurveAdd
  <2>2. ValidPoints /\ ValidPoint(p) /\ ValidPoint(q)
    BY <1>3, <1>4, <1>6 DEF ValidPoints
  <2>3. /\ r \in AnyPoint /\ ValidPoint(r) /\ Element(r) = GroupSum[Element(p), Element(q)]
        /\ Canonical(p) /\ Canonical(q) => Canonical(r)
    BY <1>4, <2>2, AddIsSum DEF Canonical
  <2> HIDE DEF r
  <2>4. Combined(call, bits, Len(call.points)) = Element(r)
    BY <1>1, <2>3 DEF Combined, p, q
  <2>5. AreScalars(bits) /\ BelowOrder(Len(call.scalars) + 1)
    BY <1>2 DEF AreScalars, BelowOrder
  <2>6. ASSUME holds' PROVE Relates(bits', output')
    <3>1. bits' = bits /\ output' = r
      BY <1>1, <2>1, <2>6
    <3>2. ValidPoint(output') /\ Element(output') = Combined(call, bits', Len(call.points))
      BY <2>3, <2>4, <3>1
    <3>3. AreScalars(bits')
      BY <2>5, <3>1
    <3> QED BY <1>6, <2>2, <2>5, <3>2, <3>3 DEF Relates
  <2>7. ASSUME Relates(bits', output'), Clean(output') PROVE holds'
    <3>1. ValidPoint(output) /\ Element(output) = Element(r)
      BY <1>1, <1>6, <2>4, <2>7 DEF Relates
    <3>2. Canonical(output) /\ Canonical(p) /\ Canonical(q)
      BY <1>1, <1>4, <2>7 DEF Clean
    <3>3. output = r
      BY <2>3, <3>1, <3>2, ElementInjective DEF TypeInv
    <3> QED BY <2>1, <3>3
  <2> QED BY <1>1, <2>6, <2>7, VerdictIs DEF OpcodeInv
<1> QED BY <1>3, <1>5, <1>6

\* A witness: what it must satisfy before the comparison is what the relation says of the
\* predicate, of the points and of the digits.
LEMMA ProveOpcode == TypeInv /\ OpcodeInv /\ Prove => OpcodeInv'
<1> SUFFICES ASSUME TypeInv, OpcodeInv, Prove PROVE OpcodeInv'
  OBVIOUS
<1>1. /\ call' = call /\ side' = "constrain" /\ point' = 1 /\ bit' = TotalBits
      /\ multiple' = Infinity /\ sum' = Infinity /\ scalarTop' = 0 /\ modulusTop' = 0
      /\ pc' \in {"verdict", "add", "compare"} /\ (pc' # "verdict" <=> holds')
  BY DEF Prove
<1>2. \A k \in DOMAIN call.scalars : bits'[k] \in [1 .. TotalBits -> F]
  BY GrumpkinAssumption DEF Prove
<1>3. holds' = Accepted(bits')
  BY DEF Prove, Accepted
<1>4. CASE ~holds'
  <2>1. ~Relates(bits', output')
    BY <1>2, <1>3, <1>4, RelatesAccepted
  <2>2. AcceptsRelation'
    BY <1>1, <1>4, <2>1, VerdictIs
  <2> QED BY <1>1, <1>4, <2>2 DEF OpcodeInv
<1>5. CASE holds'
  <2>1. Accepted(bits)'
    BY <1>1, <1>3, <1>5, SameAccepted
  <2>2. ASSUME call.predicate = 1, 1 <= Len(call.scalars)
        PROVE  BitsValue(bits'[1]) \div TwoTo(TotalBits) = 0
    <3>1. AreScalars(bits')
      BY <1>2, <1>3, <1>5, <2>2, AcceptedMeans
    <3>2. 1 \in DOMAIN call.scalars
      <4>1. DOMAIN call.scalars = 1 .. Len(call.scalars) /\ Len(call.scalars) \in Nat
        BY CallFacts, GrumpkinAssumption DEF TypeInv
      <4> QED BY <2>2, <4>1
    <3> QED BY <3>1, <3>2, BitsTop DEF AreScalars
  <2>3. BelowOrder(point)'
    <3>1. DOMAIN call.scalars = 1 .. Len(call.scalars) /\ Len(call.scalars) \in Nat
      BY CallFacts, GrumpkinAssumption DEF TypeInv
    <3> QED BY <1>1, <3>1 DEF BelowOrder
  <2>4. InCompare'
    BY <1>1, <1>5, <2>2, <2>3, ModulusTop DEF InCompare
  <2>5. AcceptsRelation'
    BY <1>1, <1>5 DEF AcceptsRelation
  <2> QED BY <1>1, <1>5, <2>1, <2>4, <2>5 DEF OpcodeInv
<1> QED BY <1>4, <1>5

\* What the comparison knows when it reads a bit or ends a scalar.
LEMMA ComparingFacts ==
    ASSUME TypeInv, OpcodeInv, pc = "compare", point <= Len(call.scalars)
    PROVE  /\ InCompare /\ Accepted(bits) /\ call.predicate \in {0, 1}
           /\ call.predicate = 0 => PredicateGate = 0 /\ holds
           /\ call.predicate = 1 => PredicateGate = 1 /\ AreScalars(bits)
           /\ point \in DOMAIN call.scalars
           /\ bits[point] \in [1 .. TotalBits -> F]
           /\ DOMAIN call.scalars = 1 .. Len(call.scalars) /\ Len(call.scalars) \in Nat
<1>1. InCompare /\ side = "constrain"
  BY DEF OpcodeInv, InCompare
<1>2. Accepted(bits)
  BY <1>1 DEF OpcodeInv
<1>3. DOMAIN call.scalars = 1 .. Len(call.scalars) /\ Len(call.scalars) \in Nat
      /\ point \in DOMAIN call.scalars
      /\ \A k \in DOMAIN call.scalars : bits[k] \in [1 .. TotalBits -> F]
  BY CallFacts DEF TypeInv
<1>4. call.predicate \in {0, 1} /\ (call.predicate = 1 => AreScalars(bits))
  BY <1>2, <1>3, AcceptedMeans
<1>5. (call.predicate = 0 => PredicateGate = 0 /\ holds) /\ (call.predicate = 1 => PredicateGate = 1)
  BY <1>1 DEF PredicateGate, InCompare
<1> QED BY <1>1, <1>2, <1>3, <1>4, <1>5

\* One bit of the comparison: both numbers take their next bit.
LEMMA BitOpcode == TypeInv /\ OpcodeInv /\ CompareBit => OpcodeInv'
<1> SUFFICES ASSUME TypeInv, OpcodeInv, CompareBit PROVE OpcodeInv'
  OBVIOUS
<1> DEFINE digit == bits[point][bit]
<1>1. /\ UNCHANGED <<call, side, pc, bits, point, multiple, sum>> /\ pc = "compare"
      /\ point <= Len(call.scalars) /\ bit \in 1 .. TotalBits /\ bit' = bit - 1
      /\ modulusTop' = 2 * modulusTop + ModulusBit(bit) /\ scalarTop' = 2 * scalarTop + digit
  BY CallFacts DEF CompareBit, TypeInv
<1>2. /\ InCompare /\ Accepted(bits) /\ call.predicate \in {0, 1}
      /\ call.predicate = 0 => PredicateGate = 0 /\ holds
      /\ call.predicate = 1 => AreScalars(bits)
      /\ point \in DOMAIN call.scalars /\ bits[point] \in [1 .. TotalBits -> F]
      /\ DOMAIN call.scalars = 1 .. Len(call.scalars) /\ Len(call.scalars) \in Nat
  BY <1>1, ComparingFacts
<1>3. ASSUME call.predicate = 0 PROVE holds'
  <2>1. Times(prefix, digit) \in F /\ 0 \in F
    BY <1>1, <1>2, TimesZero, SmallFelts DEF TypeInv
  <2>2. Gated(0, Times(prefix, digit), 0)
    BY <2>1, Gates
  <2> QED BY <1>2, <1>3, <2>2 DEF CompareBit
<1>4. ASSUME call.predicate = 1
      PROVE  /\ scalarTop' = BitsValue(bits[point]) \div TwoTo(bit - 1)
             /\ modulusTop' = ScalarModulus \div TwoTo(bit - 1)
  <2>1. scalarTop = BitsValue(bits[point]) \div TwoTo(bit) /\ modulusTop = ScalarModulus \div TwoTo(bit)
    BY <1>1, <1>2, <1>4 DEF InCompare
  <2>2. AreBits(bits[point])
    BY <1>2, <1>4 DEF AreScalars
  <2> QED BY <1>1, <2>1, <2>2, BitsTop, ModulusTop
<1> HIDE DEF digit
<1>5. BelowOrder(point)' <=> BelowOrder(point)
  BY <1>1 DEF BelowOrder
<1>6. ~(point > Len(call.scalars))
  BY <1>1, <1>2
<1>7. InCompare'
  BY <1>1, <1>2, <1>3, <1>4, <1>5, <1>6 DEF InCompare
<1>8. Accepted(bits)'
  BY <1>1, <1>2, SameAccepted
<1>9. AcceptsRelation'
  BY <1>1 DEF AcceptsRelation
<1> QED BY <1>1, <1>7, <1>8, <1>9 DEF OpcodeInv

\* The end of a scalar: the last constraint decides whether it is below the order, for the bits
\* read are all of its bits.
LEMMA EndOpcode == TypeInv /\ CompareInv /\ OpcodeInv /\ CompareEnd => OpcodeInv'
<1> SUFFICES ASSUME TypeInv, CompareInv, OpcodeInv, CompareEnd PROVE OpcodeInv'
  OBVIOUS
<1>1. /\ UNCHANGED <<call, side, bits, output, multiple, sum>> /\ pc = "compare"
      /\ point <= Len(call.scalars) /\ bit = 0 /\ point \in Nat \ {0}
      /\ point' = point + 1 /\ bit' = TotalBits /\ scalarTop' = 0 /\ modulusTop' = 0
      /\ holds' = (holds /\ Gated(PredicateGate, prefix, 0))
      /\ pc' = IF holds' THEN "compare" ELSE "verdict"
  BY CallFacts DEF CompareEnd, TypeInv
<1>2. /\ InCompare /\ Accepted(bits) /\ call.predicate \in {0, 1}
      /\ call.predicate = 0 => PredicateGate = 0 /\ holds
      /\ call.predicate = 1 => PredicateGate = 1 /\ AreScalars(bits)
      /\ point \in DOMAIN call.scalars
      /\ DOMAIN call.scalars = 1 .. Len(call.scalars) /\ Len(call.scalars) \in Nat
  BY <1>1, ComparingFacts
<1>3. (Gated(1, prefix, 0) <=> prefix = 0) /\ Gated(0, prefix, 0)
  BY SmallFelts, Gates DEF TypeInv
<1>4. ASSUME call.predicate = 0 PROVE holds'
  BY <1>1, <1>2, <1>3, <1>4
<1>5. ASSUME call.predicate = 1
      PROVE  holds' <=> ScalarOf(call.scalars[point]) < ScalarModulus
  <2> DEFINE s == ScalarOf(call.scalars[point])
  <2>1. AreBits(bits[point]) /\ BitsValue(bits[point]) = s
    BY <1>2, <1>5 DEF AreScalars
  <2>2. scalarTop = BitsValue(bits[point]) \div TwoTo(0) /\ modulusTop = ScalarModulus \div TwoTo(0)
    BY <1>1, <1>2, <1>5 DEF InCompare
  <2>3. scalarTop = s /\ modulusTop = ScalarModulus
    BY <2>1, <2>2, BitsTop, ModulusTop
  <2>4. /\ holds /\ prefix = 1 => scalarTop = modulusTop
        /\ holds /\ prefix # 1 => prefix = 0 /\ scalarTop < modulusTop
        /\ ~holds => scalarTop > modulusTop
    BY <1>1, <1>5 DEF CompareInv, CompareExact
  <2>5. holds' <=> holds /\ prefix = 0
    BY <1>1, <1>2, <1>3, <1>5
  <2>6. scalarTop \in Int /\ modulusTop \in Int
    BY <1>1, <1>5 DEF CompareInv, Comparing
  <2> HIDE DEF s
  <2>7. holds' <=> s < ScalarModulus
    <3>1. CASE holds /\ prefix = 0
      BY <2>3, <2>4, <2>5, <2>6, <3>1
    <3>2. CASE holds /\ prefix # 0
      <4>1. prefix = 1
        BY <2>4, <3>2
      <4>2. s = ScalarModulus /\ ~holds'
        BY <2>3, <2>4, <2>5, <3>2, <4>1
      <4> QED BY <2>3, <2>6, <4>2
    <3>3. CASE ~holds
      <4>1. s > ScalarModulus /\ ~holds'
        BY <2>3, <2>4, <2>5, <3>3
      <4> QED BY <2>3, <2>6, <4>1
    <3> QED BY <3>1, <3>2, <3>3
  <2> QED BY <2>7 DEF s
<1>6. CASE ~holds'
  <2>1. call.predicate = 1
    BY <1>2, <1>4, <1>6
  <2>2. ~(ScalarOf(call.scalars[point]) < ScalarModulus)
    BY <1>5, <1>6, <2>1
  <2>3. point < Len(call.scalars) + 1
    BY <1>1, <1>2
  <2>4. ~BelowOrder(Len(call.scalars) + 1)
    BY <1>2, <2>2, <2>3 DEF BelowOrder
  <2>5. ~Relates(bits', output')
    BY <2>1, <2>4 DEF Relates
  <2>6. AcceptsRelation'
    BY <1>1, <1>6, <2>5, VerdictIs
  <2> QED BY <1>1, <1>6, <2>6 DEF OpcodeInv
<1>7. CASE holds'
  <2>1. Accepted(bits)'
    BY <1>1, <1>2, SameAccepted
  <2>2. ASSUME call.predicate = 1 PROVE BelowOrder(point)'
    <3>1. ScalarOf(call.scalars[point]) < ScalarModulus
      BY <1>5, <1>7, <2>2
    <3>2. BelowOrder(point)
      BY <1>2, <2>2 DEF InCompare
    <3>3. ASSUME NEW k \in DOMAIN call.scalars, k < point + 1
          PROVE  ScalarOf(call.scalars[k]) < ScalarModulus
      <4>1. k < point \/ k = point
        BY <1>1, <1>2, <3>3
      <4> QED BY <3>1, <3>2, <4>1 DEF BelowOrder
    <3> QED BY <1>1, <3>3 DEF BelowOrder
  <2>3. ASSUME call.predicate = 1, point + 1 <= Len(call.scalars)
        PROVE  BitsValue(bits[point + 1]) \div TwoTo(TotalBits) = 0
    <3>1. point + 1 \in DOMAIN call.scalars
      BY <1>1, <1>2, <2>3
    <3> QED BY <1>2, <2>3, <3>1, BitsTop DEF AreScalars
  <2>4. side' = "constrain" /\ multiple' = Infinity /\ sum' = Infinity
    BY <1>1, <1>2 DEF InCompare
  <2>5. InCompare'
    BY <1>1, <1>7, <2>2, <2>3, <2>4, ModulusTop DEF InCompare
  <2>6. AcceptsRelation'
    BY <1>1, <1>7 DEF AcceptsRelation
  <2> QED BY <1>1, <1>7, <2>1, <2>4, <2>5, <2>6 DEF OpcodeInv
<1> QED BY <1>6, <1>7

\* All the scalars are compared: the helper starts on the constrain side.
LEMMA ComparedOpcode == TypeInv /\ OpcodeInv /\ Compared => OpcodeInv'
<1> SUFFICES ASSUME TypeInv, OpcodeInv, Compared PROVE OpcodeInv'
  OBVIOUS
<1>1. /\ UNCHANGED <<call, side, bits, bit, multiple, sum>> /\ pc = "compare" /\ pc' = "helper"
      /\ point > Len(call.scalars) /\ point' = 1 /\ call.fn = "msm" /\ point \in Nat
      /\ DOMAIN call.scalars = 1 .. Len(call.scalars) /\ Len(call.scalars) \in Nat
      /\ \A k \in DOMAIN call.scalars : bits[k] \in [1 .. TotalBits -> F]
  BY CallFacts DEF Compared, TypeInv, comparison
<1>2. /\ InCompare /\ side = "constrain" /\ multiple = Infinity /\ sum = Infinity /\ bit = TotalBits
      /\ Accepted(bits)
  BY <1>1 DEF OpcodeInv, InCompare
<1>3. call.predicate = 1 => AreScalars(bits) /\ ValidPoints
  BY <1>1, <1>2, AcceptedMeans
<1>4. ASSUME call.predicate = 1
      PROVE  Accumulated(call.points, bits, Len(call.points), point', bit', multiple', sum')
  <2>1. AreTerms(call.points, bits, Len(call.points)) /\ Len(call.points) \in Nat
    BY <1>1, <1>3, <1>4, OpcodeTerms DEF AreScalars
  <2>2. Accumulated(call.points, bits, Len(call.points), 1, TotalBits, Infinity, Infinity)
    BY <2>1, HelperStarts
  <2> QED BY <1>1, <1>2, <2>2
<1>5. ASSUME call.predicate = 1 PROVE BelowOrder(point + Len(call.scalars))'
  <2>1. BelowOrder(point)
    BY <1>2, <1>5 DEF InCompare
  <2>2. \A k \in DOMAIN call.scalars : k < point
    BY <1>1
  <2> QED BY <1>1, <2>1, <2>2 DEF BelowOrder
<1>6. InHelper'
  BY <1>1, <1>3, <1>4, <1>5 DEF InHelper, AreScalars
<1>7. Accepted(bits)'
  BY <1>1, <1>2, SameAccepted
<1>8. AcceptsRelation'
  BY <1>1 DEF AcceptsRelation
<1> QED BY <1>1, <1>2, <1>6, <1>7, <1>8 DEF OpcodeInv

\* The invariant of the opcode is inductive, with the types and the comparison.
THEOREM OpcodeInvariant == Spec => [](TypeInv /\ OpcodeInv)
<1> DEFINE Inv == TypeInv /\ OpcodeInv
<1>1. Init => Inv
  BY InitTypes, InitOpcode
<1>2. Inv /\ CompareInv /\ [Next]_vars => Inv'
  <2> SUFFICES ASSUME TypeInv, OpcodeInv, CompareInv, [Next]_vars PROVE Inv'
    OBVIOUS
  <2>1. TypeInv'
    BY NextTypes
  <2>2. CASE ComputeAdd \/ Verdict \/ UNCHANGED vars
    BY <2>1, <2>2, IdleOpcode
  <2>3. CASE ComputeBits
    BY <2>1, <2>3, BitsOpcode
  <2>4. CASE SkipHelper \/ FinishHelper
    BY <2>1, <2>4, ReturnOpcode
  <2>5. CASE DoubleAndAdd \/ Accumulate
    BY <2>1, <2>5, LoopOpcode
  <2>6. CASE Prove
    BY <2>1, <2>6, ProveOpcode
  <2>7. CASE ConstrainAdd
    BY <2>1, <2>7, AddOpcode
  <2>8. CASE CompareBit
    BY <2>1, <2>8, BitOpcode
  <2>9. CASE CompareEnd
    BY <2>1, <2>9, EndOpcode
  <2>10. CASE Compared
    BY <2>1, <2>10, ComparedOpcode
  <2> QED BY <2>2, <2>3, <2>4, <2>5, <2>6, <2>7, <2>8, <2>9, <2>10 DEF Next
<1> QED BY <1>1, <1>2, CompareInvariant, PTL DEF Spec

\* Halfway through scalar_mul, for every curve, field and number of bits, the accumulator is
\* the multiple of its point by the bits read so far, and the sum that of the terms before: the
\* affine formulas never meet a pair of points they do not cover.
THEOREM MultipleCorrect == Spec => []PrefixMultiple
<1>1. TypeInv /\ OpcodeInv => PrefixMultiple
  <2> SUFFICES ASSUME TypeInv, OpcodeInv, pc = "helper", call.predicate = 1, ValidPoints,
                      point <= Len(call.points)
               PROVE  /\ ValidPoint(multiple) /\ ValidPoint(sum)
                      /\ Element(multiple) = GroupMultiple[Element(call.points[point])]
                                                          [BitsValue(bits[point]) \div TwoTo(bit)]
                      /\ Element(sum) = PartialSum(point - 1)
    BY DEF PrefixMultiple
  <2>1. call.fn = "msm"
    BY DEF TypeInv
  <2>2. Accumulated(call.points, bits, Len(call.points), point, bit, multiple, sum)
    BY DEF OpcodeInv, InHelper
  <2> QED BY <2>1, <2>2, PartialSumIs DEF Accumulated
<1> QED BY <1>1, OpcodeInvariant, PTL

\* The verdict of @constrain is the relation of the opcode, for every curve, field, number of
\* bits, group order, opcode and witness: it accepts nothing else, and all of it whose points
\* at infinity have no coordinates.
THEOREM RelationCorrect == Spec => []AcceptsRelation
<1>1. OpcodeInv => AcceptsRelation
  BY DEF OpcodeInv
<1> QED BY <1>1, OpcodeInvariant, PTL
=============================================================================

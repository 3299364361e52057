---------------------------- MODULE EcdsaProofs ----------------------------
(***************************************************************************)
(* A verification answers what ACVM answers, for every curve whose moduli   *)
(* behave as primes and whose points are the multiples of its base point.   *)
(*                                                                         *)
(* From below: congruences, and the limb vectors that denote residues; the   *)
(* inverse as a power; the curve formulas as the chords and tangents of the  *)
(* reference, in projective coordinates with a point at infinity; one bit of *)
(* the joint loop; the bytes of the operands; and the phases of a call,      *)
(* whose disjunction is the inductive invariant, EcdsaInv.                   *)
(***************************************************************************)
EXTENDS ArithmeticProofs

---------------------------------------------------------------------------
\* Congruences, and the inverse of a prime modulus

\* Congruence modulo any number.
Agree(m, x, y) == x \in Int /\ y \in Int /\ \E k \in Int : x = y + m * k

\* It is an equivalence.
LEMMA AgreeEquivalence ==
    ASSUME NEW m \in Nat \ {0}
    PROVE  /\ \A x \in Int : Agree(m, x, x)
           /\ \A x, y : Agree(m, x, y) => Agree(m, y, x)
           /\ \A x, y, w : Agree(m, x, y) /\ Agree(m, y, w) => Agree(m, x, w)
  <1>1. ASSUME NEW x \in Int PROVE Agree(m, x, x)
    <2>1. x = x + m * 0 /\ 0 \in Int
      OBVIOUS
    <2> QED BY <2>1 DEF Agree
  <1>2. ASSUME NEW x, NEW y, Agree(m, x, y) PROVE Agree(m, y, x)
    <2>1. x \in Int /\ y \in Int
      BY <1>2 DEF Agree
    <2>2. PICK k \in Int : x = y + m * k
      BY <1>2 DEF Agree
    <2>3. y = x + m * (-k) /\ -k \in Int
      BY <2>1, <2>2
    <2> QED BY <2>1, <2>3 DEF Agree
  <1>3. ASSUME NEW x, NEW y, NEW w, Agree(m, x, y), Agree(m, y, w) PROVE Agree(m, x, w)
    <2>1. x \in Int /\ y \in Int /\ w \in Int
      BY <1>3 DEF Agree
    <2>2. PICK k \in Int : x = y + m * k
      BY <1>3 DEF Agree
    <2>3. PICK j \in Int : y = w + m * j
      BY <1>3 DEF Agree
    <2>4. x = w + m * (j + k) /\ j + k \in Int
      BY <2>1, <2>2, <2>3
    <2> QED BY <2>1, <2>4 DEF Agree
  <1> QED BY <1>1, <1>2, <1>3

\* The operations keep it.
LEMMA AgreeOperations ==
    ASSUME NEW m \in Nat \ {0}, NEW x, NEW y, NEW v, NEW w, Agree(m, x, v), Agree(m, y, w)
    PROVE  Agree(m, x + y, v + w) /\ Agree(m, x - y, v - w) /\ Agree(m, x * y, v * w)
  <1>1. x \in Int /\ y \in Int /\ v \in Int /\ w \in Int
    BY DEF Agree
  <1>2. PICK j \in Int : x = v + m * j
    BY DEF Agree
  <1>3. PICK k \in Int : y = w + m * k
    BY DEF Agree
  <1>4. x + y = (v + w) + m * (j + k) /\ j + k \in Int
    BY <1>1, <1>2, <1>3
  <1>5. x - y = (v - w) + m * (j - k) /\ j - k \in Int
    BY <1>1, <1>2, <1>3
  <1> DEFINE e == v * k + w * j + m * (j * k)
  <1>6. x * y = (v * w) + m * e /\ e \in Int
    BY <1>1, <1>2, <1>3
  <1> HIDE DEF e
  <1>7. /\ x + y \in Int /\ v + w \in Int /\ x - y \in Int /\ v - w \in Int
        /\ x * y \in Int /\ v * w \in Int
    BY <1>1
  <1> QED BY <1>4, <1>5, <1>6, <1>7 DEF Agree

\* A number is congruent to its remainder, and remainders are congruent only to themselves.
LEMMA AgreeRemainder ==
    ASSUME NEW m \in Nat \ {0}
    PROVE  /\ \A x \in Int : x % m \in 0 .. m - 1 /\ Agree(m, x % m, x) /\ Agree(m, x, x % m)
           /\ \A x \in 0 .. m - 1, y \in 0 .. m - 1 : Agree(m, x, y) => x = y
           /\ \A x, y : Agree(m, x, y) => x % m = y % m
           /\ \A x \in Int, y \in Int : x % m = y % m => Agree(m, x, y)
           /\ \A x \in 0 .. m - 1 : x % m = x
  <1>1. ASSUME NEW x \in Int
        PROVE  x % m \in 0 .. m - 1 /\ Agree(m, x % m, x) /\ Agree(m, x, x % m)
    <2> DEFINE r == x % m  q == x \div m
    <2>1. q \in Int /\ r \in 0 .. m - 1 /\ x = m * q + r
      BY DivMod
    <2> HIDE DEF r, q
    <2>2. r \in Int /\ x = r + m * q
      BY <2>1
    <2>3. Agree(m, x, r)
      BY <2>1, <2>2 DEF Agree
    <2> QED BY <2>1, <2>3, AgreeEquivalence DEF r
  <1>2. ASSUME NEW x \in 0 .. m - 1, NEW y \in 0 .. m - 1, Agree(m, x, y) PROVE x = y
    <2>1. PICK k \in Int : x = y + m * k
      BY <1>2 DEF Agree
    <2>2. m * 0 + x = m * k + y /\ 0 \in Int
      BY <2>1
    <2> QED BY <2>2, OneRemainder
  <1>3. ASSUME NEW x, NEW y, Agree(m, x, y) PROVE x % m = y % m
    <2>1. x \in Int /\ y \in Int
      BY <1>3 DEF Agree
    <2>2. Agree(m, x % m, x) /\ Agree(m, y, y % m) /\ x % m \in 0 .. m - 1 /\ y % m \in 0 .. m - 1
      BY <1>1, <2>1
    <2>3. Agree(m, x % m, y % m)
      BY <1>3, <2>2, AgreeEquivalence
    <2> QED BY <1>2, <2>2, <2>3
  <1>4. ASSUME NEW x \in Int, NEW y \in Int, x % m = y % m PROVE Agree(m, x, y)
    BY <1>1, <1>4, AgreeEquivalence
  <1>5. ASSUME NEW x \in 0 .. m - 1 PROVE x % m = x
    <2>1. x \in Int
      OBVIOUS
    <2> QED BY <1>1, <1>2, <2>1
  <1> QED BY <1>1, <1>2, <1>3, <1>4, <1>5

\* The curves' moduli.
LEMMA CurveModuli ==
    ASSUME NEW curve \in Curves
    PROVE  /\ curve.p \in Nat \ {0, 1, 2} /\ curve.n \in Nat \ {0, 1, 2}
           /\ curve.p < R /\ curve.n < R /\ R < 2 * curve.n
           /\ curve.a \in {0, -3} /\ curve.a \in Int
           /\ curve.b \in 0 .. curve.p - 1 /\ curve.gx \in 0 .. curve.p - 1
           /\ curve.gy \in 0 .. curve.p - 1
  <1>1. /\ BarrettModulus(curve.n) /\ curve.n > 2
        /\ curve.a \in {0, -3} /\ curve.p \in Nat /\ curve.p > 2
        /\ IF curve.a = 0 THEN SolinasModulus(curve.p) ELSE BarrettModulus(curve.p)
        /\ {curve.b, curve.gx, curve.gy} \subseteq 0 .. curve.p - 1
    BY CurvesAssumption
  <1>2. R \in Nat
    BY RIsPositive
  <1>3. curve.p < R
    <2>1. CASE curve.a = 0
      <3>1. R - curve.p \in 1 .. LimbBase - 1
        BY <1>1, <2>1 DEF SolinasModulus
      <3> QED BY <1>1, <1>2, <3>1
    <2>2. CASE curve.a # 0
      BY <1>1, <2>2 DEF BarrettModulus
    <2> QED BY <2>1, <2>2
  <1>4. curve.n \in Nat /\ curve.n < R /\ R < 2 * curve.n
    BY <1>1 DEF BarrettModulus
  <1>5. -3 \in Int
    OBVIOUS
  <1> QED BY <1>1, <1>2, <1>3, <1>4, <1>5

\* Powers of congruent numbers are congruent.
LEMMA PowersAgree ==
    ASSUME NEW m \in Nat \ {0}, NEW a \in Nat \ {0}, NEW b \in Nat \ {0}, Agree(m, a, b),
           NEW n \in Nat
    PROVE  Agree(m, Power(a, n), Power(b, n))
  <1> DEFINE S == {k \in 0 .. n : Agree(m, Power(a, k), Power(b, k))}
  <1>1. 0 \in S
    <2>1. Power(a, 0) = 1 /\ Power(b, 0) = 1 /\ Agree(m, 1, 1)
      BY PowerStep, AgreeEquivalence
    <2> QED BY <2>1
  <1>2. ASSUME NEW k \in 0 .. n - 1, k \in S PROVE k + 1 \in S
    <2>1. k \in Nat /\ k + 1 \in 0 .. n
      OBVIOUS
    <2>2. Power(a, k + 1) = a * Power(a, k) /\ Power(b, k + 1) = b * Power(b, k)
      BY <2>1, PowerStep
    <2>3. Agree(m, Power(a, k), Power(b, k))
      BY <1>2
    <2>4. Agree(m, a * Power(a, k), b * Power(b, k))
      BY <2>3, AgreeOperations
    <2> QED BY <2>1, <2>2, <2>4
  <1>3. \A k \in 0 .. n : k \in S
    <2> HIDE DEF S
    <2> QED BY <1>1, <1>2, UpToInduction
  <1> QED BY <1>3

\* The power that Fermat's theorem is about.
LEMMA ModularPowerIsPower ==
    ASSUME NEW m \in Nat \ {0, 1}, NEW a \in Nat \ {0}, NEW n \in Nat
    PROVE  ModularPower(a, n, m) = Power(a, n) % m
  <1> DEFINE Doubled(k, x) == IF k % 2 = 0 THEN (x * x) % m ELSE (a * ((x * x) % m)) % m
             Powers(f) == f = [k \in 0 .. n |-> IF k = 0 THEN 1 ELSE Doubled(k, f[k \div 2])]
             power == CHOOSE f : Powers(f)
             h == [k \in 0 .. n |-> Power(a, k) % m]
  <1>1. ASSUME NEW k \in 1 .. n
        PROVE  /\ k \div 2 \in 0 .. k - 1
               /\ Power(a, k) % m = Doubled(k, Power(a, k \div 2) % m)
    <2> DEFINE q == k \div 2  x == Power(a, q)  y == x % m  even == (y * y) % m
    <2>1. q \in Nat /\ k % 2 \in {0, 1} /\ k = 2 * q + (k % 2)
      BY DivModNat
    <2> HIDE DEF q
    <2>2. q \in 0 .. k - 1 /\ k = (q + q) + (k % 2) /\ q + q \in Nat
      BY <2>1
    <2>3. x \in Nat \ {0} /\ Power(a, q + q) = x * x
      BY <2>1, PowerAdds, PowerIsPositive
    <2> HIDE DEF x
    <2>4. Agree(m, y, x) /\ y \in Int
      BY <2>3, AgreeRemainder
    <2> HIDE DEF y
    <2>5. Agree(m, y * y, x * x)
      BY <2>4, AgreeOperations
    <2>6. even = (x * x) % m
      BY <2>5, AgreeRemainder
    <2>7. CASE k % 2 = 0
      <3>1. Power(a, k) = x * x
        BY <2>2, <2>3, <2>7
      <3> QED BY <2>2, <2>6, <2>7, <3>1 DEF q, x, y
    <2>8. CASE k % 2 = 1
      <3>1. k = (q + q) + 1
        BY <2>2, <2>8
      <3>2. Power(a, k) = a * (x * x)
        BY <2>2, <2>3, <3>1, PowerStep
      <3>3. Agree(m, even, x * x) /\ Agree(m, a, a)
        <4>1. x * x \in Int /\ a \in Int /\ m \in Nat \ {0}
          BY <2>3
        <4> QED BY <2>6, <4>1, AgreeRemainder, AgreeEquivalence
      <3> HIDE DEF even
      <3>4. Agree(m, a * even, a * (x * x))
        BY <3>3, AgreeOperations
      <3>5. (a * even) % m = (a * (x * x)) % m
        BY <3>4, AgreeRemainder
      <3> QED BY <2>2, <2>8, <3>2, <3>5 DEF q, x, y, even
    <2> QED BY <2>1, <2>7, <2>8
  <1>2. Power(a, 0) % m = 1
    <2>1. Power(a, 0) = 1 /\ 1 \in 0 .. m - 1
      BY PowerStep
    <2> QED BY <2>1, AgreeRemainder
  <1>3. Powers(h)
    <2> HIDE DEF Doubled
    <2>1. \A k \in 1 .. n : k \div 2 \in 0 .. n
      BY <1>1
    <2>2. \A k \in 0 .. n : h[k] = IF k = 0 THEN 1 ELSE Doubled(k, h[k \div 2])
      BY <1>1, <1>2, <2>1
    <2> QED BY <2>2
  <1>4. Powers(power)
    <2> HIDE DEF Powers
    <2> QED BY <1>3
  <1>5. ModularPower(a, n, m) = power[n]
    BY DEF ModularPower
  <1> HIDE DEF power, Doubled
  <1>6. power[0] = 1 /\ \A k \in 1 .. n : power[k] = Doubled(k, power[k \div 2])
    BY <1>4
  <1> HIDE DEF Powers
  <1> DEFINE S == {k \in 0 .. n : \A j \in 0 .. k : power[j] = Power(a, j) % m}
  <1>7. 0 \in S
    BY <1>2, <1>6
  <1>8. ASSUME NEW k \in 0 .. n - 1, k \in S PROVE k + 1 \in S
    <2>1. k + 1 \in 1 .. n /\ (k + 1) - 1 = k /\ k + 1 \in 0 .. n
      OBVIOUS
    <2>2. (k + 1) \div 2 \in 0 .. k /\ Power(a, k + 1) % m = Doubled(k + 1, Power(a, (k + 1) \div 2) % m)
      BY <1>1, <2>1
    <2>3. power[(k + 1) \div 2] = Power(a, (k + 1) \div 2) % m
      BY <1>8, <2>2
    <2>4. power[k + 1] = Power(a, k + 1) % m
      BY <1>6, <2>1, <2>2, <2>3
    <2>5. \A j \in 0 .. k + 1 : j = k + 1 \/ j \in 0 .. k
      OBVIOUS
    <2> QED BY <1>8, <2>1, <2>4, <2>5
  <1>9. \A k \in 0 .. n : k \in S
    <2> HIDE DEF S
    <2> QED BY <1>7, <1>8, UpToInduction
  <1>10. n \in 0 .. n
    OBVIOUS
  <1> QED BY <1>5, <1>9, <1>10

\* The prime moduli: the power that the inversion helpers compute is the inverse.
Prime(m) == \E curve \in Curves : m \in {curve.p, curve.n}

\* By Fermat's little theorem that power is the inverse, and zero for zero.
LEMMA FermatInverse ==
    ASSUME NEW m, Prime(m), NEW a \in Nat \ {0}
    PROVE  /\ m \in Nat \ {0, 1, 2}
           /\ Agree(m, a * Power(a, m - 2), IF a % m = 0 THEN 0 ELSE 1)
  <1>1. PICK curve \in Curves : m \in {curve.p, curve.n}
    BY DEF Prime
  <1>2. m \in Nat \ {0, 1, 2}
    BY <1>1, CurveModuli
  <1> DEFINE r == a % m  w == Power(a, m - 2)
  <1>3. m - 2 \in Nat /\ m - 1 \in Nat /\ (m - 2) + 1 = m - 1
    BY <1>2
  <1>4. w \in Int /\ Power(a, m - 1) = a * w
    <2>1. w \in Nat \ {0} /\ Power(a, (m - 2) + 1) = a * w
      BY <1>3, PowerIsPositive, PowerStep
    <2> QED BY <1>3, <2>1
  <1>5. r \in 0 .. m - 1 /\ Agree(m, a, r) /\ a \in Int
    <2>1. a \in Int /\ m \in Nat \ {0}
      BY <1>2
    <2> QED BY <2>1, AgreeRemainder
  <1>6. CASE r = 0
    <2>1. Agree(m, a, 0) /\ Agree(m, w, w)
      BY <1>2, <1>4, <1>5, <1>6, AgreeEquivalence
    <2>2. Agree(m, a * w, 0 * w)
      BY <1>2, <2>1, AgreeOperations
    <2>3. 0 * w = 0
      BY <1>4
    <2> QED BY <1>2, <1>6, <2>2, <2>3
  <1>7. CASE r # 0
    <2>1. r \in 1 .. m - 1 /\ r \in Nat \ {0}
      BY <1>5, <1>7
    <2>2. ModularPower(r, m - 1, m) = 1
      BY <1>1, <2>1, FermatAssumption
    <2>3. Power(r, m - 1) % m = 1
      BY <1>2, <1>3, <2>1, <2>2, ModularPowerIsPower
    <2>4. Agree(m, Power(a, m - 1), Power(r, m - 1))
      BY <1>2, <1>3, <1>5, <2>1, PowersAgree
    <2>5. Power(a, m - 1) % m = 1 /\ 1 % m = 1
      BY <1>2, <2>3, <2>4, AgreeRemainder
    <2>6. a * w \in Int
      BY <1>4, <1>5
    <2>7. Agree(m, a * w, 1)
      BY <1>2, <1>4, <2>5, <2>6, AgreeRemainder
    <2> QED BY <1>2, <1>7, <2>7
  <1> QED BY <1>2, <1>6, <1>7

\* A prime divides a product only if it divides a factor, so factors can be cancelled, and
\* inverses are unique.
LEMMA PrimeFactors ==
    ASSUME NEW m, Prime(m), NEW a \in Int, NEW b \in Int
    PROVE  /\ Agree(m, a * b, 0) => Agree(m, a, 0) \/ Agree(m, b, 0)
           /\ a \in 1 .. m - 1 => \E w \in 1 .. m - 1 : (a * w) % m = 1
  <1>1. m \in Nat \ {0, 1, 2}
    <2>1. 1 \in Nat \ {0}
      OBVIOUS
    <2> QED BY <2>1, FermatInverse
  <1>2. ASSUME NEW x \in 1 .. m - 1 PROVE \E w \in 1 .. m - 1 : (x * w) % m = 1
    <2> DEFINE v == Power(x, m - 2)  w == v % m
    <2>1. x \in Nat \ {0} /\ x \in 0 .. m - 1 /\ x \in Int /\ 0 \in 0 .. m - 1 /\ 1 \in 0 .. m - 1
      BY <1>1
    <2>2. x % m = x
      BY <1>1, <2>1, AgreeRemainder
    <2>3. Agree(m, x * v, 1)
      <3>1. Agree(m, x * v, IF x % m = 0 THEN 0 ELSE 1)
        BY <2>1, FermatInverse
      <3>2. x # 0
        OBVIOUS
      <3> QED BY <2>2, <3>1, <3>2
    <2>4. v \in Int
      BY <1>1, <2>1, PowerIsPositive
    <2> HIDE DEF v
    <2>5. w \in 0 .. m - 1 /\ Agree(m, w, v) /\ Agree(m, x, x)
      BY <1>1, <2>1, <2>4, AgreeRemainder, AgreeEquivalence
    <2> HIDE DEF w
    <2>6. Agree(m, x * w, x * v)
      BY <1>1, <2>5, AgreeOperations
    <2>7. Agree(m, x * w, 1)
      BY <1>1, <2>3, <2>6, AgreeEquivalence
    <2>8. (x * w) % m = 1
      BY <1>1, <2>1, <2>7, AgreeRemainder
    <2>9. w # 0
      <3>1. x * 0 = 0 /\ 0 % m = 0
        BY <1>1, <2>1, AgreeRemainder
      <3> QED BY <2>8, <3>1
    <2>10. w \in 1 .. m - 1
      BY <2>5, <2>9
    <2> QED BY <2>8, <2>10
  <1>3. ASSUME Agree(m, a * b, 0), ~Agree(m, a, 0) PROVE Agree(m, b, 0)
    <2> DEFINE r == a % m
    <2>1. r \in 0 .. m - 1 /\ Agree(m, r, a) /\ Agree(m, a, r)
      BY <1>1, AgreeRemainder
    <2> HIDE DEF r
    <2>2. r \in 1 .. m - 1
      BY <1>3, <2>1
    <2>3. PICK w \in 1 .. m - 1 : (r * w) % m = 1
      BY <1>2, <2>2
    <2>4. r \in Int /\ w \in Int /\ r * w \in Int
      BY <1>1, <2>2
    <2>5. 1 \in 0 .. m - 1 /\ 1 % m = 1
      <3>1. 1 \in 0 .. m - 1
        BY <1>1
      <3> QED BY <1>1, <3>1, AgreeRemainder
    <2>6. Agree(m, r * w, 1)
      BY <1>1, <2>3, <2>4, <2>5, AgreeRemainder
    <2>7. Agree(m, a * w, r * w) /\ Agree(m, b, b)
      BY <1>1, <2>1, <2>4, AgreeEquivalence, AgreeOperations
    <2>8. Agree(m, a * w, 1)
      BY <1>1, <2>6, <2>7, AgreeEquivalence
    <2>9. Agree(m, (a * w) * b, 1 * b)
      BY <1>1, <2>7, <2>8, AgreeOperations
    <2>10. Agree(m, w, w)
      BY <1>1, <2>4, AgreeEquivalence
    <2>11. Agree(m, (a * b) * w, 0 * w)
      BY <1>1, <1>3, <2>10, AgreeOperations
    <2>12. (a * w) * b = (a * b) * w /\ 0 * w = 0 /\ 1 * b = b
      BY <2>4
    <2>13. Agree(m, b, (a * b) * w)
      BY <1>1, <2>9, <2>12, AgreeEquivalence
    <2> QED BY <1>1, <2>11, <2>12, <2>13, AgreeEquivalence
  <1> QED BY <1>2, <1>3

\* What two factors of one product have in common cancels.
LEMMA PrimeCancels ==
    ASSUME NEW m, Prime(m), NEW a \in Int, NEW v \in Int, NEW w \in Int,
           ~Agree(m, a, 0), Agree(m, a * v, a * w)
    PROVE  Agree(m, v, w)
  <1>1. m \in Nat \ {0}
    <2>1. 1 \in Nat \ {0}
      OBVIOUS
    <2> QED BY <2>1, FermatInverse
  <1>2. a * w \in Int /\ Agree(m, a * w, a * w)
    BY <1>1, AgreeEquivalence
  <1>3. Agree(m, a * v - a * w, a * w - a * w)
    BY <1>1, <1>2, AgreeOperations
  <1>4. a * v - a * w = a * (v - w) /\ a * w - a * w = 0 /\ v - w \in Int
    OBVIOUS
  <1>5. Agree(m, v - w, 0)
    BY <1>3, <1>4, PrimeFactors
  <1>6. Agree(m, (v - w) + w, 0 + w)
    BY <1>1, <1>5, AgreeEquivalence, AgreeOperations
  <1>7. (v - w) + w = v /\ 0 + w = w
    OBVIOUS
  <1> QED BY <1>6, <1>7

---------------------------------------------------------------------------
\* Limb vectors as residues

\* Every operation on limb vectors ends with limb vectors.
LEMMA ClosedLimbs ==
    ASSUME NEW l \in Limbs(LIMBS), NEW r \in Limbs(LIMBS), NEW n \in 0 .. R - 1
    PROVE  /\ AddMod(l, r, n) \in Limbs(LIMBS) /\ SubMod(l, r, n) \in Limbs(LIMBS)
  <1>1. LIMBS \in Nat /\ R \in Nat \ {0} /\ Const(n) \in Limbs(LIMBS) /\ {0, 1} \subseteq 0 .. LimbBase - 1
    BY BaseIsPositive, RIsPositive, ValueOfConst
  <1>2. AddMod(l, r, n) \in Limbs(LIMBS)
    <2> DEFINE s == AddWithCarry(l, r, 0)  x == Append(s.limbs, s.carry)  y == ConditionalSub(x, n)
    <2>1. s.limbs \in Limbs(LIMBS) /\ s.carry \in 0 .. LimbBase - 1
      BY <1>1, AddWithCarryAdds
    <2> HIDE DEF s
    <2>2. x \in Limbs(LIMBS + 1)
      BY <2>1, PutOnTop
    <2> HIDE DEF x
    <2>3. y \in Limbs(LIMBS + 1)
      BY <2>2, ConditionalSubSettles
    <2>4. AddMod(l, r, n) = Low(y)
      BY DEF AddMod, ReduceSum, y, x, s
    <2> HIDE DEF y
    <2> QED BY <2>3, <2>4, TopLimb
  <1>3. SubMod(l, r, n) \in Limbs(LIMBS)
    <2> DEFINE d == SubWithBorrow(l, r, 0)  s == AddWithCarry(d.limbs, Const(n), 0)
    <2>1. d.limbs \in Limbs(LIMBS) /\ d.borrow \in {0, 1}
      BY <1>1, SubWithBorrowSubtracts
    <2>2. SubMod(l, r, n) = SelectLimbs(d.borrow, s.limbs, d.limbs)
      BY DEF SubMod, AddBack
    <2> HIDE DEF d
    <2>3. s.limbs \in Limbs(LIMBS)
      BY <1>1, <2>1, AddWithCarryAdds
    <2> HIDE DEF s
    <2> QED BY <2>1, <2>2, <2>3, SelectsLimbs
  <1> QED BY <1>2, <1>3

\* A Barrett reduction ends with limbs whatever the operands are.
LEMMA ClosedBarrett ==
    ASSUME NEW l \in Limbs(LIMBS), NEW r \in Limbs(LIMBS), NEW n, BarrettModulus(n)
    PROVE  MulBarrett(l, r, n) \in Limbs(LIMBS)
  <1> DEFINE w == MulWide(l, r)  mu == Const(BarrettMuLow(n))  q == BarrettEstimate(w, n)
             v == MulWide(q, Const(n))  d == SubWithBorrow(w, v, 0)
             x == Barrett5(w, n)  y == ConditionalSub(x, n)  u == ConditionalSub(y, n)
  <1>1. LIMBS \in Nat \ {0} /\ R \in Nat \ {0} /\ n \in Nat \ {0} /\ n \in 0 .. R - 1 /\ R < 2 * n
    BY BaseIsPositive, RIsPositive DEF BarrettModulus
  <1>2. mu \in Limbs(LIMBS) /\ Const(n) \in Limbs(LIMBS)
    <2>1. ASSUME NEW a PROVE Const(a) \in [1 .. LIMBS -> {(a \div Power(LimbBase, k - 1)) % LimbBase : k \in 1 .. LIMBS}]
      BY DEF Const
    <2>2. BarrettMuLow(n) \in Int
      <3>1. R * R \in Int
        BY <1>1
      <3>2. (R * R) \div n \in Int
        BY <1>1, <3>1, DivMod
      <3> QED BY <1>1, <3>2 DEF BarrettMuLow
    <2> DEFINE a == BarrettMuLow(n)
    <2>3. ASSUME NEW k \in 1 .. LIMBS PROVE (a \div Power(LimbBase, k - 1)) % LimbBase \in 0 .. LimbBase - 1
      <3> DEFINE p == Power(LimbBase, k - 1)
      <3>1. p \in Nat \ {0} /\ LimbBase \in Nat \ {0} /\ a \in Int
        BY <2>2, BaseIsPositive, PowerIsPositive
      <3> HIDE DEF p, a
      <3>2. a \div p \in Int
        BY <3>1, DivMod
      <3>3. (a \div p) % LimbBase \in 0 .. LimbBase - 1
        BY <3>1, <3>2, DivMod
      <3> QED BY <3>3 DEF p, a
    <2>4. mu \in Limbs(LIMBS)
      <3> HIDE DEF a
      <3> QED BY <2>3 DEF Const, Limbs, a
    <2> QED BY <1>1, <2>4, ValueOfConst
  <1>3. w \in Limbs(LIMBS + LIMBS)
    <2>1. w \in Limbs(2 * LIMBS) /\ 2 * LIMBS = LIMBS + LIMBS
      BY <1>1, MulWideMultiplies
    <2> HIDE DEF w
    <2> QED BY <2>1
  <1> HIDE DEF w, mu
  <1>4. High(w) \in Limbs(LIMBS)
    BY <1>1, <1>3, LowAndHigh
  <1>5. q \in Limbs(LIMBS)
    <2> DEFINE a == MulWide(High(w), mu)
    <2>1. a \in Limbs(LIMBS + LIMBS)
      <3>1. a \in Limbs(2 * LIMBS) /\ 2 * LIMBS = LIMBS + LIMBS
        BY <1>1, <1>2, <1>4, MulWideMultiplies
      <3> HIDE DEF a
      <3> QED BY <3>1
    <2>2. q = AddWithCarry(High(w), High(a), 0).limbs
      BY DEF BarrettEstimate, mu
    <2> HIDE DEF a
    <2>3. High(a) \in Limbs(LIMBS)
      BY <1>1, <2>1, LowAndHigh
    <2> QED BY <1>4, <2>2, <2>3, AddWithCarryAdds
  <1> HIDE DEF q
  <1>6. v \in Limbs(LIMBS + LIMBS)
    <2>1. v \in Limbs(2 * LIMBS) /\ 2 * LIMBS = LIMBS + LIMBS
      BY <1>1, <1>2, <1>5, MulWideMultiplies
    <2> HIDE DEF v
    <2> QED BY <2>1
  <1> HIDE DEF v
  <1>7. d.limbs \in Limbs(LIMBS + LIMBS)
    <2>1. LIMBS + LIMBS \in Nat
      BY <1>1
    <2> QED BY <1>3, <1>6, <2>1, SubWithBorrowSubtracts
  <1>8. x \in Limbs(LIMBS + 1)
    <2>1. x = SubSeq(d.limbs, 1, LIMBS + 1)
      BY DEF Barrett5, d, v, q
    <2> DEFINE s == d.limbs  n2 == LIMBS + LIMBS  n1 == LIMBS + 1
    <2>2. s \in [1 .. n2 -> 0 .. LimbBase - 1] /\ n2 \in Nat
      BY <1>1, <1>7 DEF Limbs
    <2> HIDE DEF s
    <2>3. s \in Seq(0 .. LimbBase - 1) /\ Len(s) = n2
      BY <2>2, ByElements
    <2>4. n1 \in 1 .. n2 /\ n1 \in Nat
      BY <1>1
    <2> HIDE DEF n1, n2
    <2>5. SubSeq(s, 1, n1) = [k \in 1 .. n1 |-> s[k]]
      BY <2>2, <2>3, <2>4
    <2>6. SubSeq(s, 1, n1) \in [1 .. n1 -> 0 .. LimbBase - 1]
      <3>1. \A k \in 1 .. n1 : k \in 1 .. n2
        BY <2>2, <2>4
      <3>2. \A k \in 1 .. n1 : s[k] \in 0 .. LimbBase - 1
        BY <2>2, <3>1
      <3> QED BY <2>5, <3>2
    <2> QED BY <2>1, <2>6 DEF s, n1, Limbs
  <1> HIDE DEF d, x
  <1>9. y \in Limbs(LIMBS + 1)
    BY <1>1, <1>8, ConditionalSubSettles
  <1> HIDE DEF y
  <1>10. u \in Limbs(LIMBS + 1)
    BY <1>1, <1>9, ConditionalSubSettles
  <1>11. MulBarrett(l, r, n) = Low(u)
    BY DEF MulBarrett, ReduceBarrett, u, y, x, w
  <1> HIDE DEF u
  <1> QED BY <1>10, <1>11, TopLimb

\* The sum and the difference of reduced numbers, reduced.
LEMMA AddModExact ==
    ASSUME NEW l \in Limbs(LIMBS), NEW r \in Limbs(LIMBS), NEW n \in 1 .. R - 1,
           Value(l) < n, Value(r) < n
    PROVE  Value(AddMod(l, r, n)) = SubIfGe(Value(l) + Value(r), n)
  <1> DEFINE s == AddWithCarry(l, r, 0)  x == Append(s.limbs, s.carry)  y == ConditionalSub(x, n)
             a == Value(l)  b == Value(r)
  <1>1. LIMBS \in Nat /\ R \in Nat \ {0} /\ n \in 0 .. R - 1 /\ {0, 1} \subseteq 0 .. LimbBase - 1
    BY BaseIsPositive, RIsPositive
  <1>2. a \in Nat /\ b \in Nat
    BY <1>1, ValueBounded
  <1>3. /\ s.limbs \in Limbs(LIMBS) /\ s.carry \in {0, 1} /\ s.carry \in 0 .. LimbBase - 1
        /\ Value(s.limbs) + s.carry * R = a + b
    BY <1>1, AddWithCarryAdds
  <1> HIDE DEF s, a, b
  <1>4. x \in Limbs(LIMBS + 1) /\ Value(x) = a + b
    <2>1. x \in Limbs(LIMBS + 1) /\ Value(x) = Value(s.limbs) + R * s.carry
      BY <1>3, PutOnTop
    <2>2. R * s.carry = s.carry * R
      BY <1>1, <1>3
    <2> QED BY <1>3, <2>1, <2>2
  <1> HIDE DEF x
  <1>5. y \in Limbs(LIMBS + 1) /\ Value(y) = SubIfGe(a + b, n)
    BY <1>1, <1>4, ConditionalSubSettles
  <1>6. SubIfGe(a + b, n) < R
    <2>1. a < n /\ b < n
      BY DEF a, b
    <2> QED BY <1>1, <1>2, <2>1 DEF SubIfGe
  <1>7. AddMod(l, r, n) = Low(y)
    BY DEF AddMod, ReduceSum, y, x, s
  <1> HIDE DEF y
  <1> QED BY <1>5, <1>6, <1>7, LowOfSmall DEF a, b

LEMMA SubModExact ==
    ASSUME NEW l \in Limbs(LIMBS), NEW r \in Limbs(LIMBS), NEW n \in 1 .. R - 1,
           Value(l) < n, Value(r) < n
    PROVE  Value(SubMod(l, r, n)) = IF Value(l) < Value(r) THEN (Value(l) - Value(r)) + n
                                    ELSE Value(l) - Value(r)
  <1> DEFINE d == SubWithBorrow(l, r, 0)  s == AddWithCarry(d.limbs, Const(n), 0)
             a == Value(l)  b == Value(r)  e == Value(d.limbs)  f == Value(s.limbs)
  <1>1. LIMBS \in Nat /\ R \in Nat \ {0} /\ n \in 0 .. R - 1 /\ n \in Nat
    BY BaseIsPositive, RIsPositive
  <1>2. Const(n) \in Limbs(LIMBS) /\ Value(Const(n)) = n
    BY <1>1, ValueOfConst
  <1>3. a \in Nat /\ b \in Nat /\ a < n /\ b < n
    BY <1>1, ValueBounded
  <1>4. /\ d.limbs \in Limbs(LIMBS) /\ d.borrow \in {0, 1} /\ e = (a - b) + d.borrow * R
        /\ d.borrow = IF a < b THEN 1 ELSE 0
    BY <1>1, SubWithBorrowSubtracts DEF R
  <1>5. SubMod(l, r, n) = SelectLimbs(d.borrow, s.limbs, d.limbs)
    BY DEF SubMod, AddBack
  <1>6. s.limbs \in Limbs(LIMBS) /\ s.carry \in {0, 1} /\ f + s.carry * R = e + n
    <2> HIDE DEF d
    <2> QED BY <1>2, <1>4, AddWithCarryAdds
  <1>7. f \in 0 .. R - 1
    <2> HIDE DEF s
    <2> QED BY <1>1, <1>6, ValueBounded DEF R
  <1>8. SubMod(l, r, n) = IF d.borrow = 1 THEN s.limbs ELSE d.limbs
    <2> HIDE DEF d, s
    <2> QED BY <1>4, <1>5, <1>6, SelectsLimbs
  <1>9. CASE a < b
    <2>1. d.borrow = 1 /\ 1 * R = R
      BY <1>1, <1>4, <1>9
    <2>2. Value(SubMod(l, r, n)) = f /\ e = (a - b) + R /\ f + s.carry * R = e + n
      BY <1>4, <1>6, <1>8, <2>1
    <2> DEFINE k == s.carry
    <2>3. k \in {0, 1} /\ 0 * R = 0
      BY <1>1, <1>6
    <2> HIDE DEF a, b, e, f, k, d, s
    <2>4. f + k * R = ((a - b) + R) + n
      BY <2>2 DEF k
    <2>5. CASE k = 0
      BY <1>1, <1>3, <1>7, <1>9, <2>3, <2>4, <2>5
    <2>6. CASE k = 1
      <3>1. f = (a - b) + n
        BY <1>1, <1>3, <1>7, <2>1, <2>4, <2>6
      <3> QED BY <1>9, <2>2, <3>1 DEF a, b
    <2> QED BY <2>3, <2>5, <2>6
  <1>10. CASE ~(a < b)
    <2>1. d.borrow = 0 /\ 0 * R = 0
      BY <1>1, <1>4, <1>10
    <2>2. Value(SubMod(l, r, n)) = e /\ e = (a - b) + 0
      BY <1>4, <1>8, <2>1
    <2> HIDE DEF e
    <2>3. e = a - b
      BY <1>3, <2>2
    <2> QED BY <1>10, <2>2, <2>3
  <1> QED BY <1>9, <1>10

\* Limb vectors are equal limb by limb.
LEMMA EqualLimbs ==
    ASSUME NEW n, NEW l \in Limbs(n), NEW r \in Limbs(n)
    PROVE  l = r <=> \A j \in 1 .. n : l[j] = r[j]
  <1>1. ASSUME \A j \in 1 .. n : l[j] = r[j] PROVE l = r
    <2>1. l = [j \in 1 .. n |-> l[j]] /\ r = [j \in 1 .. n |-> r[j]]
      BY DEF Limbs
    <2>2. [j \in 1 .. n |-> l[j]] = [j \in 1 .. n |-> r[j]]
      BY <1>1
    <2> QED BY <2>1, <2>2
  <1> QED BY <1>1

\* A square of a difference of limbs, as a felt.
LEMMA SquaredDifference ==
    ASSUME NEW a \in 0 .. LimbBase - 1, NEW b \in 0 .. LimbBase - 1, NEW s \in Nat,
           s + LimbBase * LimbBase <= FieldP
    PROVE  LET d == Felt(a - b)
           IN  Felt(s + d * d) = s + (a - b) * (a - b)
  <1> DEFINE e == a - b  d == Felt(e)
  <1>1. LimbBase \in Nat \ {0} /\ FieldP \in Nat \ {0} /\ e \in Int /\ s \in Int
    BY BaseIsPositive, RoomInFelt
  <1>2. e * e \in Nat /\ e * e < LimbBase * LimbBase
    <2> DEFINE u == IF a >= b THEN a - b ELSE b - a
    <2>1. u \in 0 .. LimbBase - 1 /\ e * e = u * u
      BY <1>1
    <2> HIDE DEF u, e
    <2>2. u * u \in Nat /\ u * u <= (LimbBase - 1) * (LimbBase - 1)
      BY <1>1, <2>1, MulLe
    <2>3. (LimbBase - 1) * (LimbBase - 1) < LimbBase * LimbBase
      BY <1>1
    <2>4. (LimbBase - 1) * (LimbBase - 1) \in Int /\ LimbBase * LimbBase \in Int
      BY <1>1
    <2> QED BY <2>1, <2>2, <2>3, <2>4
  <1> HIDE DEF e
  <1>3. Agree(FieldP, d, e) /\ Agree(FieldP, s, s)
    BY <1>1, AgreeRemainder, AgreeEquivalence DEF Felt
  <1> HIDE DEF d
  <1>4. Agree(FieldP, s + d * d, s + e * e)
    <2>1. Agree(FieldP, d * d, e * e)
      BY <1>1, <1>3, AgreeOperations
    <2> QED BY <1>1, <1>3, <2>1, AgreeOperations
  <1>5. s + e * e \in 0 .. FieldP - 1
    <2>1. LimbBase * LimbBase \in Int
      BY <1>1
    <2> QED BY <1>1, <1>2, <2>1
  <1>6. Felt(s + d * d) = Felt(s + e * e) /\ Felt(s + e * e) = s + e * e
    BY <1>1, <1>4, <1>5, AgreeRemainder, SmallFelt DEF Felt
  <1> QED BY <1>6 DEF d, e

\* Equality of limb vectors is decided.
LEMMA EqBoolDecides ==
    ASSUME NEW l \in Limbs(LIMBS), NEW r \in Limbs(LIMBS)
    PROVE  EqBool(l, r) = IF l = r THEN 1 ELSE 0
  <1> DEFINE N == LIMBS
             grow(a, k) == LET diff == Felt(l[k] - r[k]) IN Felt(a + diff * diff)
             step == [k \in 1 .. N |-> [a \in Int |-> grow(a, k)]]
             Sums(s) == s = [k \in 0 .. N |-> IF k = 0 THEN 0 ELSE grow(s[k - 1], k)]
             sum_sq == CHOOSE s : Sums(s)
  <1>1. /\ N \in Nat \ {0} /\ FieldP \in Nat \ {0} /\ LimbBase \in Nat \ {0}
        /\ \A m \in 0 .. N : m * (LimbBase * LimbBase) <= FieldP
    BY BaseIsPositive, RoomInFelt
  <1>2. \A k \in 1 .. N : l[k] \in 0 .. LimbBase - 1 /\ r[k] \in 0 .. LimbBase - 1
    BY DEF Limbs
  <1>3. \A k \in 1 .. N, a \in Int : grow(a, k) \in Int
    <2>1. ASSUME NEW x \in Int PROVE Felt(x) \in Int
      BY <1>1, DivMod DEF Felt
    <2>2. ASSUME NEW k \in 1 .. N, NEW a \in Int PROVE grow(a, k) \in Int
      <3> DEFINE d == Felt(l[k] - r[k])
      <3>1. l[k] - r[k] \in Int
        BY <1>1, <1>2
      <3>2. d \in Int
        BY <2>1, <3>1
      <3> HIDE DEF d
      <3>3. a + d * d \in Int
        BY <3>2
      <3> QED BY <2>1, <3>3 DEF d
    <2> QED BY <2>2
  <1> HIDE DEF grow
  <1>4. step \in [1 .. N -> [Int -> Int]]
    BY <1>3
  <1>5. PICK f \in [0 .. N -> Int] : Follows(f, N, 0, step)
    <2>1. 0 \in Int /\ N \in Nat
      BY <1>1
    <2> HIDE DEF step, N
    <2> QED BY <1>4, <2>1, UpToRecursion
  <1>6. f[0] = 0 /\ \A k \in 1 .. N : f[k] = grow(f[k - 1], k)
    <2>1. \A k \in 1 .. N : k - 1 \in 0 .. N
      BY <1>1
    <2>2. \A k \in 1 .. N, a \in Int : step[k][a] = grow(a, k)
      OBVIOUS
    <2> HIDE DEF step, N
    <2>3. \A k \in 1 .. N : f[k] = step[k][f[k - 1]] /\ f[k - 1] \in Int
      BY <1>5, <2>1 DEF Follows
    <2> QED BY <1>5, <2>2, <2>3 DEF Follows
  <1> HIDE DEF step
  <1>7. Sums(f)
    <2>1. \A k \in 0 .. N : f[k] = IF k = 0 THEN 0 ELSE grow(f[k - 1], k)
      BY <1>1, <1>6
    <2> QED BY <2>1
  <1>8. Sums(sum_sq)
    <2> HIDE DEF Sums
    <2> QED BY <1>7
  <1>9. EqBool(l, r) = IF sum_sq[N] = 0 THEN 1 ELSE 0
    BY DEF EqBool, grow
  <1> HIDE DEF sum_sq
  <1>10. sum_sq[0] = 0 /\ \A k \in 1 .. N : sum_sq[k] = grow(sum_sq[k - 1], k)
    BY <1>1, <1>8
  <1> HIDE DEF Sums
  <1> DEFINE LL == LimbBase * LimbBase
             S == {k \in 0 .. N : /\ sum_sq[k] \in Nat /\ sum_sq[k] <= k * LL
                                  /\ sum_sq[k] = 0 <=> \A j \in 1 .. k : l[j] = r[j]}
  <1>11. 0 \in S
    BY <1>1, <1>10
  <1>12. ASSUME NEW k \in 0 .. N - 1, k \in S PROVE k + 1 \in S
    <2> DEFINE s == sum_sq[k]  a == l[k + 1]  b == r[k + 1]  e == (a - b) * (a - b)
    <2>1. k + 1 \in 1 .. N /\ (k + 1) - 1 = k /\ k + 1 \in 0 .. N /\ k \in Nat /\ LL \in Nat
      BY <1>1
    <2>2. a \in 0 .. LimbBase - 1 /\ b \in 0 .. LimbBase - 1
      BY <1>2, <2>1
    <2>3. s \in Nat /\ s <= k * LL /\ (s = 0 <=> \A j \in 1 .. k : l[j] = r[j])
      BY <1>12
    <2>4. (k + 1) * LL <= FieldP /\ (k + 1) * LL = k * LL + LL /\ k * LL \in Int
      <3>1. (k + 1) * LL <= FieldP
        BY <1>1, <2>1
      <3> HIDE DEF LL
      <3> QED BY <2>1, <3>1
    <2>5. s + LL <= FieldP
      <3> HIDE DEF s, LL
      <3> QED BY <1>1, <2>1, <2>3, <2>4
    <2>6. sum_sq[k + 1] = s + e
      <3>1. sum_sq[k + 1] = grow(s, k + 1)
        BY <1>10, <2>1
      <3>2. grow(s, k + 1) = s + e
        <4> HIDE DEF s
        <4> QED BY <2>2, <2>3, <2>5, SquaredDifference DEF grow
      <3> QED BY <3>1, <3>2
    <2>7. e \in Nat /\ e <= LL /\ (e = 0 <=> a = b)
      <3> HIDE DEF a, b
      <3> DEFINE u == IF a >= b THEN a - b ELSE b - a
      <3>1. u \in Nat /\ u <= LimbBase /\ e = u * u /\ (u = 0 <=> a = b)
        BY <1>1, <2>2
      <3> HIDE DEF u, e
      <3>2. u * u \in Nat /\ u * u <= LL
        BY <1>1, <3>1, MulLe
      <3>3. u * u = 0 <=> u = 0
        <4>1. CASE u = 0
          BY <4>1
        <4>2. CASE u # 0
          <5>1. u \in Nat \ {0}
            BY <3>1, <4>2
          <5>2. u * u # 0
            BY <5>1
          <5> QED BY <4>2, <5>2
        <4> QED BY <4>1, <4>2
      <3> QED BY <3>1, <3>2, <3>3
    <2>8. sum_sq[k + 1] \in Nat /\ sum_sq[k + 1] <= (k + 1) * LL
      <3> HIDE DEF s, e, LL
      <3> QED BY <2>1, <2>3, <2>4, <2>6, <2>7
    <2>9. sum_sq[k + 1] = 0 <=> s = 0 /\ e = 0
      <3> HIDE DEF s, e
      <3> QED BY <2>3, <2>6, <2>7
    <2>10. (\A j \in 1 .. k + 1 : l[j] = r[j]) <=> ((\A j \in 1 .. k : l[j] = r[j]) /\ a = b)
      <3>1. 1 .. k + 1 = (1 .. k) \cup {k + 1}
        BY <2>1
      <3> QED BY <3>1
    <2> HIDE DEF s, e, LL
    <2> QED BY <2>1, <2>3, <2>7, <2>8, <2>9, <2>10
  <1>13. \A k \in 0 .. N : k \in S
    <2>1. N \in Nat
      BY <1>1
    <2> HIDE DEF S, N
    <2> QED BY <1>11, <1>12, <2>1, UpToInduction
  <1>14. N \in 0 .. N
    BY <1>1
  <1>15. sum_sq[N] = 0 <=> \A j \in 1 .. N : l[j] = r[j]
    BY <1>13, <1>14
  <1>16. (\A j \in 1 .. N : l[j] = r[j]) <=> l = r
    BY EqualLimbs
  <1> QED BY <1>9, <1>15, <1>16

\* A quotient, by what it leaves.
LEMMA QuotientOf ==
    ASSUME NEW v \in Int, NEW d \in Nat \ {0}, NEW q \in Int, NEW r \in 0 .. d - 1,
           v = r + d * q
    PROVE  v \div d = q
  <1> DEFINE p == v \div d  s == v % d
  <1>1. p \in Int /\ s \in 0 .. d - 1 /\ v = d * p + s
    BY DivMod
  <1> HIDE DEF p, s
  <1>2. d * p + s = d * q + r
    BY <1>1
  <1>3. s = r
    BY <1>1, <1>2, OneRemainder
  <1>4. d * p = d * q
    BY <1>1, <1>2, <1>3
  <1>5. d * (p - q) = 0 /\ p - q \in Int
    BY <1>1, <1>4
  <1>6. p - q = 0
    <2> DEFINE e == p - q
    <2>1. d * e = 0 /\ e \in Int
      BY <1>5
    <2> HIDE DEF e
    <2>2. e = 0
      BY <2>1
    <2> QED BY <2>2 DEF e
  <1> QED BY <1>1, <1>6 DEF p

\* A limb of a number: the quotient by its weight ends with it.
LEMMA LimbOfValue ==
    ASSUME NEW n \in Nat, NEW x \in Limbs(n), NEW k \in 1 .. n
    PROVE  \E h \in Nat : Value(x) \div Power(LimbBase, k - 1) = x[k] + LimbBase * h
  <1> DEFINE m == k - 1  w == Power(LimbBase, m)  d == n - m
             y == [j \in 1 .. d |-> x[m + j]]  e == d - 1  u == [j \in 1 .. e |-> y[1 + j]]
             low == Value(First(x, m))  h == Value(u)
  <1>1. m \in Nat /\ d \in Nat \ {0} /\ e \in Nat /\ m + d = n /\ 1 + e = d /\ m + 1 = k /\ LimbBase \in Nat \ {0}
    BY BaseIsPositive
  <1>2. x \in [1 .. m + d -> 0 .. LimbBase - 1] /\ x \in [1 .. m + d -> Int]
    BY <1>1 DEF Limbs
  <1>3. Value(x) = low + w * Value(y)
    <2> HIDE DEF m, d
    <2> QED BY <1>1, <1>2, ValueSplits
  <1>4. First(x, m) \in Limbs(m)
    <2>1. \A j \in 1 .. m : j \in 1 .. m + d
      BY <1>1
    <2> QED BY <1>2, <2>1 DEF First, Limbs
  <1>5. y \in [1 .. 1 + e -> 0 .. LimbBase - 1] /\ y \in [1 .. 1 + e -> Int] /\ y[1] = x[k]
    <2>1. \A j \in 1 .. d : m + j \in 1 .. m + d
      BY <1>1
    <2>2. 1 \in 1 .. d
      BY <1>1
    <2>3. \A j \in 1 .. d : y[j] \in 0 .. LimbBase - 1
      BY <1>2, <2>1
    <2>4. y[1] = x[m + 1]
      BY <2>2
    <2>5. y \in [1 .. d -> 0 .. LimbBase - 1]
      BY <2>3
    <2> HIDE DEF y, d, e, m
    <2> QED BY <1>1, <2>4, <2>5
  <1>6. u \in Limbs(e)
    <2>1. \A j \in 1 .. e : 1 + j \in 1 .. 1 + e
      BY <1>1
    <2> HIDE DEF y, e
    <2> QED BY <1>5, <2>1 DEF Limbs
  <1>7. Value(y) = x[k] + LimbBase * h
    <2>1. Value(y) = Value(First(y, 1)) + Power(LimbBase, 1) * h
      <3>1. 1 \in Nat
        OBVIOUS
      <3> HIDE DEF y, e
      <3> QED BY <1>1, <1>5, <3>1, ValueSplits
    <2>2. Power(LimbBase, 1) = LimbBase
      <3>1. Power(LimbBase, 0 + 1) = LimbBase * Power(LimbBase, 0) /\ Power(LimbBase, 0) = 1
        BY <1>1, PowerStep
      <3>2. 0 + 1 = 1 /\ LimbBase * 1 = LimbBase
        BY <1>1
      <3> QED BY <3>1, <3>2
    <2>3. Value(First(y, 1)) = y[1]
      <3>1. 1 + e \in Nat /\ 0 \in 0 .. (1 + e) - 1 /\ 0 + 1 = 1
        BY <1>1
      <3> HIDE DEF y, e
      <3>2. Value(First(y, 0)) = 0 /\ Value(First(y, 0 + 1)) = Value(First(y, 0)) + y[0 + 1] * Power(LimbBase, 0)
        BY <1>5, <3>1, ValueUnfolds
      <3>3. Power(LimbBase, 0) = 1 /\ y[1] \in Int
        <4>1. 0 \in Nat /\ 1 \in 1 .. 1 + e
          BY <1>1
        <4> QED BY <1>1, <1>5, <4>1, PowerStep
      <3> QED BY <3>1, <3>2, <3>3
    <2> QED BY <1>5, <2>1, <2>2, <2>3
  <1>8. low \in 0 .. w - 1 /\ w \in Nat \ {0}
    <2> HIDE DEF m
    <2> QED BY <1>1, <1>4, ValueBounded, PowerIsPositive
  <1>9. h \in Nat
    <2> HIDE DEF u
    <2> QED BY <1>1, <1>6, ValueBounded
  <1>10. Value(x) \div w = x[k] + LimbBase * h
    <2> DEFINE q == x[k] + LimbBase * h  v == Value(x)
    <2>1. q \in Nat
      <3>1. x[k] \in Nat
        BY DEF Limbs
      <3> HIDE DEF h
      <3> QED BY <1>1, <1>9, <3>1
    <2>2. v = low + w * q
      BY <1>3, <1>7
    <2> HIDE DEF q, v, low, w
    <2> QED BY <1>8, <2>1, <2>2, QuotientOf DEF q, v
  <1> QED BY <1>9, <1>10

\* The value determines the limbs.
LEMMA ValueDetermines ==
    ASSUME NEW n \in Nat, NEW x \in Limbs(n), NEW y \in Limbs(n)
    PROVE  x = y <=> Value(x) = Value(y)
  <1>1. ASSUME Value(x) = Value(y), NEW k \in 1 .. n PROVE x[k] = y[k]
    <2>1. PICK h \in Nat : Value(x) \div Power(LimbBase, k - 1) = x[k] + LimbBase * h
      BY LimbOfValue
    <2>2. PICK i \in Nat : Value(y) \div Power(LimbBase, k - 1) = y[k] + LimbBase * i
      BY LimbOfValue
    <2>3. x[k] \in 0 .. LimbBase - 1 /\ y[k] \in 0 .. LimbBase - 1 /\ LimbBase \in Nat \ {0}
      BY BaseIsPositive DEF Limbs
    <2>4. LimbBase * h + x[k] = LimbBase * i + y[k]
      BY <1>1, <2>1, <2>2, <2>3
    <2> DEFINE a == x[k]  b == y[k]
    <2>5. a \in 0 .. LimbBase - 1 /\ b \in 0 .. LimbBase - 1 /\ h \in Int /\ i \in Int
      BY <2>3
    <2>6. LimbBase * h + a = LimbBase * i + b
      BY <2>4
    <2> HIDE DEF a, b
    <2>7. a = b
      BY <2>3, <2>5, <2>6, OneRemainder
    <2> QED BY <2>7 DEF a, b
  <1>2. (\A k \in 1 .. n : x[k] = y[k]) => x = y
    BY EqualLimbs
  <1> QED BY <1>1, <1>2

\* Every operation of a curve ends with limb vectors.
LEMMA CurveClosed ==
    ASSUME NEW curve \in Curves, NEW l \in Limbs(LIMBS), NEW r \in Limbs(LIMBS)
    PROVE  /\ MulP(curve, l, r) \in Limbs(LIMBS) /\ MulN(curve, l, r) \in Limbs(LIMBS)
           /\ AddP(curve, l, r) \in Limbs(LIMBS) /\ SubP(curve, l, r) \in Limbs(LIMBS)
  <1>1. /\ BarrettModulus(curve.n) /\ curve.p \in 0 .. R - 1
        /\ IF curve.a = 0 THEN SolinasModulus(curve.p) ELSE BarrettModulus(curve.p)
    BY CurvesAssumption, CurveModuli, RIsPositive
  <1>2. MulP(curve, l, r) \in Limbs(LIMBS)
    <2>1. CASE curve.a = 0
      <3>1. SolinasModulus(curve.p)
        BY <1>1, <2>1
      <3> QED BY <2>1, <3>1, MulSolinasExact DEF MulP
    <2>2. CASE curve.a # 0
      <3>1. BarrettModulus(curve.p)
        BY <1>1, <2>2
      <3> QED BY <2>2, <3>1, ClosedBarrett DEF MulP
    <2> QED BY <2>1, <2>2
  <1>3. MulN(curve, l, r) \in Limbs(LIMBS)
    BY <1>1, ClosedBarrett DEF MulN
  <1> QED BY <1>1, <1>2, <1>3, ClosedLimbs DEF AddP, SubP

\* The product modulo p, when one operand is reduced.
LEMMA MulPExact ==
    ASSUME NEW curve \in Curves, NEW l \in Limbs(LIMBS), NEW r \in Limbs(LIMBS),
           Value(l) < curve.p \/ Value(r) < curve.p
    PROVE  Value(MulP(curve, l, r)) = (Value(l) * Value(r)) % curve.p
  <1>1. IF curve.a = 0 THEN SolinasModulus(curve.p) ELSE BarrettModulus(curve.p)
    BY CurvesAssumption
  <1>2. CASE curve.a = 0
    <2>1. SolinasModulus(curve.p) /\ MulP(curve, l, r) = MulSolinas(l, r, curve.p)
      BY <1>1, <1>2 DEF MulP
    <2> QED BY <2>1, MulSolinasExact
  <1>3. CASE curve.a # 0
    <2>1. BarrettModulus(curve.p) /\ MulP(curve, l, r) = MulBarrett(l, r, curve.p)
      BY <1>1, <1>3 DEF MulP
    <2> QED BY <2>1, MulBarrettExact
  <1> QED BY <1>2, <1>3

\* Reduced limbs that stand for an integer modulo m.
Denotes(m, x, v) ==
    x \in Limbs(LIMBS) /\ Value(x) \in 0 .. m - 1 /\ Agree(m, Value(x), v)

\* Limbs stand for their value, and for what it is congruent to.
LEMMA DenotesValue ==
    ASSUME NEW m \in Nat \ {0}
    PROVE  /\ \A x \in Limbs(LIMBS) : Value(x) \in 0 .. R - 1 /\ Value(x) \in Int
           /\ \A x \in Limbs(LIMBS) : Value(x) < m => Denotes(m, x, Value(x))
           /\ \A x, v, w : Denotes(m, x, v) /\ Agree(m, v, w) => Denotes(m, x, w)
           /\ \A x, v : Denotes(m, x, v) => x \in Limbs(LIMBS) /\ v \in Int /\ Value(x) = v % m
           /\ \A v \in 0 .. m - 1 : v < R => Denotes(m, Const(v), v)
  <1>1. ASSUME NEW x \in Limbs(LIMBS) PROVE Value(x) \in 0 .. R - 1 /\ Value(x) \in Int
    <2>1. LIMBS \in Nat /\ R \in Nat
      BY BaseIsPositive, RIsPositive
    <2> QED BY <2>1, ValueBounded DEF R
  <1>2. ASSUME NEW x \in Limbs(LIMBS), Value(x) < m PROVE Denotes(m, x, Value(x))
    <2>1. Value(x) \in 0 .. R - 1 /\ Value(x) \in Int /\ R \in Nat
      BY <1>1, RIsPositive
    <2>2. Value(x) \in 0 .. m - 1
      BY <1>2, <2>1
    <2> QED BY <2>1, <2>2, AgreeEquivalence DEF Denotes
  <1>3. ASSUME NEW x, NEW v, NEW w, Denotes(m, x, v), Agree(m, v, w) PROVE Denotes(m, x, w)
    BY <1>3, AgreeEquivalence DEF Denotes
  <1>4. ASSUME NEW x, NEW v, Denotes(m, x, v)
        PROVE  x \in Limbs(LIMBS) /\ v \in Int /\ Value(x) = v % m
    <2>1. x \in Limbs(LIMBS) /\ Value(x) \in 0 .. m - 1 /\ Agree(m, Value(x), v)
      BY <1>4 DEF Denotes
    <2>2. v \in Int
      BY <2>1 DEF Agree
    <2>3. Value(x) % m = v % m /\ Value(x) % m = Value(x)
      BY <2>1, AgreeRemainder
    <2> QED BY <2>1, <2>2, <2>3
  <1>5. ASSUME NEW v \in 0 .. m - 1, v < R PROVE Denotes(m, Const(v), v)
    <2>1. v \in 0 .. R - 1 /\ v \in Int
      BY <1>5, RIsPositive
    <2> QED BY <2>1, ValueOfConst, AgreeEquivalence DEF Denotes
  <1> QED BY <1>1, <1>2, <1>3, <1>4, <1>5

\* A product with a reduced operand.
LEMMA DenotesProduct ==
    ASSUME NEW curve \in Curves, NEW x \in Limbs(LIMBS), NEW y, NEW w, Denotes(curve.p, y, w)
    PROVE  /\ Denotes(curve.p, MulP(curve, x, y), Value(x) * w)
           /\ Denotes(curve.p, MulP(curve, y, x), w * Value(x))
  <1> DEFINE p == curve.p  a == Value(x)  b == Value(y)
  <1>1. p \in Nat \ {0} /\ a \in Int /\ b \in 0 .. p - 1 /\ y \in Limbs(LIMBS) /\ Agree(p, b, w)
    BY CurveModuli, DenotesValue DEF Denotes
  <1>2. Value(MulP(curve, x, y)) = (a * b) % p /\ Value(MulP(curve, y, x)) = (b * a) % p
    <2>1. Value(y) < curve.p
      BY <1>1
    <2> QED BY <1>1, <2>1, MulPExact
  <1>3. MulP(curve, x, y) \in Limbs(LIMBS) /\ MulP(curve, y, x) \in Limbs(LIMBS)
    BY <1>1, CurveClosed
  <1> HIDE DEF p, a, b
  <1>4. a * b \in Int /\ b * a \in Int /\ Agree(p, a, a)
    BY <1>1, AgreeEquivalence
  <1>5. Agree(p, a * b, a * w) /\ Agree(p, b * a, w * a)
    BY <1>1, <1>4, AgreeOperations
  <1>6. /\ (a * b) % p \in 0 .. p - 1 /\ Agree(p, (a * b) % p, a * b)
        /\ (b * a) % p \in 0 .. p - 1 /\ Agree(p, (b * a) % p, b * a)
    BY <1>1, <1>4, AgreeRemainder
  <1>7. Agree(p, (a * b) % p, a * w) /\ Agree(p, (b * a) % p, w * a)
    BY <1>1, <1>5, <1>6, AgreeEquivalence
  <1> QED BY <1>2, <1>3, <1>6, <1>7 DEF Denotes, p, a

\* The operations modulo p on what stands for integers.
LEMMA DenotesOperations ==
    ASSUME NEW curve \in Curves, NEW x, NEW v, NEW y, NEW w,
           Denotes(curve.p, x, v), Denotes(curve.p, y, w)
    PROVE  /\ Denotes(curve.p, MulP(curve, x, y), v * w)
           /\ Denotes(curve.p, AddP(curve, x, y), v + w)
           /\ Denotes(curve.p, SubP(curve, x, y), v - w)
           /\ Denotes(curve.p, DblP(curve, x), 2 * v)
           /\ Denotes(curve.p, SquareP(curve, x), v * v)
  <1> DEFINE p == curve.p
  <1>0. p \in Nat \ {0} /\ p \in 1 .. R - 1 /\ R \in Nat
    BY CurveModuli, RIsPositive
  <1>1. ASSUME NEW l, NEW r, NEW a, NEW b, Denotes(p, l, a), Denotes(p, r, b)
        PROVE  Denotes(p, MulP(curve, l, r), a * b)
    <2>1. l \in Limbs(LIMBS) /\ Agree(p, Value(l), a)
      BY <1>1 DEF Denotes
    <2>2. Denotes(p, MulP(curve, l, r), Value(l) * b)
      BY <1>1, <2>1, DenotesProduct
    <2>3. b \in Int /\ Agree(p, b, b)
      BY <1>0, <1>1, AgreeEquivalence, DenotesValue
    <2>4. Agree(p, Value(l) * b, a * b)
      BY <1>0, <2>1, <2>3, AgreeOperations
    <2> QED BY <1>0, <2>2, <2>4, DenotesValue
  <1>2. ASSUME NEW l, NEW r, NEW a, NEW b, Denotes(p, l, a), Denotes(p, r, b)
        PROVE  Denotes(p, AddP(curve, l, r), a + b)
    <2> DEFINE i == Value(l)  j == Value(r)  u == Value(AddP(curve, l, r))
    <2>1. /\ l \in Limbs(LIMBS) /\ r \in Limbs(LIMBS) /\ i \in 0 .. p - 1 /\ j \in 0 .. p - 1
          /\ Agree(p, i, a) /\ Agree(p, j, b)
      BY <1>1, <1>2 DEF Denotes
    <2>2. u = SubIfGe(i + j, p)
      <3>1. i < p /\ j < p
        BY <1>0, <2>1
      <3> QED BY <1>0, <2>1, <3>1, AddModExact DEF AddP
    <2>3. AddP(curve, l, r) \in Limbs(LIMBS)
      BY <2>1, CurveClosed
    <2> HIDE DEF i, j, u, p
    <2>4. u \in 0 .. p - 1
      BY <1>0, <2>1, <2>2 DEF SubIfGe
    <2>5. u = (i + j) + p * 0 \/ u = (i + j) + p * (-1)
      BY <1>0, <2>1, <2>2 DEF SubIfGe
    <2>6. Agree(p, u, i + j)
      <3>1. i + j \in Int /\ u \in Int /\ 0 \in Int /\ -1 \in Int
        BY <1>0, <2>1, <2>4
      <3> QED BY <2>5, <3>1 DEF Agree
    <2>7. Agree(p, i + j, a + b)
      BY <1>0, <2>1, AgreeOperations
    <2>8. Agree(p, u, a + b)
      BY <1>0, <2>6, <2>7, AgreeEquivalence
    <2> QED BY <2>3, <2>4, <2>8 DEF Denotes, u
  <1>3. ASSUME NEW l, NEW r, NEW a, NEW b, Denotes(p, l, a), Denotes(p, r, b)
        PROVE  Denotes(p, SubP(curve, l, r), a - b)
    <2> DEFINE i == Value(l)  j == Value(r)  u == Value(SubP(curve, l, r))
    <2>1. /\ l \in Limbs(LIMBS) /\ r \in Limbs(LIMBS) /\ i \in 0 .. p - 1 /\ j \in 0 .. p - 1
          /\ Agree(p, i, a) /\ Agree(p, j, b)
      BY <1>1, <1>3 DEF Denotes
    <2>2. u = IF i < j THEN (i - j) + p ELSE i - j
      <3>1. i < p /\ j < p
        BY <1>0, <2>1
      <3> QED BY <1>0, <2>1, <3>1, SubModExact DEF SubP
    <2>3. SubP(curve, l, r) \in Limbs(LIMBS)
      BY <2>1, CurveClosed
    <2> HIDE DEF i, j, u, p
    <2>4. u \in 0 .. p - 1
      BY <1>0, <2>1, <2>2
    <2>5. u = (i - j) + p * 0 \/ u = (i - j) + p * 1
      BY <1>0, <2>1, <2>2
    <2>6. Agree(p, u, i - j)
      <3>1. i - j \in Int /\ u \in Int /\ 0 \in Int /\ 1 \in Int
        BY <1>0, <2>1, <2>4
      <3> QED BY <2>5, <3>1 DEF Agree
    <2>7. Agree(p, i - j, a - b)
      BY <1>0, <2>1, AgreeOperations
    <2>8. Agree(p, u, a - b)
      BY <1>0, <2>6, <2>7, AgreeEquivalence
    <2> QED BY <2>3, <2>4, <2>8 DEF Denotes, u
  <1>4. DblP(curve, x) = AddP(curve, x, x) /\ SquareP(curve, x) = MulP(curve, x, x)
    BY DEF DblP, AddP, SquareP
  <1>5. v + v = 2 * v
    <2>1. v \in Int
      BY <1>0, DenotesValue
    <2> QED BY <2>1
  <1> QED BY <1>1, <1>2, <1>3, <1>4, <1>5

\* Comparing what stands for integers compares them modulo m.
LEMMA DenotesEqual ==
    ASSUME NEW m \in Nat \ {0}, NEW x, NEW v, NEW y, NEW w, Denotes(m, x, v), Denotes(m, y, w)
    PROVE  /\ EqBool(x, y) = IF Agree(m, v, w) THEN 1 ELSE 0
           /\ x = y <=> Agree(m, v, w)
  <1>1. x \in Limbs(LIMBS) /\ y \in Limbs(LIMBS) /\ LIMBS \in Nat
    BY BaseIsPositive DEF Denotes
  <1>2. x = y <=> Value(x) = Value(y)
    BY <1>1, ValueDetermines
  <1>3. Value(x) = v % m /\ Value(y) = w % m /\ v \in Int /\ w \in Int
    BY DenotesValue
  <1>4. v % m = w % m <=> Agree(m, v, w)
    BY <1>3, AgreeRemainder
  <1> QED BY <1>1, <1>2, <1>3, <1>4, EqBoolDecides

---------------------------------------------------------------------------
\* The reference: chords and tangents

\* A pair is not the empty sequence.
LEMMA PairIsNotEmpty ==
    ASSUME NEW x, NEW y
    PROVE  <<x, y>> # <<>>
  <1>1. DOMAIN <<x, y>> = 1 .. 2 /\ DOMAIN <<>> = 1 .. 0
    <2>1. Len(<<x, y>>) = 2 /\ Len(<<>>) = 0
      OBVIOUS
    <2> QED BY <2>1
  <1>2. 1 \in 1 .. 2 /\ 1 \notin 1 .. 0
    OBVIOUS
  <1> QED BY <1>1, <1>2

\* A point of the curve other than infinity, and its equation.
AffinePoint(curve, A) == A \in (0 .. curve.p - 1) \X (0 .. curve.p - 1)
Cubic(curve, x, y) ==
    Agree(curve.p, y * y, (x * x * x + curve.a * x) + curve.b)

\* The line through two points, or the tangent, with slope k meets the curve in a third
\* point; S is its mirror image.
ThirdPoint(curve, S, k, A, B) ==
    /\ AffinePoint(curve, S) /\ k \in Int
    /\ Agree(curve.p, S[1], (k * k - A[1]) - B[1])
    /\ Agree(curve.p, S[2], k * (A[1] - S[1]) - A[2])

\* The inverse in the reference is an inverse.
LEMMA SmallestInverseInverts ==
    ASSUME NEW m, Prime(m), NEW d \in Int, ~Agree(m, d, 0)
    PROVE  SmallestInverse(d % m, m) \in 1 .. m - 1 /\ Agree(m, d * SmallestInverse(d % m, m), 1)
  <1> DEFINE r == d % m  w == SmallestInverse(r, m)
  <1>1. m \in Nat \ {0, 1, 2} /\ m \in Nat \ {0}
    <2>1. 1 \in Nat \ {0}
      OBVIOUS
    <2>2. m \in Nat \ {0, 1, 2}
      BY <2>1, FermatInverse
    <2> QED BY <2>2
  <1>2. r \in 0 .. m - 1 /\ Agree(m, d, r)
    BY <1>1, AgreeRemainder
  <1> HIDE DEF r
  <1>3. r \in 1 .. m - 1 /\ r \in Int
    BY <1>1, <1>2
  <1>4. \E v \in 1 .. m - 1 : (r * v) % m = 1
    BY <1>1, <1>3, PrimeFactors
  <1>5. w \in 1 .. m - 1 /\ (r * w) % m = 1
    BY <1>4 DEF SmallestInverse
  <1> HIDE DEF w
  <1>6. 1 \in 0 .. m - 1 /\ w \in Int /\ r * w \in Int
    BY <1>1, <1>3, <1>5
  <1>7. 1 % m = 1
    BY <1>1, <1>6, AgreeRemainder
  <1>8. Agree(m, r * w, 1)
    BY <1>1, <1>5, <1>6, <1>7, AgreeRemainder
  <1>9. Agree(m, d * w, r * w)
    BY <1>1, <1>2, <1>6, AgreeEquivalence, AgreeOperations
  <1> QED BY <1>1, <1>5, <1>8, <1>9, AgreeEquivalence DEF r, w

\* What the reference computes from a slope is the mirror image of the third point.
LEMMA ThirdOfIsThird ==
    ASSUME NEW curve \in Curves, NEW s \in Int, NEW A, AffinePoint(curve, A),
           NEW B, AffinePoint(curve, B)
    PROVE  ThirdPoint(curve, ThirdOf(curve, s, A, B), s % curve.p, A, B) /\ Agree(curve.p, s % curve.p, s)
  <1> DEFINE p == curve.p  k == s % p  x == (k * k - A[1] - B[1]) % p
             y == (k * (A[1] - x) - A[2]) % p
  <1>1. p \in Nat \ {0}
    BY CurveModuli
  <1>2. A[1] \in Int /\ A[2] \in Int /\ B[1] \in Int
    BY <1>1 DEF AffinePoint
  <1>3. k \in 0 .. p - 1 /\ Agree(p, k, s)
    BY <1>1, AgreeRemainder
  <1>4. ThirdOf(curve, s, A, B) = <<x, y>>
    BY DEF ThirdOf
  <1> HIDE DEF k, p
  <1>5. k \in Int /\ k * k - A[1] - B[1] \in Int
    BY <1>1, <1>2, <1>3
  <1>6. x \in 0 .. p - 1 /\ Agree(p, x, (k * k - A[1]) - B[1])
    BY <1>1, <1>5, AgreeRemainder
  <1> HIDE DEF x
  <1>7. k * (A[1] - x) - A[2] \in Int
    BY <1>1, <1>2, <1>5, <1>6
  <1>8. y \in 0 .. p - 1 /\ Agree(p, y, k * (A[1] - x) - A[2])
    <2> DEFINE i == k * (A[1] - x) - A[2]
    <2>1. i \in Int /\ y = i % p
      BY <1>7
    <2> HIDE DEF i, y
    <2>2. i % p \in 0 .. p - 1 /\ Agree(p, i % p, i)
      BY <1>1, <2>1, AgreeRemainder
    <2> QED BY <2>1, <2>2 DEF i
  <1> HIDE DEF y
  <1>9. AffinePoint(curve, <<x, y>>)
    BY <1>6, <1>8 DEF AffinePoint, p
  <1>10. ThirdPoint(curve, <<x, y>>, k, A, B)
    BY <1>5, <1>6, <1>8, <1>9 DEF ThirdPoint, p
  <1> QED BY <1>3, <1>4, <1>10 DEF k, p

\* The sum of two points in the reference: of points that differ in x, on a chord.
LEMMA ChordSum ==
    ASSUME NEW curve \in Curves, NEW A, AffinePoint(curve, A), NEW B, AffinePoint(curve, B),
           A[1] # B[1]
    PROVE  \E k \in Int : /\ ThirdPoint(curve, AffineAdd(curve, A, B), k, A, B)
                          /\ Agree(curve.p, k * (B[1] - A[1]), B[2] - A[2])
  <1> DEFINE p == curve.p  d == B[1] - A[1]  e == B[2] - A[2]  w == SmallestInverse(d % p, p)
             s == e * w  k == s % p
  <1>1. p \in Nat \ {0} /\ Prime(p)
    BY CurveModuli DEF Prime
  <1>2. A[1] \in 0 .. p - 1 /\ A[2] \in 0 .. p - 1 /\ B[1] \in 0 .. p - 1 /\ B[2] \in 0 .. p - 1
    BY <1>1 DEF AffinePoint
  <1>3. d \in Int /\ e \in Int
    BY <1>1, <1>2
  <1>4. ~Agree(p, d, 0)
    <2> SUFFICES ASSUME Agree(p, d, 0) PROVE FALSE
      OBVIOUS
    <2>1. Agree(p, A[1], A[1])
      BY <1>1, <1>2, AgreeEquivalence
    <2>2. Agree(p, d + A[1], 0 + A[1])
      BY <1>1, <2>1, AgreeOperations
    <2>3. d + A[1] = B[1] /\ 0 + A[1] = A[1]
      BY <1>1, <1>2
    <2>4. Agree(p, B[1], A[1])
      BY <2>2, <2>3
    <2> HIDE DEF p
    <2> QED BY <1>1, <1>2, <2>4, AgreeRemainder
  <1>5. w \in 1 .. p - 1 /\ Agree(p, d * w, 1)
    <2> HIDE DEF d, p
    <2> QED BY <1>1, <1>3, <1>4, SmallestInverseInverts
  <1>6. AffineAdd(curve, A, B) = ThirdOf(curve, s, A, B)
    <2>1. A # <<>> /\ B # <<>>
      <3>1. A = <<A[1], A[2]>> /\ B = <<B[1], B[2]>>
        BY DEF AffinePoint
      <3> QED BY <3>1, PairIsNotEmpty
    <2>2. A # B
      OBVIOUS
    <2> QED BY <2>1, <2>2 DEF AffineAdd, ThirdOf
  <1> HIDE DEF w
  <1>7. w \in Int /\ s \in Int
    <2>1. w \in Int
      BY <1>1, <1>5
    <2> HIDE DEF e
    <2> QED BY <1>3, <2>1
  <1> HIDE DEF s
  <1>8. ThirdPoint(curve, ThirdOf(curve, s, A, B), k, A, B) /\ Agree(p, k, s)
    BY <1>7, ThirdOfIsThird
  <1>9. k \in Int
    BY <1>8 DEF ThirdPoint
  <1>10. Agree(p, k * d, e)
    <2> HIDE DEF d, e, p, k
    <2>1. Agree(p, d, d) /\ Agree(p, e, e)
      BY <1>1, <1>3, AgreeEquivalence
    <2>2. Agree(p, k * d, s * d)
      BY <1>1, <1>8, <2>1, AgreeOperations
    <2>3. Agree(p, e * (d * w), e * 1)
      BY <1>1, <1>5, <2>1, AgreeOperations
    <2>4. s * d = e * (d * w) /\ e * 1 = e
      BY <1>3, <1>7 DEF s
    <2> QED BY <1>1, <2>2, <2>3, <2>4, AgreeEquivalence
  <1> QED BY <1>6, <1>8, <1>9, <1>10

\* Of a point with itself, on the tangent, or infinity where the tangent is vertical.
LEMMA TangentSum ==
    ASSUME NEW curve \in Curves, NEW A, AffinePoint(curve, A)
    PROVE  /\ Agree(curve.p, 2 * A[2], 0) => AffineAdd(curve, A, A) = <<>>
           /\ ~Agree(curve.p, 2 * A[2], 0) =>
                \E k \in Int : /\ ThirdPoint(curve, AffineAdd(curve, A, A), k, A, A)
                               /\ Agree(curve.p, k * (2 * A[2]), 3 * (A[1] * A[1]) + curve.a)
  <1> DEFINE p == curve.p  d == 2 * A[2]  e == 3 * A[1] * A[1] + curve.a
             w == SmallestInverse(d % p, p)  s == e * w  k == s % p
  <1>1. p \in Nat \ {0} /\ Prime(p) /\ curve.a \in Int
    BY CurveModuli DEF Prime
  <1>2. A[1] \in 0 .. p - 1 /\ A[2] \in 0 .. p - 1
    BY <1>1 DEF AffinePoint
  <1>3. d \in Int /\ e \in Int /\ e = 3 * (A[1] * A[1]) + curve.a /\ A[2] + A[2] = d
    BY <1>1, <1>2
  <1>4. (A[2] + A[2]) % p = 0 <=> Agree(p, d, 0)
    <2>3. (A[2] + A[2]) % p = d % p
      BY <1>3
    <2> HIDE DEF d, p
    <2>1. 0 \in 0 .. p - 1 /\ 0 \in Int
      BY <1>1
    <2>2. 0 % p = 0
      BY <1>1, <2>1, AgreeRemainder
    <2>4. Agree(p, d, d % p)
      BY <1>1, <1>3, AgreeRemainder
    <2>5. Agree(p, d, 0) => d % p = 0
      <3>1. ASSUME NEW o, o = 0, Agree(p, d, o) PROVE d % p = o % p
        BY <1>1, <3>1, AgreeRemainder
      <3> QED BY <2>2, <3>1
    <2> QED BY <2>3, <2>4, <2>5
  <1>5. A # <<>>
    <2>1. A = <<A[1], A[2]>>
      BY DEF AffinePoint
    <2> QED BY <2>1, PairIsNotEmpty
  <1>6. CASE Agree(p, d, 0)
    <2>1. (A[2] + A[2]) % p = 0
      BY <1>4, <1>6
    <2>2. AffineAdd(curve, A, A) = <<>>
      BY <1>5, <2>1 DEF AffineAdd
    <2> QED BY <1>6, <2>2
  <1>7. CASE ~Agree(p, d, 0)
    <2>1. (A[2] + A[2]) % p # 0
      BY <1>4, <1>7
    <2>2. AffineAdd(curve, A, A) = ThirdOf(curve, s, A, A)
      BY <1>5, <2>1 DEF AffineAdd, ThirdOf
    <2>3. w \in 1 .. p - 1 /\ Agree(p, d * w, 1)
      <3> HIDE DEF d, p
      <3> QED BY <1>1, <1>3, <1>7, SmallestInverseInverts
    <2> HIDE DEF w
    <2>4. w \in Int /\ s \in Int
      <3>1. w \in Int
        BY <1>1, <2>3
      <3> HIDE DEF e
      <3> QED BY <1>3, <3>1
    <2> HIDE DEF s
    <2>5. ThirdPoint(curve, ThirdOf(curve, s, A, A), k, A, A) /\ Agree(p, k, s)
      BY <2>4, ThirdOfIsThird
    <2>6. k \in Int
      BY <2>5 DEF ThirdPoint
    <2>7. Agree(p, k * d, e)
      <3> HIDE DEF d, e, p, k
      <3>1. Agree(p, d, d) /\ Agree(p, e, e)
        BY <1>1, <1>3, AgreeEquivalence
      <3>2. Agree(p, k * d, s * d)
        BY <1>1, <2>5, <3>1, AgreeOperations
      <3>3. Agree(p, e * (d * w), e * 1)
        BY <1>1, <2>3, <3>1, AgreeOperations
      <3>4. s * d = e * (d * w) /\ e * 1 = e
        BY <1>3, <2>4 DEF s
      <3> QED BY <1>1, <3>2, <3>3, <3>4, AgreeEquivalence
    <2>8. Agree(p, k * d, 3 * (A[1] * A[1]) + curve.a)
      <3> HIDE DEF k, d
      <3> QED BY <1>3, <2>7
    <2> QED BY <1>7, <2>2, <2>5, <2>6, <2>8
  <1> QED BY <1>6, <1>7

---------------------------------------------------------------------------
\* The curve formulas

\* The end of both doublings, on what the quantities stand for.
LEMMA DoubledDenotes ==
    ASSUME NEW curve \in Curves, NEW m, NEW s, NEW t, NEW z3, NEW i, NEW j, NEW k,
           Denotes(curve.p, m, i), Denotes(curve.p, s, j), Denotes(curve.p, t, k)
    PROVE  LET D == DoubledPoint(curve, m, s, t, z3)
               x == i * i - 2 * j
           IN  /\ Denotes(curve.p, D[1], x)
               /\ Denotes(curve.p, D[2], i * (j - x) - k)
               /\ D[3] = z3
  <1> DEFINE D == DoubledPoint(curve, m, s, t, z3)  x == i * i - 2 * j
             mm == SquareP(curve, m)  ss == DblP(curve, s)  x3 == SubP(curve, mm, ss)
             sx == SubP(curve, s, x3)  ms == MulP(curve, m, sx)
  <1>1. Denotes(curve.p, mm, i * i) /\ Denotes(curve.p, ss, 2 * j)
    BY DenotesOperations
  <1>2. D = <<x3, SubP(curve, ms, t), z3>>
    BY DEF DoubledPoint
  <1> HIDE DEF mm, ss
  <1>3. Denotes(curve.p, x3, x)
    BY <1>1, DenotesOperations
  <1> HIDE DEF x3, x
  <1>4. Denotes(curve.p, sx, j - x)
    BY <1>3, DenotesOperations
  <1> HIDE DEF sx
  <1>5. Denotes(curve.p, ms, i * (j - x))
    BY <1>4, DenotesOperations
  <1> HIDE DEF ms
  <1>6. Denotes(curve.p, SubP(curve, ms, t), i * (j - x) - k)
    BY <1>5, DenotesOperations
  <1> HIDE DEF D
  <1>7. D[1] = x3 /\ D[2] = SubP(curve, ms, t) /\ D[3] = z3
    BY <1>2
  <1> QED BY <1>3, <1>6, <1>7 DEF D, x

\* What a doubling computes, on what the coordinates stand for.
DoubleSlope(curve, x, d) == 3 * (x * x) + curve.a * ((d * d) * (d * d))
DoubleX(curve, x, y, d) ==
    DoubleSlope(curve, x, d) * DoubleSlope(curve, x, d) - 2 * (4 * (x * (y * y)))
DoubleY(curve, x, y, d) ==
    DoubleSlope(curve, x, d) * (4 * (x * (y * y)) - DoubleX(curve, x, y, d))
      - 8 * ((y * y) * (y * y))

\* Both doublings compute it, the one for a = 0 and the one for a = -3.
LEMMA DoubleDenotes ==
    ASSUME NEW curve \in Curves, NEW J, NEW x, NEW y, NEW d,
           Denotes(curve.p, J[1], x), Denotes(curve.p, J[2], y), Denotes(curve.p, J[3], d)
    PROVE  /\ Denotes(curve.p, Double(curve, J)[1], DoubleX(curve, x, y, d))
           /\ Denotes(curve.p, Double(curve, J)[2], DoubleY(curve, x, y, d))
           /\ Denotes(curve.p, Double(curve, J)[3], 2 * (y * d))
  <1> DEFINE p == curve.p  m == DoubleSlope(curve, x, d)  s == 4 * (x * (y * y))
             t == 8 * ((y * y) * (y * y))  e == 2 * (y * d)
  <1>0. /\ p \in Nat \ {0} /\ curve.a \in {0, -3} /\ x \in Int /\ y \in Int /\ d \in Int
        /\ x * x \in Int /\ d * d \in Int /\ y * y \in Int
    BY CurveModuli, DenotesValue
  <1>1. ASSUME NEW i, NEW j, NEW k, NEW l, Denotes(p, i, m), Denotes(p, j, s), Denotes(p, k, t),
               Denotes(p, l, e), Double(curve, J) = DoubledPoint(curve, i, j, k, l)
        PROVE  /\ Denotes(p, Double(curve, J)[1], DoubleX(curve, x, y, d))
               /\ Denotes(p, Double(curve, J)[2], DoubleY(curve, x, y, d))
               /\ Denotes(p, Double(curve, J)[3], 2 * (y * d))
    BY <1>1, DoubledDenotes DEF DoubleX, DoubleY
  <1> DEFINE yy == SquareP(curve, J[2])
             b == MulP(curve, J[1], yy)  b4 == DblP(curve, DblP(curve, b))
             q == SquareP(curve, yy)  q8 == DblP(curve, DblP(curve, DblP(curve, q)))
  <1>2. Denotes(p, yy, y * y)
    BY DenotesOperations
  <1>3. Denotes(p, b, x * (y * y)) /\ Denotes(p, q, (y * y) * (y * y))
    <2> HIDE DEF yy
    <2> QED BY <1>2, DenotesOperations
  <1>4. Denotes(p, b4, s)
    <2> HIDE DEF b
    <2>1. Denotes(p, DblP(curve, b), 2 * (x * (y * y)))
      BY <1>3, DenotesOperations
    <2>2. Denotes(p, b4, 2 * (2 * (x * (y * y))))
      BY <2>1, DenotesOperations
    <2>3. 2 * (2 * (x * (y * y))) = s
      BY <1>0
    <2> QED BY <2>2, <2>3
  <1>5. Denotes(p, q8, t)
    <2> HIDE DEF q
    <2> DEFINE f == (y * y) * (y * y)
    <2>0. f \in Int /\ Denotes(p, q, f)
      BY <1>0, <1>3
    <2> HIDE DEF f
    <2>1. Denotes(p, DblP(curve, q), 2 * f)
      BY <2>0, DenotesOperations
    <2>2. Denotes(p, DblP(curve, DblP(curve, q)), 2 * (2 * f))
      BY <2>1, DenotesOperations
    <2>3. Denotes(p, q8, 2 * (2 * (2 * f)))
      BY <2>2, DenotesOperations
    <2>4. 2 * (2 * (2 * f)) = 8 * f
      BY <2>0
    <2> QED BY <2>3, <2>4 DEF f
  <1>6. CASE curve.a = 0
    <2> DEFINE xx == SquareP(curve, J[1])  xx2 == DblP(curve, xx)  D == AddP(curve, xx2, xx)
               yz == MulP(curve, J[2], J[3])
    <2>1. Denotes(p, xx, x * x) /\ Denotes(p, yz, y * d)
      BY DenotesOperations
    <2>2. Denotes(p, xx2, 2 * (x * x)) /\ Denotes(p, DblP(curve, yz), e)
      <3> HIDE DEF xx, yz
      <3> QED BY <2>1, DenotesOperations
    <2>3. Denotes(p, D, 2 * (x * x) + x * x)
      <3> HIDE DEF xx, xx2
      <3> QED BY <2>1, <2>2, DenotesOperations
    <2>4. 2 * (x * x) + x * x = m
      <3> DEFINE f == x * x  u == (d * d) * (d * d)
      <3>1. f \in Int /\ u \in Int /\ m = 3 * f + 0 * u
        BY <1>0, <1>6 DEF DoubleSlope
      <3> HIDE DEF f, u, m
      <3>2. 2 * f + f = m
        BY <3>1
      <3> QED BY <3>2 DEF f
    <2>5. Double(curve, J) = DoubledPoint(curve, D, b4, q8, DblP(curve, yz))
      BY <1>6 DEF Double, DoubleAZero
    <2> HIDE DEF D, b4, q8, yz, m, s, t, e
    <2> QED BY <1>1, <1>4, <1>5, <2>2, <2>3, <2>4, <2>5
  <1>7. CASE curve.a = -3
    <2> DEFINE dd == SquareP(curve, J[3])  lo == SubP(curve, J[1], dd)  hi == AddP(curve, J[1], dd)
               f == MulP(curve, lo, hi)  f2 == DblP(curve, f)  D == AddP(curve, f2, f)
               yz == AddP(curve, J[2], J[3])  y2 == SquareP(curve, yz)
               y3 == SubP(curve, y2, yy)  y4 == SubP(curve, y3, dd)
               g1 == (x - d * d) * (x + d * d)
    <2>1. Denotes(p, dd, d * d) /\ Denotes(p, yz, y + d)
      BY DenotesOperations
    <2>2. Denotes(p, lo, x - d * d) /\ Denotes(p, hi, x + d * d) /\ Denotes(p, y2, (y + d) * (y + d))
      <3> HIDE DEF dd, yz
      <3> QED BY <2>1, DenotesOperations
    <2>3. Denotes(p, f, g1) /\ Denotes(p, y3, (y + d) * (y + d) - y * y)
      <3> HIDE DEF lo, hi, y2, yy
      <3> QED BY <1>2, <2>2, DenotesOperations
    <2>4. Denotes(p, f2, 2 * g1) /\ Denotes(p, y4, ((y + d) * (y + d) - y * y) - d * d)
      <3> HIDE DEF f, g1, y3, dd
      <3> QED BY <2>1, <2>3, DenotesOperations
    <2>5. Denotes(p, D, 2 * g1 + g1)
      <3> HIDE DEF f, f2, g1
      <3> QED BY <2>3, <2>4, DenotesOperations
    <2>6. 2 * g1 + g1 = m
      <3> DEFINE u == d * d
      <3>1. u \in Int /\ m = 3 * (x * x) + (-3) * (u * u) /\ g1 = (x - u) * (x + u)
        BY <1>0, <1>7 DEF DoubleSlope
      <3> HIDE DEF u, m, g1
      <3> QED BY <1>0, <3>1
    <2>7. ((y + d) * (y + d) - y * y) - d * d = e
      BY <1>0
    <2>8. Double(curve, J) = DoubledPoint(curve, D, b4, q8, y4)
      <3>1. curve.a # 0
        BY <1>7
      <3> QED BY <3>1 DEF Double, DoubleANeg3
    <2> HIDE DEF D, b4, q8, y4, m, s, t, e, g1
    <2> QED BY <1>1, <1>4, <1>5, <2>4, <2>5, <2>6, <2>7, <2>8
  <1> QED BY <1>0, <1>6, <1>7

\* What the regular formula computes.
LEMMA RegularDenotes ==
    ASSUME NEW curve \in Curves, NEW J, NEW x, NEW y, NEW d, NEW q, NEW a, NEW b,
           Denotes(curve.p, J[1], x), Denotes(curve.p, J[2], y), Denotes(curve.p, J[3], d),
           Denotes(curve.p, q[1], a), Denotes(curve.p, q[2], b)
    PROVE  LET G == AddRegular(curve, J, q)
               h == a * (d * d) - x
               s == (b * d) * (d * d) - y
               j == h * (4 * (h * h))
               v == x * (4 * (h * h))
               x3 == ((2 * s) * (2 * s) - j) - 2 * v
           IN  /\ Denotes(curve.p, G.point[1], x3)
               /\ Denotes(curve.p, G.point[2], (2 * s) * (v - x3) - 2 * (y * j))
               /\ Denotes(curve.p, G.point[3], 2 * (d * h))
               /\ G.same_x = IF Agree(curve.p, h, 0) THEN 1 ELSE 0
               /\ G.same_y = IF Agree(curve.p, s, 0) THEN 1 ELSE 0
  <1> DEFINE p == curve.p  G == AddRegular(curve, J, q)
             h == a * (d * d) - x
             s == (b * d) * (d * d) - y
             i == 4 * (h * h)
             j == h * i
             v == x * i
             x3 == ((2 * s) * (2 * s) - j) - 2 * v
             dd == SquareP(curve, J[3])
             lh0 == MulP(curve, q[1], dd)  lh == SubP(curve, lh0, J[1])
             lhh == SquareP(curve, lh)  li2 == DblP(curve, lhh)  li == DblP(curve, li2)
             ls0 == MulP(curve, q[2], J[3])  ls1 == MulP(curve, ls0, dd)  ls == SubP(curve, ls1, J[2])
             lj == MulP(curve, lh, li)  lyj == MulP(curve, J[2], lj)  lr == DblP(curve, ls)
             lv == MulP(curve, J[1], li)
             lz0 == AddP(curve, J[3], lh)  lz1 == SquareP(curve, lz0)  lz2 == SubP(curve, lz1, dd)
             lz == SubP(curve, lz2, lhh)
  <1>0. /\ p \in Nat \ {0} /\ x \in Int /\ y \in Int /\ d \in Int /\ a \in Int /\ b \in Int
        /\ d * d \in Int
    BY CurveModuli, DenotesValue
  <1>1. Denotes(p, dd, d * d) /\ Denotes(p, ls0, b * d)
    BY DenotesOperations
  <1>2. Denotes(p, lh0, a * (d * d)) /\ Denotes(p, ls1, (b * d) * (d * d))
    <2> HIDE DEF dd, ls0
    <2> QED BY <1>1, DenotesOperations
  <1>3. Denotes(p, lh, h) /\ Denotes(p, ls, s)
    <2> HIDE DEF lh0, ls1
    <2> QED BY <1>2, DenotesOperations
  <1>4. h \in Int /\ s \in Int /\ h * h \in Int
    BY <1>0
  <1>5. Denotes(p, lhh, h * h) /\ Denotes(p, lr, 2 * s) /\ Denotes(p, lz0, d + h)
    <2> HIDE DEF lh, ls, h, s
    <2> QED BY <1>3, DenotesOperations
  <1>6. Denotes(p, li, i)
    <2> HIDE DEF lhh, h
    <2>1. Denotes(p, li2, 2 * (h * h))
      BY <1>5, DenotesOperations
    <2> HIDE DEF li2
    <2>2. Denotes(p, li, 2 * (2 * (h * h)))
      BY <2>1, DenotesOperations
    <2>3. 2 * (2 * (h * h)) = i
      BY <1>4
    <2> QED BY <2>2, <2>3
  <1>7. Denotes(p, lj, j) /\ Denotes(p, lv, v)
    <2> HIDE DEF lh, li, h, i
    <2> QED BY <1>3, <1>6, DenotesOperations
  <1>8. Denotes(p, lyj, y * j)
    <2> HIDE DEF lj, j
    <2> QED BY <1>7, DenotesOperations
  <1>9. Denotes(p, lz, 2 * (d * h))
    <2> HIDE DEF lz0, h, dd, lhh
    <2>1. Denotes(p, lz1, (d + h) * (d + h))
      BY <1>5, DenotesOperations
    <2> HIDE DEF lz1
    <2>2. Denotes(p, lz2, (d + h) * (d + h) - d * d)
      BY <1>1, <2>1, DenotesOperations
    <2> HIDE DEF lz2
    <2>3. Denotes(p, lz, ((d + h) * (d + h) - d * d) - h * h)
      BY <1>5, <2>2, DenotesOperations
    <2>4. ((d + h) * (d + h) - d * d) - h * h = 2 * (d * h)
      BY <1>0, <1>4
    <2> QED BY <2>3, <2>4
  <1> DEFINE lrr == SquareP(curve, lr)  lrj == SubP(curve, lrr, lj)  lv2 == DblP(curve, lv)
             lx3 == SubP(curve, lrj, lv2)  lvx == SubP(curve, lv, lx3)  lrv == MulP(curve, lr, lvx)
             lyj2 == DblP(curve, lyj)  ly3 == SubP(curve, lrv, lyj2)
  <1>10. Denotes(p, lx3, x3)
    <2> HIDE DEF lr, lj, lv, s, j, v
    <2>1. Denotes(p, lrr, (2 * s) * (2 * s)) /\ Denotes(p, lv2, 2 * v)
      BY <1>5, <1>7, DenotesOperations
    <2> HIDE DEF lrr, lv2
    <2>2. Denotes(p, lrj, (2 * s) * (2 * s) - j)
      BY <1>7, <2>1, DenotesOperations
    <2> HIDE DEF lrj
    <2> QED BY <2>1, <2>2, DenotesOperations
  <1>11. Denotes(p, ly3, (2 * s) * (v - x3) - 2 * (y * j))
    <2> HIDE DEF lr, lj, lv, s, j, v, lx3, x3, lyj
    <2>1. Denotes(p, lvx, v - x3) /\ Denotes(p, lyj2, 2 * (y * j))
      BY <1>7, <1>8, <1>10, DenotesOperations
    <2> HIDE DEF lvx, lyj2
    <2>2. Denotes(p, lrv, (2 * s) * (v - x3))
      BY <1>5, <2>1, DenotesOperations
    <2> HIDE DEF lrv
    <2> QED BY <2>1, <2>2, DenotesOperations
  <1>12. G = [point |-> <<lx3, ly3, lz>>, same_x |-> EqBool(lh, Zero), same_y |-> EqBool(ls, Zero)]
    BY DEF AddRegular, RegularFrom, RegularPoint
  <1>13. Denotes(p, Zero, 0)
    <2>1. 0 \in 0 .. p - 1 /\ 0 < R
      BY <1>0, RIsPositive
    <2> QED BY <1>0, <2>1, DenotesValue DEF Zero
  <1> HIDE DEF lx3, ly3, lz, lh, ls, G
  <1>14. G.same_x = EqBool(lh, Zero) /\ G.same_y = EqBool(ls, Zero) /\ G.point = <<lx3, ly3, lz>>
    BY <1>12
  <1>15. G.point[1] = lx3 /\ G.point[2] = ly3 /\ G.point[3] = lz
    BY <1>14
  <1> HIDE DEF h, s
  <1>16. /\ EqBool(lh, Zero) = IF Agree(p, h, 0) THEN 1 ELSE 0
         /\ EqBool(ls, Zero) = IF Agree(p, s, 0) THEN 1 ELSE 0
    BY <1>0, <1>3, <1>13, DenotesEqual
  <1> QED BY <1>9, <1>10, <1>11, <1>14, <1>15, <1>16 DEF h, s, G

\* What the end of an addition computes, scaled to the new denominator, is the third point.
LEMMA ScaledThird ==
    ASSUME NEW m \in Nat \ {0}, NEW k \in Int, NEW w \in Int, NEW a1 \in Int, NEW a2 \in Int,
           NEW b1 \in Int, NEW s1 \in Int, NEW s2 \in Int, NEW M, NEW U, NEW V, NEW T,
           Agree(m, s1, (k * k - a1) - b1), Agree(m, s2, k * (a1 - s1) - a2),
           Agree(m, M, k * w), Agree(m, U, (a1 + b1) * (w * w)), Agree(m, V, a1 * (w * w)),
           Agree(m, T, a2 * (w * (w * w)))
    PROVE  /\ Agree(m, M * M - U, s1 * (w * w))
           /\ Agree(m, M * (V - (M * M - U)) - T, s2 * (w * (w * w)))
  <1> DEFINE X == M * M - U  ww == w * w  www == w * ww  t1 == (k * k - a1) - b1
             t2 == k * (a1 - s1) - a2
  <1>1. M \in Int /\ U \in Int /\ V \in Int /\ T \in Int /\ ww \in Int /\ www \in Int
    BY DEF Agree
  <1>2. X \in Int /\ t1 \in Int /\ t2 \in Int
    <2>1. M * M \in Int /\ k * k \in Int /\ k * (a1 - s1) \in Int
      BY <1>1
    <2> QED BY <1>1, <2>1
  <1>3. Agree(m, M * M, (k * w) * (k * w))
    BY AgreeOperations
  <1>4. Agree(m, X, (k * w) * (k * w) - (a1 + b1) * ww)
    BY <1>3, AgreeOperations
  <1>5. (k * w) * (k * w) - (a1 + b1) * ww = t1 * ww
    OBVIOUS
  <1>6. Agree(m, s1 * ww, t1 * ww)
    <2>1. Agree(m, ww, ww)
      BY <1>1, AgreeEquivalence
    <2> HIDE DEF ww, t1
    <2> QED BY <2>1, AgreeOperations DEF t1
  <1>7. Agree(m, X, s1 * ww)
    <2> HIDE DEF X, ww, t1
    <2> QED BY <1>4, <1>5, <1>6, AgreeEquivalence
  <1>8. Agree(m, V - X, a1 * ww - s1 * ww)
    <2> HIDE DEF X
    <2> QED BY <1>7, AgreeOperations
  <1>9. Agree(m, M * (V - X), (k * w) * (a1 * ww - s1 * ww))
    <2> HIDE DEF X, ww
    <2> QED BY <1>8, AgreeOperations
  <1>10. Agree(m, M * (V - X) - T, (k * w) * (a1 * ww - s1 * ww) - a2 * www)
    <2> HIDE DEF X
    <2> QED BY <1>9, AgreeOperations
  <1>11. (k * w) * (a1 * ww - s1 * ww) - a2 * www = t2 * www
    OBVIOUS
  <1>12. Agree(m, s2 * www, t2 * www)
    <2>1. Agree(m, www, www)
      BY <1>1, AgreeEquivalence
    <2> HIDE DEF www, t2
    <2> QED BY <2>1, AgreeOperations DEF t2
  <1>13. Agree(m, M * (V - X) - T, s2 * www)
    <2> HIDE DEF X, ww, www, t2
    <2> QED BY <1>10, <1>11, <1>12, AgreeEquivalence
  <1> QED BY <1>7, <1>13

\* A Jacobian point that stands for a point of the curve, all coordinates reduced.
Stands(curve, J, pt) ==
    \E x, y, d :
        /\ Denotes(curve.p, J[1], x) /\ Denotes(curve.p, J[2], y) /\ Denotes(curve.p, J[3], d)
        /\ IF pt = <<>> THEN Agree(curve.p, d, 0)
           ELSE /\ AffinePoint(curve, pt) /\ ~Agree(curve.p, d, 0)
                /\ Agree(curve.p, x, pt[1] * (d * d)) /\ Agree(curve.p, y, pt[2] * (d * (d * d)))

\* The coordinates of such a point are reduced.
LEMMA AffineCoordinates ==
    ASSUME NEW curve \in Curves, NEW A, AffinePoint(curve, A)
    PROVE  /\ A = <<A[1], A[2]>> /\ A # <<>>
           /\ A[1] \in 0 .. curve.p - 1 /\ A[2] \in 0 .. curve.p - 1 /\ A[1] \in Int /\ A[2] \in Int
  <1>1. A = <<A[1], A[2]>> /\ A[1] \in 0 .. curve.p - 1 /\ A[2] \in 0 .. curve.p - 1
    BY DEF AffinePoint
  <1>2. A # <<>>
    BY <1>1, PairIsNotEmpty
  <1>3. curve.p \in Nat
    BY CurveModuli
  <1> QED BY <1>1, <1>2, <1>3

\* A factor of zero, and a product of factors other than zero.
LEMMA ZeroProducts ==
    ASSUME NEW m, Prime(m), NEW x \in Int, NEW y \in Int
    PROVE  /\ Agree(m, x, 0) => Agree(m, x * y, 0) /\ Agree(m, y * x, 0)
           /\ ~Agree(m, x, 0) /\ ~Agree(m, y, 0) => ~Agree(m, x * y, 0)
  <1>1. m \in Nat \ {0}
    <2>1. 1 \in Nat \ {0}
      OBVIOUS
    <2> QED BY <2>1, FermatInverse
  <1>2. ASSUME Agree(m, x, 0) PROVE Agree(m, x * y, 0) /\ Agree(m, y * x, 0)
    <2>1. Agree(m, y, y)
      BY <1>1, AgreeEquivalence
    <2>2. Agree(m, x * y, 0 * y) /\ Agree(m, y * x, y * 0)
      BY <1>1, <1>2, <2>1, AgreeOperations
    <2>3. 0 * y = 0 /\ y * 0 = 0
      OBVIOUS
    <2> QED BY <2>2, <2>3
  <1> QED BY <1>2, PrimeFactors

\* Doubling: infinity, and points whose tangent is vertical, become infinity.
LEMMA DoubleVanishes ==
    ASSUME NEW curve \in Curves, NEW J, NEW x, NEW y, NEW d,
           Denotes(curve.p, J[1], x), Denotes(curve.p, J[2], y), Denotes(curve.p, J[3], d),
           Agree(curve.p, 2 * (y * d), 0)
    PROVE  Stands(curve, Double(curve, J), <<>>)
  <1> DEFINE K == Double(curve, J)
  <1>1. /\ Denotes(curve.p, K[1], DoubleX(curve, x, y, d))
        /\ Denotes(curve.p, K[2], DoubleY(curve, x, y, d))
        /\ Denotes(curve.p, K[3], 2 * (y * d))
    BY DoubleDenotes
  <1> HIDE DEF K
  <1>2. Stands(curve, K, <<>>)
    BY <1>1 DEF Stands
  <1> QED BY <1>2 DEF K

\* The doubled point stands for the sum of the point with itself.
LEMMA DoubleStands ==
    ASSUME NEW curve \in Curves, NEW J, NEW A, Stands(curve, J, A)
    PROVE  Stands(curve, Double(curve, J), AffineAdd(curve, A, A))
  <1> DEFINE p == curve.p  K == Double(curve, J)
  <1>1. p \in Nat \ {0} /\ Prime(p) /\ curve.a \in Int
    BY CurveModuli DEF Prime
  <1>2. PICK x, y, d : /\ Denotes(p, J[1], x) /\ Denotes(p, J[2], y) /\ Denotes(p, J[3], d)
                       /\ IF A = <<>> THEN Agree(p, d, 0)
                          ELSE /\ AffinePoint(curve, A) /\ ~Agree(p, d, 0)
                               /\ Agree(p, x, A[1] * (d * d)) /\ Agree(p, y, A[2] * (d * (d * d)))
    BY DEF Stands
  <1>3. x \in Int /\ y \in Int /\ d \in Int
    BY <1>1, <1>2, DenotesValue
  <1>4. CASE A = <<>>
    <2>1. Agree(p, 2 * (y * d), 0)
      <3>1. y * d \in Int /\ 2 * y \in Int /\ 2 * (y * d) = (2 * y) * d
        BY <1>3
      <3>2. Agree(p, (2 * y) * d, 0)
        BY <1>1, <1>2, <1>3, <1>4, <3>1, ZeroProducts
      <3> QED BY <3>1, <3>2
    <2>2. AffineAdd(curve, A, A) = <<>>
      BY <1>4 DEF AffineAdd
    <2> QED BY <1>2, <2>1, <2>2, DoubleVanishes
  <1>5. CASE A # <<>>
    <2> DEFINE dd == d * d  ddd == d * dd  a1 == A[1]  a2 == A[2]  e == 2 * (y * d)
               w == (2 * a2) * (dd * dd)
    <2>1. /\ AffinePoint(curve, A) /\ ~Agree(p, d, 0) /\ Agree(p, x, a1 * dd) /\ Agree(p, y, a2 * ddd)
          /\ a1 \in Int /\ a2 \in Int /\ dd \in Int /\ ddd \in Int
      <3>1. dd \in Int
        BY <1>3
      <3>2. ddd \in Int
        BY <1>3, <3>1
      <3> QED BY <1>2, <1>5, <3>1, <3>2, AffineCoordinates
    <2>2. w \in Int /\ dd * dd \in Int /\ 2 * a2 \in Int
      BY <2>1
    <2>3. ~Agree(p, dd * dd, 0)
      <3>1. ~Agree(p, dd, 0)
        BY <1>1, <1>3, <2>1, ZeroProducts
      <3> HIDE DEF dd
      <3> QED BY <1>1, <2>1, <3>1, ZeroProducts
    <2>4. Agree(p, e, w)
      <3>1. Agree(p, d, d) /\ Agree(p, 2, 2)
        BY <1>1, <1>3, AgreeEquivalence
      <3>2. Agree(p, y * d, (a2 * ddd) * d)
        BY <1>1, <2>1, <3>1, AgreeOperations
      <3>3. Agree(p, e, 2 * ((a2 * ddd) * d))
        <4> HIDE DEF ddd
        <4> QED BY <1>1, <3>1, <3>2, AgreeOperations
      <3>4. 2 * ((a2 * ddd) * d) = w
        BY <1>3, <2>1
      <3> QED BY <3>3, <3>4
    <2>5. CASE Agree(p, 2 * a2, 0)
      <3>1. Agree(p, w, 0)
        <4> HIDE DEF dd, a2
        <4> QED BY <1>1, <2>2, <2>5, ZeroProducts
      <3>2. Agree(p, e, 0)
        <4> HIDE DEF w, e
        <4> QED BY <1>1, <2>4, <3>1, AgreeEquivalence
      <3>3. AffineAdd(curve, A, A) = <<>>
        BY <2>1, <2>5, TangentSum
      <3> QED BY <1>2, <3>2, <3>3, DoubleVanishes
    <2>6. CASE ~Agree(p, 2 * a2, 0)
      <3> DEFINE S == AffineAdd(curve, A, A)  M == DoubleSlope(curve, x, d)  V == 4 * (x * (y * y))
                 U == 2 * V  T == 8 * ((y * y) * (y * y))
      <3>1. PICK k \in Int : ThirdPoint(curve, S, k, A, A) /\ Agree(p, k * (2 * a2), 3 * (a1 * a1) + curve.a)
        BY <2>1, <2>6, TangentSum
      <3>2. /\ AffinePoint(curve, S) /\ S[1] \in Int /\ S[2] \in Int /\ S # <<>>
            /\ Agree(p, S[1], (k * k - a1) - a1) /\ Agree(p, S[2], k * (a1 - S[1]) - a2)
        BY <3>1, AffineCoordinates DEF ThirdPoint
      <3>3. Agree(p, M, k * w)
        <4> DEFINE t == 3 * (a1 * a1) + curve.a  f == dd * dd  l == k * (2 * a2)
        <4>1. Agree(p, f, f) /\ Agree(p, 3, 3) /\ Agree(p, curve.a * f, curve.a * f)
          <5>1. f \in Int /\ 3 \in Int /\ curve.a * f \in Int
            BY <1>1, <2>2
          <5> QED BY <1>1, <5>1, AgreeEquivalence
        <4>2. Agree(p, l * f, t * f)
          <5> HIDE DEF l, t, f
          <5>1. Agree(p, l, t)
            BY <3>1 DEF l, t
          <5> QED BY <1>1, <4>1, <5>1, AgreeOperations
        <4>3. l * f = k * w
          BY <2>1, <2>2
        <4>4. Agree(p, x * x, (a1 * dd) * (a1 * dd))
          BY <1>1, <2>1, AgreeOperations
        <4>5. Agree(p, 3 * (x * x), 3 * ((a1 * dd) * (a1 * dd)))
          <5> HIDE DEF dd, a1
          <5> QED BY <1>1, <4>1, <4>4, AgreeOperations
        <4>6. Agree(p, M, 3 * ((a1 * dd) * (a1 * dd)) + curve.a * f)
          <5> HIDE DEF a1
          <5> QED BY <1>1, <4>1, <4>5, AgreeOperations DEF DoubleSlope
        <4>7. 3 * ((a1 * dd) * (a1 * dd)) + curve.a * f = t * f
          BY <1>1, <2>1
        <4>8. Agree(p, M, t * f)
          BY <4>6, <4>7
        <4> HIDE DEF M, t, f, l, w
        <4> QED BY <1>1, <4>2, <4>3, <4>8, AgreeEquivalence
      <3>4. Agree(p, y * y, (a2 * ddd) * (a2 * ddd))
        BY <1>1, <2>1, AgreeOperations
      <3>5. Agree(p, V, a1 * (w * w))
        <4>1. Agree(p, x * (y * y), (a1 * dd) * ((a2 * ddd) * (a2 * ddd)))
          <5> HIDE DEF a1, a2, dd, ddd
          <5> QED BY <1>1, <2>1, <3>4, AgreeOperations
        <4>2. Agree(p, 4, 4)
          BY <1>1, AgreeEquivalence
        <4>3. Agree(p, V, 4 * ((a1 * dd) * ((a2 * ddd) * (a2 * ddd))))
          <5> HIDE DEF a1, a2, dd, ddd
          <5> QED BY <1>1, <4>1, <4>2, AgreeOperations
        <4>4. 4 * ((a1 * dd) * ((a2 * ddd) * (a2 * ddd))) = a1 * (w * w)
          BY <1>3, <2>1
        <4> QED BY <4>3, <4>4
      <3>6. Agree(p, U, (a1 + a1) * (w * w))
        <4> HIDE DEF V, w
        <4>1. Agree(p, 2, 2)
          BY <1>1, AgreeEquivalence
        <4>2. Agree(p, U, 2 * (a1 * (w * w)))
          BY <1>1, <3>5, <4>1, AgreeOperations
        <4>3. w * w \in Int
          BY <2>2
        <4>4. 2 * (a1 * (w * w)) = (a1 + a1) * (w * w)
          BY <2>1, <4>3
        <4> QED BY <4>2, <4>4
      <3>7. Agree(p, T, a2 * (w * (w * w)))
        <4> DEFINE q == (a2 * ddd) * (a2 * ddd)
        <4>1. Agree(p, (y * y) * (y * y), q * q)
          <5> HIDE DEF q
          <5>1. Agree(p, y * y, q)
            BY <3>4 DEF q
          <5> QED BY <1>1, <5>1, AgreeOperations
        <4>2. Agree(p, 8, 8)
          BY <1>1, AgreeEquivalence
        <4>3. Agree(p, T, 8 * (q * q))
          <5> HIDE DEF q
          <5> QED BY <1>1, <4>1, <4>2, AgreeOperations
        <4>4. 8 * (q * q) = a2 * (w * (w * w))
          BY <1>3, <2>1
        <4> QED BY <4>3, <4>4
      <3>8. Agree(p, M * M - U, S[1] * (w * w)) /\ Agree(p, M * (V - (M * M - U)) - T, S[2] * (w * (w * w)))
        <4> HIDE DEF M, U, V, T, w, S, a1, a2
        <4> QED BY <1>1, <2>1, <2>2, <3>2, <3>3, <3>5, <3>6, <3>7, ScaledThird
      <3>9. ~Agree(p, w, 0)
        <4> HIDE DEF dd, a2
        <4> QED BY <1>1, <2>2, <2>3, <2>6, ZeroProducts
      <3>10. Denotes(p, K[1], M * M - U) /\ Denotes(p, K[2], M * (V - (M * M - U)) - T) /\ Denotes(p, K[3], e)
        BY <1>2, DoubleDenotes DEF DoubleX, DoubleY
      <3>11. Denotes(p, K[3], w)
        <4> HIDE DEF e, w
        <4> QED BY <1>1, <2>4, <3>10, DenotesValue
      <3> HIDE DEF K, M, U, V, T, w, S
      <3>12. Stands(curve, K, S)
        BY <3>2, <3>8, <3>9, <3>10, <3>11 DEF Stands
      <3> QED BY <3>12 DEF K, S
    <2> QED BY <2>5, <2>6
  <1> QED BY <1>4, <1>5

\* A multiple of something other than zero vanishes when its factor does.
LEMMA ScaledZero ==
    ASSUME NEW m, Prime(m), NEW h, NEW e \in Int, NEW u \in Int, Agree(m, h, e * u), ~Agree(m, u, 0)
    PROVE  Agree(m, h, 0) <=> Agree(m, e, 0)
  <1>1. m \in Nat \ {0}
    <2>1. 1 \in Nat \ {0}
      OBVIOUS
    <2> QED BY <2>1, FermatInverse
  <1>2. Agree(m, h, 0) <=> Agree(m, e * u, 0)
    BY <1>1, AgreeEquivalence
  <1> QED BY <1>2, ZeroProducts

\* Reduced numbers differ by zero when they are equal.
LEMMA ZeroDifference ==
    ASSUME NEW m \in Nat \ {0}, NEW a \in 0 .. m - 1, NEW b \in 0 .. m - 1
    PROVE  Agree(m, b - a, 0) <=> a = b
  <1>1. a \in Int /\ b \in Int
    OBVIOUS
  <1>2. ASSUME Agree(m, b - a, 0) PROVE a = b
    <2> DEFINE e == b - a
    <2>1. Agree(m, a, a)
      BY <1>1, AgreeEquivalence
    <2>2. Agree(m, e + a, 0 + a)
      <3> HIDE DEF e
      <3>1. Agree(m, e, 0)
        BY <1>2 DEF e
      <3> QED BY <2>1, <3>1, AgreeOperations
    <2>3. e + a = b /\ 0 + a = a
      BY <1>1
    <2>4. Agree(m, b, a)
      BY <2>2, <2>3
    <2> QED BY <2>4, AgreeRemainder
  <1>3. ASSUME a = b PROVE Agree(m, b - a, 0)
    <2>1. b - a = 0 /\ Agree(m, 0, 0)
      BY <1>1, <1>3, AgreeEquivalence
    <2> QED BY <2>1
  <1> QED BY <1>2, <1>3

\* The regular formula: its flags compare the coordinates, and its point stands for the sum
\* of points that differ in x.
LEMMA RegularStands ==
    ASSUME NEW curve \in Curves, NEW J, NEW A, Stands(curve, J, A), A # <<>>,
           NEW q, NEW B, AffinePoint(curve, B),
           Denotes(curve.p, q[1], B[1]), Denotes(curve.p, q[2], B[2])
    PROVE  LET G == AddRegular(curve, J, q)
           IN  /\ AffinePoint(curve, A)
               /\ G.same_x = IF A[1] = B[1] THEN 1 ELSE 0
               /\ G.same_y = IF A[2] = B[2] THEN 1 ELSE 0
               /\ A[1] # B[1] => Stands(curve, G.point, AffineAdd(curve, A, B))
  <1> DEFINE p == curve.p  G == AddRegular(curve, J, q)  a1 == A[1]  a2 == A[2]  b1 == B[1]  b2 == B[2]
  <1>1. p \in Nat \ {0} /\ Prime(p)
    BY CurveModuli DEF Prime
  <1>2. PICK x, y, d : /\ Denotes(p, J[1], x) /\ Denotes(p, J[2], y) /\ Denotes(p, J[3], d)
                       /\ AffinePoint(curve, A) /\ ~Agree(p, d, 0)
                       /\ Agree(p, x, a1 * (d * d)) /\ Agree(p, y, a2 * (d * (d * d)))
    BY DEF Stands
  <1> DEFINE dd == d * d  ddd == d * dd  h == b1 * dd - x  s == (b2 * d) * dd - y  ff == 4 * (h * h)
             j == h * ff  v == x * ff  e == b1 - a1  f == b2 - a2  w == 2 * (e * ddd)
             x3 == ((2 * s) * (2 * s) - j) - 2 * v
  <1>3. /\ x \in Int /\ y \in Int /\ d \in Int /\ dd \in Int /\ ddd \in Int
        /\ a1 \in 0 .. p - 1 /\ a2 \in 0 .. p - 1 /\ b1 \in 0 .. p - 1 /\ b2 \in 0 .. p - 1
        /\ a1 \in Int /\ a2 \in Int /\ b1 \in Int /\ b2 \in Int /\ e \in Int /\ f \in Int
    <2>1. x \in Int /\ y \in Int /\ d \in Int
      BY <1>1, <1>2, DenotesValue
    <2>2. dd \in Int
      BY <2>1
    <2>3. ddd \in Int
      BY <2>1, <2>2
    <2>4. /\ a1 \in 0 .. p - 1 /\ a2 \in 0 .. p - 1 /\ b1 \in 0 .. p - 1 /\ b2 \in 0 .. p - 1
          /\ a1 \in Int /\ a2 \in Int /\ b1 \in Int /\ b2 \in Int
      BY <1>2, AffineCoordinates
    <2>5. e \in Int /\ f \in Int
      BY <2>4
    <2> QED BY <2>1, <2>2, <2>3, <2>4, <2>5
  <1>4. /\ Denotes(p, G.point[1], x3)
        /\ Denotes(p, G.point[2], (2 * s) * (v - x3) - 2 * (y * j))
        /\ Denotes(p, G.point[3], 2 * (d * h))
        /\ G.same_x = IF Agree(p, h, 0) THEN 1 ELSE 0
        /\ G.same_y = IF Agree(p, s, 0) THEN 1 ELSE 0
    <2>1. Denotes(p, q[1], b1) /\ Denotes(p, q[2], b2)
      OBVIOUS
    <2> HIDE DEF b1, b2
    <2> QED BY <1>2, <2>1, RegularDenotes
  <1>5. ~Agree(p, dd, 0) /\ ~Agree(p, ddd, 0)
    <2>1. ~Agree(p, dd, 0)
      BY <1>1, <1>2, <1>3, ZeroProducts
    <2> HIDE DEF dd
    <2> QED BY <1>1, <1>2, <1>3, <2>1, ZeroProducts
  <1>6. Agree(p, h, e * dd) /\ Agree(p, s, f * ddd) /\ h \in Int /\ s \in Int
    <2>1. Agree(p, b1 * dd, b1 * dd) /\ Agree(p, (b2 * d) * dd, (b2 * d) * dd)
      <3>1. b1 * dd \in Int /\ (b2 * d) * dd \in Int
        BY <1>3
      <3> QED BY <1>1, <3>1, AgreeEquivalence
    <2>2. Agree(p, h, b1 * dd - a1 * dd) /\ Agree(p, s, (b2 * d) * dd - a2 * ddd)
      <3> HIDE DEF a1, a2, b1, b2
      <3> QED BY <1>1, <1>2, <2>1, AgreeOperations
    <2>3. b1 * dd - a1 * dd = e * dd /\ (b2 * d) * dd - a2 * ddd = f * ddd
      <3> HIDE DEF a1, a2, b1, b2, dd
      <3>1. b1 * dd - a1 * dd = e * dd
        BY <1>3
      <3>2. (b2 * d) * dd - a2 * ddd = f * ddd
        BY <1>3
      <3> QED BY <3>1, <3>2
    <2>4. Agree(p, h, e * dd) /\ Agree(p, s, f * ddd)
      BY <2>2, <2>3
    <2> HIDE DEF h, s
    <2> QED BY <2>4 DEF Agree
  <1>7. (Agree(p, h, 0) <=> a1 = b1) /\ (Agree(p, s, 0) <=> a2 = b2)
    <2>1. (Agree(p, h, 0) <=> Agree(p, e, 0)) /\ (Agree(p, s, 0) <=> Agree(p, f, 0))
      <3> HIDE DEF h, s, e, f, dd, ddd
      <3> QED BY <1>1, <1>3, <1>5, <1>6, ScaledZero
    <2>2. (Agree(p, e, 0) <=> a1 = b1) /\ (Agree(p, f, 0) <=> a2 = b2)
      <3> HIDE DEF a1, a2, b1, b2
      <3> QED BY <1>1, <1>3, ZeroDifference DEF e, f
    <2> QED BY <2>1, <2>2
  <1>8. ASSUME a1 # b1 PROVE Stands(curve, G.point, AffineAdd(curve, A, B))
    <2> DEFINE S == AffineAdd(curve, A, B)  M == 2 * s  U == j + 2 * v  T == 2 * (y * j)
    <2>1. PICK k \in Int : ThirdPoint(curve, S, k, A, B) /\ Agree(p, k * e, f)
      BY <1>2, <1>8, ChordSum
    <2>2. /\ AffinePoint(curve, S) /\ S[1] \in Int /\ S[2] \in Int /\ S # <<>>
          /\ Agree(p, S[1], (k * k - a1) - b1) /\ Agree(p, S[2], k * (a1 - S[1]) - a2)
      BY <2>1, AffineCoordinates DEF ThirdPoint
    <2>3. w \in Int /\ Agree(p, 2, 2) /\ Agree(p, 4, 4)
      <3>1. e * ddd \in Int
        BY <1>3
      <3> HIDE DEF e, ddd
      <3>2. w \in Int
        BY <3>1
      <3> QED BY <1>1, <3>2, AgreeEquivalence
    <2>4. Agree(p, 2 * (d * h), w)
      <3>1. Agree(p, d, d)
        BY <1>1, <1>3, AgreeEquivalence
      <3>2. Agree(p, d * h, d * (e * dd))
        <4> HIDE DEF h, e, dd
        <4> QED BY <1>1, <1>6, <3>1, AgreeOperations
      <3>3. Agree(p, 2 * (d * h), 2 * (d * (e * dd)))
        <4> HIDE DEF h, e, dd
        <4> QED BY <1>1, <2>3, <3>2, AgreeOperations
      <3>4. 2 * (d * (e * dd)) = w
        BY <1>3
      <3> QED BY <3>3, <3>4
    <2>5. ~Agree(p, w, 0)
      <3>1. ~Agree(p, h, 0)
        BY <1>7, <1>8
      <3>2. ~Agree(p, e, 0)
        <4> HIDE DEF h, e, dd
        <4> QED BY <1>1, <1>3, <1>5, <1>6, <3>1, ScaledZero
      <3>3. ~Agree(p, e * ddd, 0)
        <4> HIDE DEF e, ddd
        <4> QED BY <1>1, <1>3, <1>5, <3>2, ZeroProducts
      <3>4. ~Agree(p, 2, 0)
        <4>1. p \in Nat \ {0, 1, 2}
          BY CurveModuli
        <4>2. 2 \in 0 .. p - 1 /\ 0 \in 0 .. p - 1 /\ 2 # 0
          BY <4>1
        <4> QED BY <1>1, <4>2, AgreeRemainder
      <3>5. e * ddd \in Int
        BY <1>3
      <3> HIDE DEF e, ddd
      <3> QED BY <1>1, <3>3, <3>4, <3>5, ZeroProducts
    <2>6. Agree(p, M, k * w)
      <3>1. Agree(p, f, k * e) /\ Agree(p, ddd, ddd)
        <4> HIDE DEF f, e, ddd
        <4> QED BY <1>1, <1>3, <2>1, AgreeEquivalence DEF f, e
      <3>2. Agree(p, f * ddd, (k * e) * ddd)
        <4> HIDE DEF f, e, ddd
        <4> QED BY <1>1, <3>1, AgreeOperations
      <3>3. Agree(p, s, (k * e) * ddd)
        <4> HIDE DEF s, f, e, ddd
        <4> QED BY <1>1, <1>6, <3>2, AgreeEquivalence
      <3>4. Agree(p, M, 2 * ((k * e) * ddd))
        <4> HIDE DEF s, e, ddd
        <4> QED BY <1>1, <2>3, <3>3, AgreeOperations
      <3>5. 2 * ((k * e) * ddd) = k * w
        BY <1>3
      <3> QED BY <3>4, <3>5
    <2>8. Agree(p, ff, 4 * ((e * dd) * (e * dd))) /\ Agree(p, j, e * (w * w)) /\ Agree(p, v, a1 * (w * w))
      <3>1. Agree(p, h * h, (e * dd) * (e * dd))
        <4> HIDE DEF h, e, dd
        <4> QED BY <1>1, <1>6, AgreeOperations
      <3>2. Agree(p, ff, 4 * ((e * dd) * (e * dd)))
        <4> HIDE DEF h, e, dd
        <4> QED BY <1>1, <2>3, <3>1, AgreeOperations
      <3>3. /\ Agree(p, j, (e * dd) * (4 * ((e * dd) * (e * dd))))
            /\ Agree(p, v, (a1 * dd) * (4 * ((e * dd) * (e * dd))))
        <4>1. Agree(p, x, a1 * dd)
          BY <1>2
        <4> HIDE DEF ff, h, e, dd, a1
        <4> QED BY <1>1, <1>6, <3>2, <4>1, AgreeOperations
      <3>4. /\ (e * dd) * (4 * ((e * dd) * (e * dd))) = e * (w * w)
            /\ (a1 * dd) * (4 * ((e * dd) * (e * dd))) = a1 * (w * w)
        <4> HIDE DEF e, a1
        <4> QED BY <1>3
      <3> QED BY <3>2, <3>3, <3>4
    <2>9. Agree(p, U, (a1 + b1) * (w * w)) /\ Agree(p, T, a2 * (w * (w * w)))
      <3>1. Agree(p, 2 * v, 2 * (a1 * (w * w))) /\ Agree(p, y * j, (a2 * ddd) * (e * (w * w)))
        <4>1. Agree(p, y, a2 * ddd)
          BY <1>2
        <4> HIDE DEF v, j, w, e, ddd, a1, a2
        <4> QED BY <1>1, <2>3, <2>8, <4>1, AgreeOperations
      <3>2. /\ Agree(p, U, e * (w * w) + 2 * (a1 * (w * w)))
            /\ Agree(p, T, 2 * ((a2 * ddd) * (e * (w * w))))
        <4> HIDE DEF v, j, w, e, ddd, a1, a2
        <4> QED BY <1>1, <2>3, <2>8, <3>1, AgreeOperations
      <3>3. e * (w * w) + 2 * (a1 * (w * w)) = (a1 + b1) * (w * w)
        <4>1. w * w \in Int
          <5> HIDE DEF w
          <5> QED BY <2>3
        <4> DEFINE ww == w * w
        <4>2. ww \in Int
          BY <4>1
        <4> HIDE DEF ww
        <4>3. e * ww + 2 * (a1 * ww) = (a1 + b1) * ww
          BY <1>3, <4>2, SMTT(40)
        <4> QED BY <4>3 DEF ww
      <3>4. 2 * ((a2 * ddd) * (e * (w * w))) = a2 * (w * (w * w))
        <4>1. w * w \in Int
          <5> HIDE DEF w
          <5> QED BY <2>3
        <4> DEFINE ww == w * w
        <4>2. ww \in Int
          BY <4>1
        <4> HIDE DEF ww, e, ddd, a2
        <4>3. 2 * ((a2 * ddd) * (e * ww)) = a2 * (w * ww)
          BY <1>3, <4>2
        <4> QED BY <4>3 DEF ww
      <3> QED BY <3>2, <3>3, <3>4
    <2>10. Agree(p, M * M - U, S[1] * (w * w)) /\ Agree(p, M * (v - (M * M - U)) - T, S[2] * (w * (w * w)))
      <3> DEFINE s1 == S[1]  s2 == S[2]
      <3>1. s1 \in Int /\ s2 \in Int /\ Agree(p, s1, (k * k - a1) - b1) /\ Agree(p, s2, k * (a1 - s1) - a2)
        BY <2>2
      <3>2. Agree(p, v, a1 * (w * w))
        BY <2>8
      <3> HIDE DEF M, U, v, T, w, S, a1, a2, b1, s1, s2
      <3>3. Agree(p, M * M - U, s1 * (w * w)) /\ Agree(p, M * (v - (M * M - U)) - T, s2 * (w * (w * w)))
        BY <1>1, <1>3, <2>3, <2>6, <2>9, <3>1, <3>2, ScaledThird
      <3> QED BY <3>3 DEF s1, s2
    <2>11. x3 = M * M - U
      <3>1. j \in Int /\ v \in Int
        <4> HIDE DEF j, v
        <4> QED BY <2>8 DEF Agree
      <3> HIDE DEF j, v, s
      <3>2. s \in Int /\ M * M \in Int
        BY <1>6
      <3> HIDE DEF M
      <3>3. (M * M - j) - 2 * v = M * M - (j + 2 * v)
        BY <3>1, <3>2
      <3> QED BY <3>3 DEF M
    <2> DEFINE K == G.point
    <2>12. Denotes(p, K[1], M * M - U) /\ Denotes(p, K[2], M * (v - (M * M - U)) - T) /\ Denotes(p, K[3], w)
      <3>1. Denotes(p, K[1], x3) /\ Denotes(p, K[2], M * (v - x3) - T) /\ Denotes(p, K[3], 2 * (d * h))
        BY <1>4
      <3> HIDE DEF K, x3, M, U, T, v, h, w
      <3> QED BY <1>1, <2>4, <2>11, <3>1, DenotesValue
    <2> HIDE DEF K, M, U, v, T, w, S
    <2>13. Stands(curve, K, S)
      BY <2>2, <2>5, <2>10, <2>12 DEF Stands
    <2> QED BY <2>13 DEF K, S
  <1> HIDE DEF h, s
  <1> QED BY <1>2, <1>4, <1>7, <1>8

---------------------------------------------------------------------------
\* Points as vectors, and one bit of the loop

\* Points as the helpers keep them: three coordinates, or two.
Vectors(D) == [D -> Limbs(LIMBS)]
Points == Vectors(1 .. 3)
Pairs == Vectors(1 .. 2)

\* Limb vectors make points.
LEMMA PointOf ==
    ASSUME NEW x \in Limbs(LIMBS), NEW y \in Limbs(LIMBS), NEW d \in Limbs(LIMBS)
    PROVE  <<x, y, d>> \in Points /\ <<x, y>> \in Pairs
  BY DEF Points, Pairs, Vectors

\* A selection between points is one of them.
LEMMA SelectsPoint ==
    ASSUME NEW D, NEW x \in Vectors(D), NEW y \in Vectors(D), NEW bit \in {0, 1}
    PROVE  SelectPoint(bit, x, y) = IF bit = 1 THEN x ELSE y
  <1> DEFINE f == IF bit = 1 THEN x ELSE y
  <1>1. f \in [D -> Limbs(LIMBS)] /\ DOMAIN x = D
    BY DEF Vectors
  <1>2. ASSUME NEW k \in D PROVE SelectLimbs(bit, x[k], y[k]) = f[k]
    <2>1. x[k] \in Limbs(LIMBS) /\ y[k] \in Limbs(LIMBS)
      BY DEF Vectors
    <2>2. SelectLimbs(bit, x[k], y[k]) = IF bit = 1 THEN x[k] ELSE y[k]
      BY <2>1, SelectsLimbs
    <2> QED BY <2>2
  <1>3. SelectPoint(bit, x, y) = [k \in D |-> SelectLimbs(bit, x[k], y[k])]
    BY <1>1 DEF SelectPoint
  <1>4. [k \in D |-> SelectLimbs(bit, x[k], y[k])] = [k \in D |-> f[k]]
    BY <1>2
  <1>5. f = [k \in D |-> f[k]]
    <2> HIDE DEF f
    <2> QED BY <1>1
  <1> QED BY <1>3, <1>4, <1>5

\* In particular of three coordinates, and of two.
LEMMA SelectsPoints ==
    ASSUME NEW bit \in {0, 1}
    PROVE  /\ \A x \in Points, y \in Points : SelectPoint(bit, x, y) = IF bit = 1 THEN x ELSE y
           /\ \A x \in Pairs, y \in Pairs : SelectPoint(bit, x, y) = IF bit = 1 THEN x ELSE y
  <1>2. ASSUME NEW x \in Points, NEW y \in Points
        PROVE  SelectPoint(bit, x, y) = IF bit = 1 THEN x ELSE y
    BY SelectsPoint DEF Points, Pairs
  <1>3. ASSUME NEW x \in Pairs, NEW y \in Pairs
        PROVE  SelectPoint(bit, x, y) = IF bit = 1 THEN x ELSE y
    BY SelectsPoint DEF Points, Pairs
  <1> QED BY <1>2, <1>3

\* Products of bits, as felts.
LEMMA BitProducts ==
    /\ NotBit(0) = 1 /\ NotBit(1) = 0
    /\ \A i \in {0, 1}, j \in {0, 1} : Felt(i * j) = IF i = 1 /\ j = 1 THEN 1 ELSE 0
  <1>1. Felt(0) = 0 /\ Felt(1) = 1
    BY RoomForTwo, RoomInFelt, BaseIsPositive, SmallFelt
  <1>2. NotBit(0) = 1 /\ NotBit(1) = 0
    <2>1. 1 - 0 = 1 /\ 1 - 1 = 0
      OBVIOUS
    <2> QED BY <1>1, <2>1 DEF NotBit
  <1>3. 0 * 0 = 0 /\ 0 * 1 = 0 /\ 1 * 0 = 0 /\ 1 * 1 = 1
    OBVIOUS
  <1>4. Felt(0 * 0) = 0 /\ Felt(0 * 1) = 0 /\ Felt(1 * 0) = 0 /\ Felt(1 * 1) = 1
    BY <1>1, <1>3
  <1> QED BY <1>2, <1>4

\* The constants.
LEMMA SmallConstants ==
    /\ Zero \in Limbs(LIMBS) /\ Value(Zero) = 0 /\ One \in Limbs(LIMBS) /\ Value(One) = 1
    /\ One # Zero /\ R > 3 /\ R \in Nat
    /\ \A x \in Limbs(LIMBS) : x = Zero <=> Value(x) = 0
    /\ \A x \in Limbs(LIMBS) : EqBool(x, Zero) = IF Value(x) = 0 THEN 1 ELSE 0
    /\ Infinity \in Points /\ Infinity[1] = Zero /\ Infinity[2] = Zero /\ Infinity[3] = Zero
  <1>1. R \in Nat /\ R > 3
    <2>1. LIMBS \in Nat \ {0} /\ LimbBase \in Nat \ {0} /\ LimbBase >= 3 /\ LIMBS - 1 \in Nat
          /\ LIMBS = (LIMBS - 1) + 1
      BY BaseIsPositive
    <2>2. LimbBase > 3
      <3>1. PICK k \in 1 .. LimbBase : LimbBase = Power(2, k)
        BY ByteAssumption
      <3>2. k - 1 \in Nat /\ k = (k - 1) + 1 /\ 2 \in Nat \ {0}
        BY <2>1
      <3>3. Power(2, k) = 2 * Power(2, k - 1) /\ Power(2, k - 1) \in Nat
        BY <3>2, PowerStep, PowerIsPositive
      <3>4. LimbBase # 3
        BY <3>1, <3>3
      <3> QED BY <2>1, <3>4
    <2>3. R = LimbBase * Power(LimbBase, LIMBS - 1) /\ Power(LimbBase, LIMBS - 1) \in Nat \ {0}
      BY <2>1, PowerStep, PowerIsPositive DEF R
    <2> DEFINE q == Power(LimbBase, LIMBS - 1)
    <2>4. q \in Nat /\ q >= 1
      BY <2>3
    <2> HIDE DEF q
    <2>5. LimbBase * q >= LimbBase /\ LimbBase * q \in Nat
      BY <2>1, <2>4
    <2>6. R = LimbBase * q
      BY <2>3 DEF q
    <2> QED BY <2>1, <2>2, <2>5, <2>6
  <1>2. 0 \in 0 .. R - 1 /\ 1 \in 0 .. R - 1 /\ LIMBS \in Nat
    BY <1>1, BaseIsPositive
  <1>3. Zero \in Limbs(LIMBS) /\ Value(Zero) = 0 /\ One \in Limbs(LIMBS) /\ Value(One) = 1
    BY <1>2, ValueOfConst DEF Zero, One
  <1>4. \A x \in Limbs(LIMBS) : x = Zero <=> Value(x) = 0
    BY <1>2, <1>3, ValueDetermines
  <1>5. ASSUME NEW x \in Limbs(LIMBS) PROVE EqBool(x, Zero) = IF Value(x) = 0 THEN 1 ELSE 0
    BY <1>3, <1>4, EqBoolDecides
  <1>6. One # Zero
    BY <1>3
  <1>7. Infinity \in Points /\ Infinity[1] = Zero /\ Infinity[2] = Zero /\ Infinity[3] = Zero
    BY <1>3, PointOf DEF Infinity
  <1> QED BY <1>1, <1>3, <1>4, <1>5, <1>6, <1>7

\* Every point operation ends with limb vectors, and its flags are bits.
LEMMA DoubleClosed ==
    ASSUME NEW curve \in Curves, NEW J \in Points
    PROVE  Double(curve, J) \in Points
  <1>1. J[1] \in Limbs(LIMBS) /\ J[2] \in Limbs(LIMBS) /\ J[3] \in Limbs(LIMBS)
    BY DEF Points, Vectors
  <1>2. \A l \in Limbs(LIMBS), r \in Limbs(LIMBS) :
          /\ MulP(curve, l, r) \in Limbs(LIMBS) /\ AddP(curve, l, r) \in Limbs(LIMBS)
          /\ SubP(curve, l, r) \in Limbs(LIMBS) /\ SquareP(curve, l) \in Limbs(LIMBS)
          /\ DblP(curve, l) \in Limbs(LIMBS)
    BY CurveClosed DEF SquareP, DblP, AddP
  <1>3. ASSUME NEW m \in Limbs(LIMBS), NEW s \in Limbs(LIMBS), NEW t \in Limbs(LIMBS),
               NEW z3 \in Limbs(LIMBS)
        PROVE  DoubledPoint(curve, m, s, t, z3) \in Points
    BY <1>2, PointOf DEF DoubledPoint
  <1>4. DoubleAZero(curve, J) \in Points
    BY <1>1, <1>2, <1>3 DEF DoubleAZero
  <1>5. DoubleANeg3(curve, J) \in Points
    BY <1>1, <1>2, <1>3 DEF DoubleANeg3
  <1> QED BY <1>4, <1>5 DEF Double

\* So is the regular addition, with two flags.
LEMMA RegularClosed ==
    ASSUME NEW curve \in Curves, NEW J \in Points, NEW q \in Pairs
    PROVE  /\ AddRegular(curve, J, q).point \in Points
           /\ AddRegular(curve, J, q).same_x \in {0, 1} /\ AddRegular(curve, J, q).same_y \in {0, 1}
  <1>1. /\ J[1] \in Limbs(LIMBS) /\ J[2] \in Limbs(LIMBS) /\ J[3] \in Limbs(LIMBS)
        /\ q[1] \in Limbs(LIMBS) /\ q[2] \in Limbs(LIMBS)
    BY DEF Points, Pairs, Vectors
  <1>2. \A l \in Limbs(LIMBS), r \in Limbs(LIMBS) :
          /\ MulP(curve, l, r) \in Limbs(LIMBS) /\ AddP(curve, l, r) \in Limbs(LIMBS)
          /\ SubP(curve, l, r) \in Limbs(LIMBS) /\ SquareP(curve, l) \in Limbs(LIMBS)
          /\ DblP(curve, l) \in Limbs(LIMBS)
    BY CurveClosed DEF SquareP, DblP, AddP
  <1>3. ASSUME NEW y1 \in Limbs(LIMBS), NEW r \in Limbs(LIMBS), NEW v \in Limbs(LIMBS),
               NEW j \in Limbs(LIMBS), NEW z3 \in Limbs(LIMBS)
        PROVE  RegularPoint(curve, y1, r, v, j, z3) \in Points
    BY <1>2, PointOf DEF RegularPoint
  <1>4. ASSUME NEW dd \in Limbs(LIMBS), NEW h \in Limbs(LIMBS), NEW hh \in Limbs(LIMBS),
               NEW i \in Limbs(LIMBS), NEW s \in Limbs(LIMBS)
        PROVE  LET G == RegularFrom(curve, J, dd, h, hh, i, s)
               IN  G.point \in Points /\ G.same_x \in {0, 1} /\ G.same_y \in {0, 1}
    <2> DEFINE G == RegularFrom(curve, J, dd, h, hh, i, s)
    <2>1. G.point \in Points
      BY <1>1, <1>2, <1>3 DEF RegularFrom
    <2>2. G.same_x \in {0, 1} /\ G.same_y \in {0, 1}
      BY SmallConstants, EqBoolDecides DEF RegularFrom
    <2> QED BY <2>1, <2>2
  <1> QED BY <1>1, <1>2, <1>4 DEF AddRegular

\* The case that the selections of the complete addition pick.
LEMMA CompleteSelects ==
    ASSUME NEW curve \in Curves, NEW J \in Points, NEW q \in Pairs, NEW bit \in {0, 1}
    PROVE  LET G == AddRegular(curve, J, q)
               S == AddComplete(curve, J, q, bit)
           IN  /\ S \in Points
               /\ S = IF Value(J[3]) = 0 THEN (IF bit = 1 THEN Infinity ELSE <<q[1], q[2], One>>)
                      ELSE IF bit = 1 THEN J
                      ELSE IF G.same_x = 0 THEN G.point
                      ELSE IF G.same_y = 1 THEN Double(curve, J)
                      ELSE Infinity
  <1> DEFINE G == AddRegular(curve, J, q)
             both == Felt(G.same_x * G.same_y)  one == Felt(G.same_x * NotBit(G.same_y))
             inf == EqBool(J[3], Zero)
             q1 == <<q[1], q[2], One>>  D == Double(curve, J)
             s1 == SelectPoint(one, Infinity, G.point)
             s2 == SelectPoint(both, D, s1)
             s3 == SelectPoint(bit, J, s2)
             s4 == SelectPoint(bit, Infinity, q1)
             s5 == SelectPoint(inf, s4, s3)
  <1>1. /\ G.point \in Points /\ G.same_x \in {0, 1} /\ G.same_y \in {0, 1} /\ D \in Points
        /\ Infinity \in Points
    BY RegularClosed, DoubleClosed, SmallConstants
  <1>2. q1 \in Points
    BY PointOf, SmallConstants DEF Pairs, Vectors
  <1>3. J[3] \in Limbs(LIMBS) /\ inf \in {0, 1} /\ (inf = 1 <=> Value(J[3]) = 0)
    <2>1. J[3] \in Limbs(LIMBS)
      BY DEF Points, Vectors
    <2> QED BY <2>1, SmallConstants
  <1>4. /\ both \in {0, 1} /\ one \in {0, 1}
        /\ both = 1 <=> (G.same_x = 1 /\ G.same_y = 1)
        /\ one = 1 <=> (G.same_x = 1 /\ G.same_y = 0)
    <2> HIDE DEF G
    <2>1. NotBit(G.same_y) \in {0, 1} /\ (NotBit(G.same_y) = 1 <=> G.same_y = 0)
      BY <1>1, BitProducts
    <2>2. both = IF G.same_x = 1 /\ G.same_y = 1 THEN 1 ELSE 0
      BY <1>1, BitProducts
    <2>3. one = IF G.same_x = 1 /\ NotBit(G.same_y) = 1 THEN 1 ELSE 0
      BY <1>1, <2>1, BitProducts
    <2> HIDE DEF both, one
    <2> QED BY <2>1, <2>2, <2>3
  <1> HIDE DEF G, both, one, inf, q1, D
  <1>5. s1 = IF one = 1 THEN Infinity ELSE G.point
    BY <1>1, <1>4, SelectsPoints
  <1>6. s1 \in Points
    BY <1>1, <1>5
  <1> HIDE DEF s1
  <1>7. s2 = IF both = 1 THEN D ELSE s1
    BY <1>1, <1>4, <1>6, SelectsPoints
  <1>8. s2 \in Points
    BY <1>1, <1>6, <1>7
  <1> HIDE DEF s2
  <1>9. s3 = IF bit = 1 THEN J ELSE s2
    BY <1>8, SelectsPoints
  <1>10. s3 \in Points
    BY <1>8, <1>9
  <1>11. s4 = IF bit = 1 THEN Infinity ELSE q1
    BY <1>1, <1>2, SelectsPoints
  <1>12. s4 \in Points
    BY <1>1, <1>2, <1>11
  <1> HIDE DEF s3, s4
  <1>13. s5 = IF inf = 1 THEN s4 ELSE s3
    BY <1>3, <1>10, <1>12, SelectsPoints
  <1>14. s5 \in Points
    BY <1>10, <1>12, <1>13
  <1>15. AddComplete(curve, J, q, bit) = s5
    BY DEF AddComplete, CompleteCases, s1, s2, s3, s4, G, both, one, inf, q1, D
  <1> HIDE DEF s5
  <1>16. s5 = IF Value(J[3]) = 0 THEN (IF bit = 1 THEN Infinity ELSE q1)
              ELSE IF bit = 1 THEN J
              ELSE IF G.same_x = 0 THEN G.point
              ELSE IF G.same_y = 1 THEN D
              ELSE Infinity
    BY <1>1, <1>3, <1>4, <1>5, <1>7, <1>9, <1>11, <1>13
  <1> QED BY <1>14, <1>15, <1>16 DEF G, q1, D

\* A point of the curve, and its equation.
LEMMA CurvePointOf ==
    ASSUME NEW curve \in Curves, NEW A \in CurvePoints(curve)
    PROVE  AffinePoint(curve, A) /\ Cubic(curve, A[1], A[2]) /\ A # <<>>
  <1> DEFINE p == curve.p  x == A[1]  y == A[2]  t == (x * x * x + curve.a * x) + curve.b
  <1>1. AffinePoint(curve, A) /\ (y * y - (x * x * x + curve.a * x + curve.b)) % p = 0
    BY DEF CurvePoints, AffinePoint
  <1>2. /\ p \in Nat \ {0} /\ curve.a \in Int /\ curve.b \in Int /\ x \in Int /\ y \in Int
        /\ A # <<>>
    BY <1>1, CurveModuli, AffineCoordinates
  <1>3. t \in Int /\ y * y \in Int
    <2>1. x * x \in Int /\ curve.a * x \in Int /\ y * y \in Int
      BY <1>2
    <2>2. x * x * x \in Int
      BY <1>2, <2>1
    <2> DEFINE u == x * x * x  w == curve.a * x
    <2>3. u \in Int /\ w \in Int
      BY <2>1, <2>2
    <2> HIDE DEF u, w
    <2>4. (u + w) + curve.b \in Int
      BY <1>2, <2>3
    <2> QED BY <2>1, <2>4 DEF u, w
  <1> DEFINE v == y * y
  <1>4. (v - t) % p = 0 /\ v \in Int
    BY <1>1, <1>3
  <1> HIDE DEF t, v, p
  <1>5. Agree(p, v - t, 0)
    <2>1. Agree(p, v - t, (v - t) % p)
      <3>1. v - t \in Int
        BY <1>3, <1>4
      <3> QED BY <1>2, <3>1, AgreeRemainder
    <2> QED BY <1>4, <2>1
  <1>6. Agree(p, t, t)
    BY <1>2, <1>3, AgreeEquivalence
  <1>7. Agree(p, (v - t) + t, 0 + t)
    BY <1>2, <1>5, <1>6, AgreeOperations
  <1>8. (v - t) + t = v /\ 0 + t = t
    BY <1>3, <1>4
  <1>9. Agree(p, v, t)
    BY <1>7, <1>8
  <1> QED BY <1>1, <1>2, <1>9 DEF Cubic, v, t, p

\* Points of the curve with the same x are equal or opposite.
LEMMA OppositePoints ==
    ASSUME NEW curve \in Curves, NEW A \in CurvePoints(curve), NEW B \in CurvePoints(curve),
           A[1] = B[1], A[2] # B[2]
    PROVE  AffineAdd(curve, A, B) = <<>>
  <1> DEFINE p == curve.p  x == A[1]  y == A[2]  v == B[2]  t == (x * x * x + curve.a * x) + curve.b
             e == y - v  f == y + v
  <1>1. p \in Nat \ {0} /\ Prime(p) /\ A # <<>> /\ B # <<>>
    BY CurveModuli, CurvePointOf DEF Prime
  <1>2. /\ x \in Int /\ y \in Int /\ v \in Int /\ y \in 0 .. p - 1 /\ v \in 0 .. p - 1
        /\ Agree(p, y * y, t) /\ Agree(p, v * v, t)
    BY CurvePointOf, AffineCoordinates DEF Cubic
  <1>3. e \in Int /\ f \in Int
    BY <1>2
  <1>4. ~Agree(p, e, 0)
    <2> HIDE DEF p, y, v
    <2>1. v # y
      BY DEF y, v
    <2> QED BY <1>1, <1>2, <2>1, ZeroDifference DEF e
  <1>5. Agree(p, e * f, 0)
    <2>1. Agree(p, y * y, v * v) /\ Agree(p, v * v, v * v)
      <3> HIDE DEF t
      <3> QED BY <1>1, <1>2, AgreeEquivalence
    <2>2. Agree(p, y * y - v * v, v * v - v * v)
      BY <1>1, <2>1, AgreeOperations
    <2>3. y * y - v * v = e * f /\ v * v - v * v = 0
      BY <1>2
    <2> QED BY <2>2, <2>3
  <1>6. Agree(p, f, 0)
    <2> HIDE DEF e, f
    <2> QED BY <1>1, <1>3, <1>4, <1>5, PrimeFactors
  <1>7. f % p = 0
    <2> HIDE DEF f
    <2>1. f % p \in 0 .. p - 1 /\ Agree(p, f % p, f) /\ 0 \in 0 .. p - 1
      <3>1. f \in Int
        BY <1>3
      <3>2. 0 \in 0 .. p - 1
        BY <1>1
      <3> HIDE DEF f, p
      <3> QED BY <1>1, <3>1, <3>2, AgreeRemainder
    <2> DEFINE r == f % p
    <2>2. r \in 0 .. p - 1 /\ Agree(p, r, f) /\ 0 \in 0 .. p - 1
      BY <2>1
    <2> HIDE DEF r
    <2>3. Agree(p, r, 0)
      BY <1>1, <1>6, <2>2, AgreeEquivalence
    <2>4. r = 0
      BY <1>1, <2>2, <2>3, AgreeRemainder
    <2> QED BY <2>4 DEF r
  <1> QED BY <1>1, <1>7 DEF AffineAdd

\* A point at infinity is one whose last coordinate is zero.
LEMMA StandsForInfinity ==
    ASSUME NEW curve \in Curves, NEW J, NEW A, Stands(curve, J, A)
    PROVE  /\ Value(J[3]) = 0 <=> A = <<>>
           /\ J[3] \in Limbs(LIMBS) /\ Value(J[3]) < curve.p
  <1> DEFINE p == curve.p
  <1>1. PICK d : Denotes(p, J[3], d) /\ (Agree(p, d, 0) <=> A = <<>>)
    BY DEF Stands
  <1>2. p \in Nat \ {0}
    BY CurveModuli
  <1> DEFINE v == Value(J[3])
  <1>3. v \in 0 .. p - 1 /\ Agree(p, v, d) /\ J[3] \in Limbs(LIMBS)
    BY <1>1 DEF Denotes
  <1> HIDE DEF v
  <1>4. v = 0 <=> Agree(p, v, 0)
    <2>1. 0 \in 0 .. p - 1 /\ 0 \in Int
      BY <1>2
    <2>2. Agree(p, 0, 0)
      BY <1>2, <2>1, AgreeEquivalence
    <2>3. ASSUME Agree(p, v, 0) PROVE v = 0
      BY <1>2, <1>3, <2>1, <2>3, AgreeRemainder
    <2> QED BY <2>2, <2>3
  <1>5. Agree(p, v, 0) <=> Agree(p, d, 0)
    BY <1>2, <1>3, AgreeEquivalence
  <1>6. v < p
    BY <1>2, <1>3
  <1> QED BY <1>1, <1>3, <1>4, <1>5, <1>6 DEF v

\* The constants stand for infinity, and an affine point with one as its denominator for itself.
LEMMA ConstantsStand ==
    ASSUME NEW curve \in Curves
    PROVE  /\ Stands(curve, Infinity, <<>>)
           /\ Denotes(curve.p, Zero, 0) /\ Denotes(curve.p, One, 1)
           /\ \A q, B : AffinePoint(curve, B) /\ Denotes(curve.p, q[1], B[1]) /\ Denotes(curve.p, q[2], B[2])
                 => Stands(curve, <<q[1], q[2], One>>, B)
  <1> DEFINE p == curve.p
  <1>1. p \in Nat \ {0, 1, 2} /\ p \in Nat \ {0}
    BY CurveModuli
  <1>2. Denotes(p, Zero, 0) /\ Denotes(p, One, 1)
    <2>1. Agree(p, 0, 0) /\ Agree(p, 1, 1) /\ 0 \in 0 .. p - 1 /\ 1 \in 0 .. p - 1
      BY <1>1, AgreeEquivalence
    <2> QED BY <2>1, SmallConstants DEF Denotes
  <1>3. Stands(curve, Infinity, <<>>)
    <2>1. Denotes(p, Infinity[1], 0) /\ Denotes(p, Infinity[2], 0) /\ Denotes(p, Infinity[3], 0)
      BY <1>2, SmallConstants
    <2>2. Agree(p, 0, 0)
      BY <1>1, AgreeEquivalence
    <2> QED BY <2>1, <2>2 DEF Stands
  <1>4. ASSUME NEW q, NEW B, AffinePoint(curve, B), Denotes(p, q[1], B[1]), Denotes(p, q[2], B[2])
        PROVE  Stands(curve, <<q[1], q[2], One>>, B)
    <2> DEFINE K == <<q[1], q[2], One>>
    <2>1. K[1] = q[1] /\ K[2] = q[2] /\ K[3] = One
      OBVIOUS
    <2>2. B # <<>> /\ B[1] \in Int /\ B[2] \in Int
      BY <1>4, AffineCoordinates
    <2>3. ~Agree(p, 1, 0)
      <3>1. 1 \in 0 .. p - 1 /\ 0 \in 0 .. p - 1 /\ 1 # 0
        BY <1>1
      <3> QED BY <1>1, <3>1, AgreeRemainder
    <2>4. Agree(p, B[1], B[1] * (1 * 1)) /\ Agree(p, B[2], B[2] * (1 * (1 * 1)))
      <3>1. Agree(p, B[1], B[1]) /\ Agree(p, B[2], B[2])
        BY <1>1, <2>2, AgreeEquivalence
      <3>2. B[1] * (1 * 1) = B[1] /\ B[2] * (1 * (1 * 1)) = B[2]
        BY <2>2
      <3> QED BY <3>1, <3>2
    <2> HIDE DEF K
    <2>5. Denotes(p, K[1], B[1]) /\ Denotes(p, K[2], B[2]) /\ Denotes(p, K[3], 1)
      BY <1>2, <1>4, <2>1
    <2>6. Stands(curve, K, B)
      BY <1>4, <2>2, <2>3, <2>4, <2>5 DEF Stands
    <2> QED BY <2>6 DEF K
  <1> QED BY <1>2, <1>3, <1>4

\* What is selected stands for the sum, whichever case it is.
LEMMA CompleteStands ==
    ASSUME NEW curve \in Curves, NEW J \in Points, NEW A, Stands(curve, J, A),
           A = <<>> \/ A \in CurvePoints(curve),
           NEW q \in Pairs, NEW bit \in {0, 1}, NEW B,
           IF bit = 1 THEN B = <<>>
           ELSE /\ B \in CurvePoints(curve)
                /\ Denotes(curve.p, q[1], B[1]) /\ Denotes(curve.p, q[2], B[2])
    PROVE  LET S == AddComplete(curve, J, q, bit)
           IN  /\ S \in Points
               /\ Stands(curve, S, AffineAdd(curve, A, B))
               /\ (A # <<>> /\ bit = 0 /\ AffineAdd(curve, A, B) = <<>> /\ AffineAdd(curve, A, A) # <<>>)
                    => S = Infinity
  <1> DEFINE G == AddRegular(curve, J, q)  S == AddComplete(curve, J, q, bit)
             v == Value(J[3])
  <1>1. /\ S \in Points
        /\ S = IF v = 0 THEN (IF bit = 1 THEN Infinity ELSE <<q[1], q[2], One>>)
               ELSE IF bit = 1 THEN J
               ELSE IF G.same_x = 0 THEN G.point
               ELSE IF G.same_y = 1 THEN Double(curve, J)
               ELSE Infinity
    BY CompleteSelects
  <1>2. v = 0 <=> A = <<>>
    BY StandsForInfinity
  <1>3. \A C : C # <<>> => AffineAdd(curve, C, <<>>) = C
    BY DEF AffineAdd
  <1>4. \A C : AffineAdd(curve, <<>>, C) = C
    BY DEF AffineAdd
  <1> HIDE DEF S, v
  <1>5. CASE A = <<>>
    <2>1. AffineAdd(curve, A, B) = B
      BY <1>4, <1>5
    <2>2. CASE bit = 1
      BY <1>1, <1>2, <1>5, <2>1, <2>2, ConstantsStand DEF S
    <2>3. CASE bit = 0
      <3>1. AffinePoint(curve, B)
        BY <2>3, CurvePointOf
      <3>2. Stands(curve, <<q[1], q[2], One>>, B)
        BY <2>3, <3>1, ConstantsStand
      <3> QED BY <1>1, <1>2, <1>5, <2>1, <2>3, <3>2 DEF S
    <2> QED BY <2>2, <2>3
  <1>6. CASE A # <<>> /\ bit = 1
    <2>1. AffineAdd(curve, A, B) = A
      BY <1>3, <1>6
    <2>2. S = J
      BY <1>1, <1>2, <1>6
    <2> QED BY <1>1, <1>6, <2>1, <2>2 DEF S
  <1>7. CASE A # <<>> /\ bit = 0
    <2>1. /\ AffinePoint(curve, A) /\ AffinePoint(curve, B)
          /\ A \in CurvePoints(curve) /\ B \in CurvePoints(curve)
          /\ Denotes(curve.p, q[1], B[1]) /\ Denotes(curve.p, q[2], B[2])
      BY <1>7, CurvePointOf
    <2>2. /\ G.same_x = IF A[1] = B[1] THEN 1 ELSE 0
          /\ G.same_y = IF A[2] = B[2] THEN 1 ELSE 0
          /\ A[1] # B[1] => Stands(curve, G.point, AffineAdd(curve, A, B))
      BY <1>7, <2>1, RegularStands
    <2> HIDE DEF G
    <2>3. CASE A[1] # B[1]
      <3>1. S = G.point
        BY <1>1, <1>2, <1>7, <2>2, <2>3
      <3>2. AffineAdd(curve, A, B) # <<>>
        <4>1. AffinePoint(curve, AffineAdd(curve, A, B))
          BY <2>1, <2>3, ChordSum DEF ThirdPoint
        <4> QED BY <4>1, AffineCoordinates
      <3> QED BY <1>1, <2>2, <2>3, <3>1, <3>2 DEF S
    <2>4. CASE A[1] = B[1] /\ A[2] = B[2]
      <3>1. A = B
        <4>1. A = <<A[1], A[2]>> /\ B = <<B[1], B[2]>>
          BY <2>1, AffineCoordinates
        <4> QED BY <2>4, <4>1
      <3>2. S = Double(curve, J)
        BY <1>1, <1>2, <1>7, <2>2, <2>4
      <3>3. Stands(curve, S, AffineAdd(curve, A, B))
        BY <3>1, <3>2, DoubleStands
      <3> QED BY <1>1, <3>1, <3>3 DEF S
    <2>5. CASE A[1] = B[1] /\ A[2] # B[2]
      <3>1. S = Infinity
        BY <1>1, <1>2, <1>7, <2>2, <2>5
      <3>2. AffineAdd(curve, A, B) = <<>>
        BY <2>1, <2>5, OppositePoints
      <3> QED BY <1>1, <3>1, <3>2, ConstantsStand DEF S
    <2> QED BY <2>3, <2>4, <2>5
  <1> QED BY <1>5, <1>6, <1>7

\* The values of a flag.
Flags == {0, 1}

\* The addend of a bit, and whether it is infinity.
Addend(b1, b2, t_00, t_10, t_01, t_11) ==
    IF b2 = 1 THEN (IF b1 = 1 THEN t_11 ELSE t_01) ELSE (IF b1 = 1 THEN t_10 ELSE t_00)

\* One bit of the loop, by cases.
JointCase(curve, J, qg, qp, qs, i, b1, b2) ==
    LET D == Double(curve, J)
        t == Addend(b1, b2, qg, qg, qp, qs)
    IN  IF b1 = 0 /\ b2 = 0 THEN D
        ELSE IF Value(D[3]) = 0 THEN <<t[1], t[2], One>>
        ELSE AddComplete(curve, D, t, IF b1 = 1 /\ b2 = 1 /\ i = 1 THEN 1 ELSE 0)

\* What the selections of one bit amount to: the doubled accumulator when both bits are
\* zero, the addend when the double is at infinity, and the addition otherwise.
LEMMA JointSelects ==
    ASSUME NEW curve \in Curves, NEW J \in Points, NEW qg \in Pairs, NEW qp \in Pairs,
           NEW qs \in Pairs, NEW i \in Flags, NEW b1 \in Flags, NEW b2 \in Flags
    PROVE  /\ JointBit(curve, J, qg, qp, qs, i, b1, b2) \in Points
           /\ JointBit(curve, J, qg, qp, qs, i, b1, b2) = JointCase(curve, J, qg, qp, qs, i, b1, b2)
  <1> DEFINE D == Double(curve, J)  S == JointBit(curve, J, qg, qp, qs, i, b1, b2)
             t == Addend(b1, b2, qg, qg, qp, qs)
             bit == IF b1 = 1 /\ b2 = 1 /\ i = 1 THEN 1 ELSE 0
             skip == Felt(NotBit(b1) * NotBit(b2))
             high == SelectPoint(b1, qs, qp)  low == SelectPoint(b1, qg, qg)
             A == AddComplete(curve, D, t, bit)  T == <<t[1], t[2], One>>
             inf == EqBool(D[3], Zero)  inner == SelectPoint(inf, T, A)
  <1>0. i \in {0, 1} /\ b1 \in {0, 1} /\ b2 \in {0, 1}
    BY DEF Flags
  <1>1. D \in Points
    BY DoubleClosed
  <1>2. t \in Pairs
    BY <1>0 DEF Addend
  <1>3. SelectAffine(b1, b2, qg, qg, qp, qs) = t
    <2>1. high = IF b1 = 1 THEN qs ELSE qp
      BY <1>0, SelectsPoints
    <2>2. low = IF b1 = 1 THEN qg ELSE qg
      BY <1>0, SelectsPoints
    <2>3. high \in Pairs /\ low \in Pairs
      BY <2>1, <2>2
    <2>4. SelectAffine(b1, b2, qg, qg, qp, qs) = SelectPoint(b2, high, low)
      BY DEF SelectAffine
    <2> HIDE DEF high, low
    <2>5. SelectPoint(b2, high, low) = IF b2 = 1 THEN high ELSE low
      BY <1>0, <2>3, SelectsPoints
    <2> QED BY <2>1, <2>2, <2>4, <2>5 DEF Addend
  <1>4. Felt(b1 * b2 * i) = bit /\ bit \in {0, 1}
    <2>1. b1 * b2 \in {0, 1} /\ (b1 * b2 = 1 <=> (b1 = 1 /\ b2 = 1))
      BY <1>0
    <2> DEFINE e == b1 * b2
    <2>2. e \in {0, 1}
      BY <2>1
    <2> HIDE DEF e
    <2>3. Felt(e * i) = IF e = 1 /\ i = 1 THEN 1 ELSE 0
      BY <1>0, <2>2, BitProducts
    <2> QED BY <1>0, <2>1, <2>3 DEF e
  <1>5. skip = IF b1 = 0 /\ b2 = 0 THEN 1 ELSE 0
    <2>1. NotBit(b1) \in {0, 1} /\ NotBit(b2) \in {0, 1}
          /\ (NotBit(b1) = 1 <=> b1 = 0) /\ (NotBit(b2) = 1 <=> b2 = 0)
      BY <1>0, BitProducts
    <2>2. skip = IF NotBit(b1) = 1 /\ NotBit(b2) = 1 THEN 1 ELSE 0
      BY <2>1, BitProducts
    <2> QED BY <2>1, <2>2
  <1>6. S = SelectPoint(skip, D, inner)
    BY <1>3, <1>4 DEF JointBit, AddSelected
  <1> HIDE DEF D, S, t, bit, skip
  <1>7. A \in Points /\ T \in Points
    <2>1. A \in Points
      BY <1>1, <1>2, <1>4, CompleteSelects
    <2>2. T \in Points
      BY <1>2, PointOf, SmallConstants DEF Pairs, Vectors
    <2> QED BY <2>1, <2>2
  <1>8. inf \in {0, 1} /\ (inf = 1 <=> Value(D[3]) = 0)
    <2>1. D[3] \in Limbs(LIMBS)
      BY <1>1 DEF Points, Vectors
    <2> QED BY <2>1, SmallConstants
  <1> HIDE DEF A, T, inf
  <1>9. inner = IF inf = 1 THEN T ELSE A
    BY <1>7, <1>8, SelectsPoints
  <1>10. inner \in Points
    BY <1>7, <1>9
  <1> HIDE DEF inner
  <1>11. SelectPoint(skip, D, inner) = IF skip = 1 THEN D ELSE inner
    BY <1>1, <1>5, <1>10, SelectsPoints
  <1>12. S \in Points
    BY <1>1, <1>6, <1>10, <1>11
  <1>13. S = IF b1 = 0 /\ b2 = 0 THEN D ELSE IF Value(D[3]) = 0 THEN T ELSE A
    BY <1>5, <1>6, <1>8, <1>9, <1>11
  <1> QED BY <1>12, <1>13 DEF D, S, t, bit, A, T, JointCase

\* An affine operand of the helpers: a point of the curve, reduced, or infinity as its flag says.
Operand(curve, q, i, B) ==
    IF i = 1 THEN q = <<Zero, Zero>> /\ B = <<>>
    ELSE /\ B \in CurvePoints(curve)
         /\ Denotes(curve.p, q[1], B[1]) /\ Denotes(curve.p, q[2], B[2])

\* One bit of the loop: the accumulator stands for twice the point plus the addend of the
\* bits, or holds (0, 0, 1) when that is infinity and so is G + P.
LEMMA JointStands ==
    ASSUME NEW curve \in Curves, NEW J \in Points, NEW A, Stands(curve, Double(curve, J), A),
           A = <<>> \/ A \in CurvePoints(curve),
           NEW qg \in Pairs, NEW qp \in Pairs, NEW qs \in Pairs,
           NEW i \in Flags, NEW b1 \in Flags, NEW b2 \in Flags,
           NEW Bg, NEW Bp, NEW Bs,
           Operand(curve, qg, 0, Bg), Operand(curve, qp, 0, Bp), Operand(curve, qs, i, Bs)
    PROVE  LET S == JointBit(curve, J, qg, qp, qs, i, b1, b2)
               C == AffineAdd(curve, A, Addend(b1, b2, <<>>, Bg, Bp, Bs))
           IN  Stands(curve, S, C) \/ (i = 1 /\ S = <<Zero, Zero, One>> /\ C = <<>>)
  <1> DEFINE D == Double(curve, J)  S == JointBit(curve, J, qg, qp, qs, i, b1, b2)
             t == Addend(b1, b2, qg, qg, qp, qs)  B == Addend(b1, b2, <<>>, Bg, Bp, Bs)
             bit == IF b1 = 1 /\ b2 = 1 /\ i = 1 THEN 1 ELSE 0
             C == AffineAdd(curve, A, B)
  <1>0. i \in {0, 1} /\ b1 \in {0, 1} /\ b2 \in {0, 1}
    BY DEF Flags
  <1>1. S = IF b1 = 0 /\ b2 = 0 THEN D
            ELSE IF Value(D[3]) = 0 THEN <<t[1], t[2], One>>
            ELSE AddComplete(curve, D, t, bit)
    <2>1. S = JointCase(curve, J, qg, qp, qs, i, b1, b2)
      BY JointSelects
    <2> QED BY <2>1 DEF JointCase
  <1>2. D \in Points /\ t \in Pairs /\ bit \in {0, 1}
    BY DoubleClosed DEF Addend
  <1>3. Value(D[3]) = 0 <=> A = <<>>
    BY StandsForInfinity
  <1>4. CASE b1 = 0 /\ b2 = 0
    <2>1. B = <<>> /\ S = D
      BY <1>1, <1>4 DEF Addend
    <2>2. C = A
      BY <2>1 DEF AffineAdd
    <2> QED BY <2>1, <2>2
  <1>5. CASE ~(b1 = 0 /\ b2 = 0)
    <2>1. Operand(curve, t, bit, B)
      <3>1. CASE b1 = 1 /\ b2 = 1
        BY <1>0, <3>1 DEF Addend
      <3>2. CASE ~(b1 = 1 /\ b2 = 1)
        BY <1>0, <1>5, <3>2 DEF Addend
      <3> QED BY <3>1, <3>2
    <2>2. bit = 1 => i = 1
      OBVIOUS
    <2>3. S = IF A = <<>> THEN <<t[1], t[2], One>> ELSE AddComplete(curve, D, t, bit)
      BY <1>1, <1>3, <1>5
    <2> HIDE DEF D, S, t, B, bit
    <2>4. CASE A # <<>>
      <3>1. Stands(curve, AddComplete(curve, D, t, bit), AffineAdd(curve, A, B))
        BY <1>2, <2>1, <2>4, CompleteStands DEF Operand, D
      <3> QED BY <2>3, <2>4, <3>1 DEF S, B
    <2>5. CASE A = <<>> /\ bit = 1
      <3>1. B = <<>> /\ t = <<Zero, Zero>>
        BY <2>1, <2>5 DEF Operand
      <3>2. S = <<Zero, Zero, One>>
        BY <2>3, <2>5, <3>1
      <3>3. C = <<>>
        BY <2>5, <3>1 DEF AffineAdd
      <3> QED BY <2>2, <2>5, <3>2, <3>3 DEF S, B
    <2>6. CASE A = <<>> /\ bit = 0
      <3>1. B \in CurvePoints(curve) /\ Denotes(curve.p, t[1], B[1]) /\ Denotes(curve.p, t[2], B[2])
        BY <2>1, <2>6 DEF Operand
      <3>2. Stands(curve, <<t[1], t[2], One>>, B)
        BY <3>1, CurvePointOf, ConstantsStand
      <3>3. C = B
        BY <2>6 DEF AffineAdd
      <3> QED BY <2>3, <2>6, <3>2, <3>3 DEF S, B
    <2> QED BY <1>2, <2>4, <2>5, <2>6
  <1> QED BY <1>4, <1>5

---------------------------------------------------------------------------
\* The loops: bits of an exponent, bits of a scalar

\* A quotient of a quotient.
LEMMA QuotientTwice ==
    ASSUME NEW v \in Nat, NEW a \in Nat \ {0}, NEW b \in Nat \ {0}
    PROVE  v \div (a * b) = (v \div a) \div b /\ v \div a \in Nat
  <1> DEFINE u == v \div a  r == v % a  w == u \div b  s == u % b
  <1>1. u \in Nat /\ r \in 0 .. a - 1 /\ v = a * u + r
    BY DivModNat
  <1> HIDE DEF u, r
  <1>2. w \in Nat /\ s \in 0 .. b - 1 /\ u = b * w + s
    BY <1>1, DivModNat
  <1> HIDE DEF w, s
  <1>3. r + a * s \in 0 .. a * b - 1
    <2>1. s + 1 <= b /\ s \in Nat
      BY <1>2
    <2>2. a * (s + 1) <= a * b
      BY <2>1, ScaleLe
    <2>3. a * (s + 1) = a * s + a /\ a * s \in Nat /\ a * b \in Nat
      BY <2>1
    <2> QED BY <1>1, <2>2, <2>3
  <1>4. v = (r + a * s) + (a * b) * w
    BY <1>1, <1>2
  <1>5. a * b \in Nat \ {0}
    OBVIOUS
  <1>6. v \div (a * b) = w
    <2> DEFINE d == a * b  t == r + a * s
    <2>1. d \in Nat \ {0} /\ t \in 0 .. d - 1 /\ v = t + d * w /\ v \in Int /\ w \in Int
      BY <1>2, <1>3, <1>4, <1>5
    <2> HIDE DEF d, t
    <2>2. v \div d = w
      BY <2>1, QuotientOf
    <2> QED BY <2>2 DEF d
  <1> QED BY <1>1, <1>6 DEF w, u

\* Powers of two outgrow their exponents.
LEMMA PowersOutgrow ==
    ASSUME NEW n \in Nat
    PROVE  Power(2, n) > n
  <1> DEFINE S == {k \in 0 .. n : Power(2, k) > k}
  <1>1. 0 \in S
    BY PowerStep
  <1>2. ASSUME NEW k \in 0 .. n - 1, k \in S PROVE k + 1 \in S
    <2>1. k \in Nat /\ k + 1 \in 0 .. n
      OBVIOUS
    <2>2. Power(2, k + 1) = 2 * Power(2, k) /\ Power(2, k) \in Nat /\ Power(2, k) > k
      BY <1>2, <2>1, PowerStep, PowerIsPositive
    <2>3. Power(2, k + 1) > k + 1
      BY <2>1, <2>2
    <2> QED BY <2>1, <2>3
  <1>3. \A k \in 0 .. n : k \in S
    <2> HIDE DEF S
    <2> QED BY <1>1, <1>2, UpToInduction
  <1> QED BY <1>3

\* Every number other than zero has a highest bit.
LEMMA HighestBit ==
    ASSUME NEW e \in Nat \ {0}
    PROVE  \E b \in 0 .. e : Power(2, b) <= e /\ e < Power(2, b + 1)
  <1> DEFINE Highest(b) == Power(2, b) <= e /\ e < Power(2, b + 1)
             S == {k \in 0 .. e : Power(2, k) <= e \/ \E b \in 0 .. e : Highest(b)}
  <1>1. 0 \in S
    BY PowerStep
  <1>2. ASSUME NEW k \in 0 .. e - 1, k \in S PROVE k + 1 \in S
    <2>1. k \in Nat /\ k \in 0 .. e /\ k + 1 \in 0 .. e /\ k + 1 \in Nat
      OBVIOUS
    <2>2. Power(2, k + 1) \in Nat
      BY <2>1, PowerIsPositive
    <2>3. Power(2, k) <= e \/ \E b \in 0 .. e : Highest(b)
      BY <1>2
    <2>4. CASE \E b \in 0 .. e : Highest(b)
      BY <2>1, <2>4
    <2>5. CASE Power(2, k) <= e /\ e < Power(2, k + 1)
      BY <2>1, <2>5
    <2>6. CASE Power(2, k + 1) <= e
      BY <2>1, <2>6
    <2> QED BY <2>2, <2>3, <2>4, <2>5, <2>6
  <1>3. \A k \in 0 .. e : k \in S
    <2> HIDE DEF S
    <2> QED BY <1>1, <1>2, UpToInduction
  <1>4. Power(2, e) > e /\ Power(2, e) \in Nat
    BY PowersOutgrow, PowerIsPositive
  <1>5. e \in S
    BY <1>3
  <1> QED BY <1>4, <1>5

\* The state of the square-and-multiply loop: the value is the power for the bits of the
\* exponent consumed so far.  A base of zero counts as the modulus.
BaseOf(m, base) == IF Value(base) = 0 THEN m ELSE Value(base)
LoopAt(m, base, v, bit) ==
    /\ Value(v) < Modulus(m)
    /\ Agree(Modulus(m), Value(v),
             Power(BaseOf(Modulus(m), base), Exponent(m) \div Power(2, bit + 1)))

\* The modulus of an inversion is a prime that fits its limbs.
LEMMA ModulusOfCall ==
    ASSUME call \in Calls, NEW m \in {"p", "n"}
    PROVE  /\ Prime(Modulus(m)) /\ Modulus(m) \in Nat \ {0} /\ Modulus(m) > 2 /\ Modulus(m) < R
           /\ Exponent(m) \in Nat \ {0} /\ c \in Curves
  <1>1. c \in Curves
    BY DEF c, Curves
  <1>2. Modulus(m) \in {c.p, c.n}
    BY DEF Modulus
  <1>3. c.p \in Nat \ {0, 1, 2} /\ c.n \in Nat \ {0, 1, 2} /\ c.p < R /\ c.n < R
    BY <1>1, CurveModuli
  <1>4. Prime(Modulus(m))
    BY <1>1, <1>2 DEF Prime
  <1>5. Modulus(m) \in Nat \ {0, 1, 2} /\ Modulus(m) < R
    BY <1>2, <1>3
  <1>6. Exponent(m) \in Nat \ {0}
    BY <1>5 DEF Exponent
  <1> QED BY <1>1, <1>4, <1>5, <1>6

\* The base that counts is positive, and congruent to the one given.
LEMMA BaseOfAgrees ==
    ASSUME NEW m \in Nat \ {0}, NEW base \in Limbs(LIMBS)
    PROVE  BaseOf(m, base) \in Nat \ {0} /\ Agree(m, Value(base), BaseOf(m, base))
  <1>1. Value(base) \in Nat
    <2>1. Value(base) \in 0 .. R - 1 /\ R \in Nat
      BY DenotesValue, SmallConstants
    <2> QED BY <2>1
  <1>2. CASE Value(base) = 0
    <2>1. 0 = m + m * (-1) /\ -1 \in Int
      OBVIOUS
    <2>2. Agree(m, 0, m)
      BY <2>1 DEF Agree
    <2> QED BY <1>2, <2>2 DEF BaseOf
  <1>3. CASE Value(base) # 0
    BY <1>1, <1>3, AgreeEquivalence DEF BaseOf
  <1> QED BY <1>2, <1>3

\* It holds before the highest bit,
LEMMA LoopStarts ==
    ASSUME call \in Calls, NEW m \in {"p", "n"}, NEW base \in Limbs(LIMBS)
    PROVE  LoopAt(m, base, One, HighBit(m)) /\ HighBit(m) \in Nat
  <1> DEFINE M == Modulus(m)  e == Exponent(m)  h == HighBit(m)  b == BaseOf(M, base)
  <1>1. M \in Nat \ {0} /\ M > 2 /\ e \in Nat \ {0}
    BY ModulusOfCall
  <1>2. h \in 0 .. e /\ Power(2, h) <= e /\ e < Power(2, h + 1)
    BY <1>1, HighestBit DEF HighBit
  <1>3. h \in Nat /\ h + 1 \in Nat
    BY <1>1, <1>2
  <1> DEFINE d == Power(2, h + 1)
  <1>4. d \in Nat \ {0} /\ e \in 0 .. d - 1
    BY <1>1, <1>2, <1>3, PowerIsPositive
  <1>5. e \div d = 0
    <2> HIDE DEF d, e
    <2>1. e = e + d * 0
      BY <1>1, <1>4
    <2> QED BY <1>1, <1>4, <2>1, QuotientOf
  <1>6. Power(b, 0) = 1 /\ Agree(M, 1, 1)
    BY <1>1, BaseOfAgrees, PowerStep, AgreeEquivalence, SMTT(40)
  <1> QED BY <1>1, <1>3, <1>5, <1>6, SmallConstants DEF LoopAt

\* is kept by an iteration,
LEMMA LoopIterates ==
    ASSUME call \in Calls, NEW m \in {"p", "n"}, NEW base \in Limbs(LIMBS),
           NEW v \in Limbs(LIMBS), NEW bit \in Nat, LoopAt(m, base, v, bit)
    PROVE  LET square == MulMod(m, v, v)
               w == IF ExponentBit(m, bit) = 1 THEN MulMod(m, square, base) ELSE square
           IN  w \in Limbs(LIMBS) /\ LoopAt(m, base, w, bit - 1)
  <1> DEFINE M == Modulus(m)  e == Exponent(m)  b == BaseOf(M, base)
             square == MulMod(m, v, v)  prod == MulMod(m, square, base)
             w == IF ExponentBit(m, bit) = 1 THEN prod ELSE square
             d == Power(2, bit)  f == e \div d  q == f \div 2  i == f % 2  x == Power(b, q)
  <1>1. M \in Nat \ {0} /\ e \in Nat \ {0}
    BY ModulusOfCall
  <1>2. b \in Nat \ {0} /\ Agree(M, Value(base), b)
    BY <1>1, BaseOfAgrees
  <1>3. d \in Nat \ {0} /\ Power(2, bit + 1) = 2 * d
    BY PowerStep, PowerIsPositive
  <1>4. f \in Nat /\ e \div Power(2, bit + 1) = q
    <2>1. Power(2, bit + 1) = d * 2
      BY <1>3
    <2> HIDE DEF d, e
    <2>2. e \div (d * 2) = (e \div d) \div 2 /\ e \div d \in Nat
      <3>1. \A k \in Nat \ {0} : e \div (d * k) = (e \div d) \div k /\ e \div d \in Nat
        BY <1>1, <1>3, QuotientTwice
      <3>2. 2 \in Nat \ {0}
        OBVIOUS
      <3> QED BY <3>1, <3>2
    <2> QED BY <2>1, <2>2
  <1>5. q \in Nat /\ i \in {0, 1} /\ f = (q + q) + i
    <2> HIDE DEF f
    <2>1. q \in Nat /\ i \in 0 .. 1 /\ f = 2 * q + i
      <3>1. 2 \in Nat \ {0}
        OBVIOUS
      <3> QED BY <1>4, <3>1, DivModNat
    <2> QED BY <2>1
  <1>6. x \in Nat \ {0} /\ Power(b, q + q) = x * x
    BY <1>2, <1>5, PowerIsPositive, PowerAdds
  <1>7. Value(v) < M /\ Agree(M, Value(v), x)
    BY <1>4 DEF LoopAt
  <1>8. /\ square \in Limbs(LIMBS) /\ Value(square) = (Value(v) * Value(v)) % M
    BY <1>7, MulModExact
  <1>9. Value(v) \in Int /\ Value(base) \in Int
    BY DenotesValue, <1>1
  <1>10. Value(square) \in 0 .. M - 1 /\ Agree(M, Value(square), x * x) /\ Value(square) < M
    <2> DEFINE y == Value(v)  yy == y * y  r == yy % M
    <2>1. yy \in Int
      BY <1>9
    <2>2. Agree(M, yy, x * x)
      BY <1>1, <1>7, AgreeOperations
    <2> HIDE DEF yy, M, x
    <2>3. r \in 0 .. M - 1 /\ Agree(M, r, yy)
      BY <1>1, <2>1, AgreeRemainder
    <2> HIDE DEF r
    <2>4. Agree(M, r, x * x)
      BY <1>1, <2>2, <2>3, AgreeEquivalence
    <2>5. Value(square) = r
      BY <1>8 DEF r, yy, M
    <2>6. r < M
      BY <1>1, <2>3
    <2> QED BY <2>3, <2>4, <2>5, <2>6
  <1>11. /\ prod \in Limbs(LIMBS) /\ Value(prod) = (Value(square) * Value(base)) % M
    <2> HIDE DEF square
    <2> QED BY <1>8, <1>10, MulModExact
  <1>12. Value(prod) \in 0 .. M - 1 /\ Agree(M, Value(prod), b * (x * x)) /\ Value(prod) < M
    <2> DEFINE y == Value(square)  u == Value(base)  yu == y * u  r == yu % M
    <2>1. y \in Int /\ yu \in Int
      <3>1. y \in Int
        BY <1>1, <1>10
      <3> QED BY <1>9, <3>1
    <2>2. Agree(M, yu, (x * x) * b)
      <3> HIDE DEF M, b, x, y, u
      <3>1. Agree(M, y, x * x) /\ Agree(M, u, b)
        BY <1>2, <1>10 DEF y, u
      <3> QED BY <1>1, <3>1, AgreeOperations
    <2>3. (x * x) * b = b * (x * x)
      BY <1>2, <1>6
    <2> HIDE DEF yu, M, x, b
    <2>4. r \in 0 .. M - 1 /\ Agree(M, r, yu)
      BY <1>1, <2>1, AgreeRemainder
    <2> HIDE DEF r
    <2>5. Agree(M, r, b * (x * x))
      BY <1>1, <2>2, <2>3, <2>4, AgreeEquivalence
    <2>6. Value(prod) = r
      BY <1>11 DEF r, yu, M
    <2>7. r < M
      BY <1>1, <2>4
    <2> QED BY <2>4, <2>5, <2>6, <2>7
  <1>13. ExponentBit(m, bit) = i /\ bit - 1 + 1 = bit
    BY DEF ExponentBit
  <1>14. CASE i = 1
    <2>1. f = (q + q) + 1 /\ q + q \in Nat
      BY <1>5, <1>14
    <2> HIDE DEF f
    <2>2. Power(b, f) = b * (x * x)
      BY <1>2, <1>6, <2>1, PowerStep
    <2>3. w = prod
      BY <1>13, <1>14
    <2> HIDE DEF w, prod
    <2> QED BY <1>11, <1>12, <1>13, <2>2, <2>3 DEF LoopAt, f, w, prod
  <1>15. CASE i = 0
    <2>1. f = q + q
      BY <1>5, <1>15
    <2>2. w = square
      BY <1>13, <1>15
    <2> HIDE DEF f, w, square
    <2> QED BY <1>6, <1>8, <1>10, <1>13, <2>1, <2>2 DEF LoopAt, f, w, square
  <1> QED BY <1>5, <1>14, <1>15

\* and ends with the inverse, or with zero for zero.
LEMMA LoopEnds ==
    ASSUME call \in Calls, NEW m \in {"p", "n"}, NEW base \in Limbs(LIMBS),
           NEW v \in Limbs(LIMBS), LoopAt(m, base, v, -1)
    PROVE  LET M == Modulus(m)
           IN  /\ Value(v) \in 0 .. M - 1
               /\ (Value(v) * (Value(base) % M)) % M = IF Value(base) % M = 0 THEN 0 ELSE 1
               /\ ~Agree(M, Value(base), 0) => Agree(M, Value(v) * Value(base), 1)
               /\ Value(base) = 0 => Value(v) = 0
  <1> DEFINE M == Modulus(m)  e == Exponent(m)  b == BaseOf(M, base)  x == Power(b, e)
             u == Value(base)  y == Value(v)  r == u % M
  <1>1. M \in Nat \ {0} /\ M > 2 /\ e \in Nat \ {0} /\ Prime(M) /\ e = M - 2
    BY ModulusOfCall DEF Exponent
  <1>2. b \in Nat \ {0} /\ Agree(M, u, b)
    BY <1>1, BaseOfAgrees
  <1>3. y < M /\ Agree(M, y, x)
    <2>1. -1 + 1 = 0 /\ Power(2, 0) = 1 /\ e \div 1 = e
      <3>1. 0 \in Nat /\ 2 \in Nat \ {0}
        OBVIOUS
      <3>2. Power(2, 0) = 1
        BY <3>1, PowerStep
      <3>3. e \div 1 = e
        BY <1>1
      <3> QED BY <3>2, <3>3
    <2>2. e \div Power(2, -1 + 1) = e
      BY <2>1
    <2> QED BY <2>2 DEF LoopAt
  <1>4. y \in 0 .. M - 1 /\ y \in Int /\ u \in Nat /\ u \in Int
    <2>1. y \in 0 .. R - 1 /\ u \in 0 .. R - 1 /\ R \in Nat
      BY <1>1, DenotesValue, SmallConstants
    <2> QED BY <1>1, <1>3, <2>1
  <1>5. Agree(M, b * x, IF b % M = 0 THEN 0 ELSE 1)
    BY <1>1, <1>2, FermatInverse
  <1> HIDE DEF M, e, b, u, y, x
  <1>6. r \in 0 .. M - 1 /\ Agree(M, r, u) /\ Agree(M, u, r) /\ r = b % M
    BY <1>1, <1>2, <1>4, AgreeRemainder
  <1> HIDE DEF r
  <1> DEFINE t == IF r = 0 THEN 0 ELSE 1
  <1>7. Agree(M, b * x, t) /\ t \in 0 .. M - 1
    BY <1>1, <1>5, <1>6
  <1> HIDE DEF t
  <1>8. Agree(M, y * u, t)
    <2>1. Agree(M, y * u, x * b)
      BY <1>1, <1>2, <1>3, AgreeOperations
    <2>2. x * b = b * x
      <3>1. x \in Nat \ {0}
        BY <1>1, <1>2, PowerIsPositive DEF x
      <3> QED BY <1>2, <3>1
    <2> QED BY <1>1, <1>7, <2>1, <2>2, AgreeEquivalence
  <1>9. (y * r) % M = t
    <2>1. Agree(M, y, y)
      BY <1>1, <1>4, AgreeEquivalence
    <2>2. Agree(M, y * r, y * u)
      BY <1>1, <1>6, <2>1, AgreeOperations
    <2>3. Agree(M, y * r, t)
      BY <1>1, <1>8, <2>2, AgreeEquivalence
    <2> QED BY <1>1, <1>7, <2>3, AgreeRemainder
  <1>10. ASSUME ~Agree(M, u, 0) PROVE Agree(M, y * u, 1)
    <2>1. r # 0
      BY <1>6, <1>10
    <2> QED BY <1>8, <2>1 DEF t
  <1>11. ASSUME u = 0 PROVE y = 0
    <2>1. b = M
      BY <1>11 DEF b, BaseOf, u
    <2>2. e - 1 \in Nat /\ (e - 1) + 1 = e
      BY <1>1
    <2>3. x = M * Power(M, e - 1) /\ Power(M, e - 1) \in Nat
      <3>1. Power(M, (e - 1) + 1) = M * Power(M, e - 1) /\ Power(M, e - 1) \in Nat
        BY <1>1, <2>2, PowerStep, PowerIsPositive
      <3> QED BY <2>1, <2>2, <3>1 DEF x
    <2>4. Agree(M, x, 0)
      <3> DEFINE k == Power(M, e - 1)
      <3>1. k \in Int /\ x = 0 + M * k /\ x \in Int
        BY <1>1, <2>3
      <3> QED BY <3>1 DEF Agree
    <2>5. Agree(M, y, 0)
      BY <1>1, <1>3, <2>4, AgreeEquivalence
    <2>6. 0 \in 0 .. M - 1
      BY <1>1
    <2> QED BY <1>1, <1>4, <2>5, <2>6, AgreeRemainder
  <1> QED BY <1>4, <1>9, <1>10, <1>11 DEF t, r, u, y, M

\* The mask is a power of two that divides the base of the limbs more than once, or zero.
GoodMask(m) ==
    m = 0 \/ \E i \in Nat, j \in Nat \ {0} : m = Power(2, i) /\ LimbBase = m * (2 * j)

\* It starts as half the base,
LEMMA MaskStarts == GoodMask(LimbBase \div 2) /\ 2 * (LimbBase \div 2) = LimbBase
  <1>1. PICK k \in 1 .. LimbBase : LimbBase = Power(2, k)
    BY ByteAssumption
  <1>2. k - 1 \in Nat /\ k = (k - 1) + 1 /\ 2 \in Nat \ {0}
    BY BaseIsPositive
  <1> DEFINE m == Power(2, k - 1)
  <1>3. LimbBase = 2 * m /\ m \in Nat \ {0}
    BY <1>1, <1>2, PowerStep, PowerIsPositive
  <1>4. m = Power(2, k - 1) /\ 1 \in Nat \ {0}
    OBVIOUS
  <1> HIDE DEF m
  <1>5. LimbBase \div 2 = m /\ LimbBase = m * (2 * 1)
    BY <1>3
  <1> QED BY <1>2, <1>3, <1>4, <1>5 DEF GoodMask

\* and halving it keeps it so.
LEMMA MaskHalves ==
    ASSUME NEW m, GoodMask(m)
    PROVE  /\ m \in 0 .. LimbBase \div 2
           /\ m # 0 => GoodMask(m \div 2) /\ (IF m \div 2 = 0 THEN 1 ELSE 2 * (m \div 2)) = m
  <1>1. LimbBase \in Nat /\ 2 \in Nat \ {0}
    BY BaseIsPositive
  <1>2. CASE m = 0
    <2>1. LimbBase \div 2 \in Nat
      BY <1>1
    <2> QED BY <1>2, <2>1
  <1>3. CASE m # 0
    <2>1. PICK i \in Nat, j \in Nat \ {0} : m = Power(2, i) /\ LimbBase = m * (2 * j)
      BY <1>3 DEF GoodMask
    <2>2. m \in Nat \ {0}
      BY <1>1, <2>1, PowerIsPositive
    <2>3. m \in 0 .. LimbBase \div 2
      <3>1. LimbBase = 2 * (m * j) /\ m * j \in Nat
        BY <2>1, <2>2
      <3>2. m * 1 <= m * j
        BY <2>2, ScaleLe
      <3> DEFINE q == m * j
      <3>3. q \in Nat /\ m <= q /\ LimbBase = 2 * q
        BY <2>2, <3>1, <3>2
      <3> HIDE DEF q
      <3> QED BY <2>2, <3>3
    <2>4. CASE i = 0
      <3>1. m = 1
        BY <1>1, <2>1, <2>4, PowerStep
      <3>2. m \div 2 = 0
        BY <3>1
      <3> QED BY <2>3, <3>1, <3>2 DEF GoodMask
    <2>5. CASE i # 0
      <3>1. i - 1 \in Nat /\ i = (i - 1) + 1
        BY <2>5
      <3> DEFINE h == Power(2, i - 1)
      <3>2. m = 2 * h /\ h \in Nat \ {0}
        BY <1>1, <2>1, <3>1, PowerStep, PowerIsPositive
      <3>3. h = Power(2, i - 1)
        OBVIOUS
      <3> HIDE DEF h
      <3>4. m \div 2 = h /\ LimbBase = h * (2 * (2 * j)) /\ 2 * j \in Nat \ {0}
        BY <2>1, <3>2
      <3>5. GoodMask(h)
        BY <3>1, <3>3, <3>4 DEF GoodMask
      <3> QED BY <2>3, <3>2, <3>4, <3>5
    <2> QED BY <2>4, <2>5
  <1> QED BY <1>2, <1>3

\* What the mask takes from a limb is the next bit of the number.
LEMMA ConsumedBit ==
    ASSUME NEW u \in Limbs(LIMBS), NEW k \in 1 .. LIMBS, NEW m, GoodMask(m), m # 0
    PROVE  LET W == Power(LimbBase, k - 1)  b == MaskedBit(u[k], m)
           IN  /\ b \in {0, 1} /\ m * W \in Nat \ {0} /\ (2 * m) * W \in Nat \ {0}
               /\ Value(u) \div (m * W) = 2 * (Value(u) \div ((2 * m) * W)) + b
               /\ Value(u) \div ((2 * m) * W) \in Nat
  <1> DEFINE W == Power(LimbBase, k - 1)  b == MaskedBit(u[k], m)  v == Value(u)  t == v \div W
             x == u[k]
  <1>1. LIMBS \in Nat /\ LimbBase \in Nat \ {0} /\ k - 1 \in Nat /\ 2 \in Nat \ {0}
    BY BaseIsPositive
  <1>2. PICK i \in Nat, j \in Nat \ {0} : m = Power(2, i) /\ LimbBase = m * (2 * j)
    BY DEF GoodMask
  <1>3. m \in Nat \ {0} /\ W \in Nat \ {0} /\ x \in Nat
    <2>1. x \in 0 .. LimbBase - 1
      BY DEF Limbs
    <2> QED BY <1>1, <1>2, <2>1, PowerIsPositive
  <1>4. PICK h \in Nat : t = x + LimbBase * h
    BY <1>1, LimbOfValue
  <1>5. v \in Nat
    <2>1. v \in 0 .. R - 1 /\ R \in Nat
      BY <1>1, DenotesValue, SmallConstants
    <2> QED BY <2>1
  <1> DEFINE a == x \div m  r == x % m  e == a \div 2
  <1>6. a \in Nat /\ r \in 0 .. m - 1 /\ x = m * a + r
    BY <1>3, DivModNat
  <1>7. e \in Nat /\ b \in {0, 1} /\ a = 2 * e + b
    <2> HIDE DEF a
    <2>1. e \in Nat /\ (a % 2) \in 0 .. 1 /\ a = 2 * e + (a % 2)
      <3>1. 2 - 1 = 1
        OBVIOUS
      <3> QED BY <1>1, <1>6, <3>1, DivModNat
    <2>2. b = a % 2
      BY DEF MaskedBit, a
    <2> QED BY <2>1, <2>2
  <1> HIDE DEF W, v, t, b, a, r, e, x
  <1> DEFINE q == a + (2 * j) * h
  <1>8. q \in Nat /\ t \in Nat /\ t = r + m * q
    <2>1. (2 * j) * h \in Nat
      BY <1>2
    <2>2. LimbBase * h = m * ((2 * j) * h)
      BY <1>2, <1>3
    <2> DEFINE n == (2 * j) * h
    <2>3. n \in Nat /\ t = x + m * n
      BY <1>4, <2>1, <2>2
    <2> HIDE DEF n
    <2>4. m * n \in Nat
      BY <1>3, <2>3
    <2>5. x + m * n = r + m * (a + n)
      BY <1>3, <1>6, <2>3
    <2> QED BY <1>3, <1>6, <2>3, <2>4, <2>5 DEF n
  <1>9. t \div m = q
    <2> HIDE DEF q
    <2> QED BY <1>3, <1>6, <1>8, QuotientOf
  <1>10. q = b + 2 * (e + j * h) /\ e + j * h \in Nat
    <2>1. j * h \in Nat /\ (2 * j) * h = 2 * (j * h)
      BY <1>2
    <2> QED BY <1>7, <2>1
  <1> DEFINE f == e + j * h
  <1>11. q \div 2 = f /\ f \in Nat /\ q = b + 2 * f
    <2>1. f \in Nat /\ q = b + 2 * f
      BY <1>10
    <2> HIDE DEF f, q
    <2>2. b \in 0 .. 2 - 1
      BY <1>7
    <2>3. q \in Int
      BY <1>7, <2>1
    <2> QED BY <1>1, <2>1, <2>2, <2>3, QuotientOf
  <1> HIDE DEF q, f
  <1>12. v \div (m * W) = q /\ m * W \in Nat \ {0}
    <2>1. m * W = W * m /\ m * W \in Nat \ {0}
      BY <1>3
    <2>2. v \div (W * m) = t \div m
      BY <1>3, <1>5, QuotientTwice DEF t
    <2> QED BY <1>9, <2>1, <2>2
  <1>13. v \div ((2 * m) * W) = f /\ (2 * m) * W \in Nat \ {0}
    <2> DEFINE n == m * W
    <2>1. n \in Nat \ {0}
      BY <1>12
    <2>2. (2 * m) * W = n * 2
      BY <1>3
    <2> HIDE DEF n
    <2>3. \A o \in Nat \ {0} : v \div (n * o) = (v \div n) \div o
      BY <1>5, <2>1, QuotientTwice
    <2>4. v \div (n * 2) = (v \div n) \div 2
      BY <1>1, <2>3
    <2>5. v \div n = q
      BY <1>12 DEF n
    <2>6. n * 2 \in Nat \ {0}
      BY <2>1
    <2> QED BY <1>11, <2>2, <2>4, <2>5, <2>6
  <1>14. q = 2 * f + b
    BY <1>7, <1>11
  <1> QED BY <1>7, <1>11, <1>12, <1>13, <1>14 DEF v, W, b, x

\* The weight of the bits consumed so far.
WeightOf(m, k) == (IF m = 0 THEN 1 ELSE 2 * m) * Power(LimbBase, k - 1)

\* The weight starts as the range of the scalars, halves with the mask, is the same at the
\* end of a limb and at the start of the next, and ends as one.
LEMMA WeightSteps ==
    /\ WeightOf(LimbBase \div 2, LIMBS) = R
    /\ \A k \in 2 .. LIMBS : WeightOf(LimbBase \div 2, k - 1) = WeightOf(0, k)
    /\ WeightOf(0, 1) = 1
    /\ \A k : \A m : m # 0 => WeightOf(m, k) = (2 * m) * Power(LimbBase, k - 1)
    /\ \A k \in 1 .. LIMBS : \A m : GoodMask(m) /\ m # 0 =>
          WeightOf(m \div 2, k) = m * Power(LimbBase, k - 1)
  <1>1. LimbBase \in Nat \ {0} /\ LIMBS \in Nat \ {0} /\ LimbBase >= 3
    BY BaseIsPositive
  <1>2. 2 * (LimbBase \div 2) = LimbBase /\ LimbBase \div 2 # 0
    BY <1>1, MaskStarts
  <1>3. ASSUME NEW k \in 1 .. LIMBS
        PROVE  WeightOf(LimbBase \div 2, k) = Power(LimbBase, k)
    <2>1. k - 1 \in Nat /\ k = (k - 1) + 1
      BY <1>1
    <2>2. Power(LimbBase, k) = LimbBase * Power(LimbBase, k - 1)
      BY <1>1, <2>1, PowerStep
    <2> QED BY <1>2, <2>2 DEF WeightOf
  <1>4. WeightOf(LimbBase \div 2, LIMBS) = R
    <2>1. LIMBS \in 1 .. LIMBS
      BY <1>1
    <2> QED BY <1>3, <2>1 DEF R
  <1>5. ASSUME NEW k \in 2 .. LIMBS PROVE WeightOf(LimbBase \div 2, k - 1) = WeightOf(0, k)
    <2>1. k - 1 \in 1 .. LIMBS /\ k - 1 \in Nat
      BY <1>1
    <2>2. WeightOf(0, k) = 1 * Power(LimbBase, k - 1) /\ Power(LimbBase, k - 1) \in Nat
      BY <1>1, <2>1, PowerIsPositive DEF WeightOf
    <2>3. 1 * Power(LimbBase, k - 1) = Power(LimbBase, k - 1)
      BY <2>2
    <2> QED BY <1>3, <2>1, <2>2, <2>3
  <1>6. WeightOf(0, 1) = 1
    <2>1. 1 - 1 = 0 /\ Power(LimbBase, 0) = 1
      BY <1>1, PowerStep
    <2>2. Power(LimbBase, 1 - 1) = 1
      BY <2>1
    <2> QED BY <2>2 DEF WeightOf
  <1>7. \A k : \A m : m # 0 => WeightOf(m, k) = (2 * m) * Power(LimbBase, k - 1)
    BY DEF WeightOf
  <1>8. ASSUME NEW k \in 1 .. LIMBS, NEW m, GoodMask(m), m # 0
        PROVE  WeightOf(m \div 2, k) = m * Power(LimbBase, k - 1)
    <2>1. (IF m \div 2 = 0 THEN 1 ELSE 2 * (m \div 2)) = m
      BY <1>8, MaskHalves
    <2> QED BY <2>1 DEF WeightOf
  <1> QED BY <1>4, <1>5, <1>6, <1>7, <1>8

---------------------------------------------------------------------------
\* The group

\* The multiples of the base point, for any integer.
Mul(curve, k) == Multiples[curve][k % curve.n]

\* They are a group: an integer times the base point depends on its residue only, and every
\* point of the curve is one of them.
LEMMA MultiplesAreGroup ==
    ASSUME NEW curve \in Curves
    PROVE  /\ Mul(curve, 0) = <<>> /\ Mul(curve, 1) = <<curve.gx, curve.gy>>
           /\ \A j \in Int, k \in Int : AffineAdd(curve, Mul(curve, j), Mul(curve, k)) = Mul(curve, j + k)
           /\ \A k \in Int : IF Agree(curve.n, k, 0) THEN Mul(curve, k) = <<>>
                             ELSE Mul(curve, k) \in CurvePoints(curve)
           /\ \A j \in Int, k \in Int : Agree(curve.n, j, k) => Mul(curve, j) = Mul(curve, k)
           /\ \A A \in CurvePoints(curve) : \E k \in 1 .. curve.n - 1 : Mul(curve, k) = A
           /\ \A k \in 0 .. curve.n - 1 : Mul(curve, k) = Multiples[curve][k]
  <1> DEFINE n == curve.n  M == Multiples[curve]
  <1>1. n \in Nat \ {0} /\ n > 2
    BY CurveModuli
  <1>2. /\ M[0] = <<>> /\ M[1] = <<curve.gx, curve.gy>>
        /\ {M[k] : k \in 1 .. n - 1} = CurvePoints(curve)
        /\ \A j \in 0 .. n - 1, k \in 0 .. n - 1 :
              AffineAdd(curve, M[j], M[k]) = M[(j + k) % n]
    BY GroupAssumption
  <1> HIDE DEF M
  <1>3. \A k \in Int : k % n \in 0 .. n - 1 /\ Agree(n, k % n, k)
    BY <1>1, AgreeRemainder
  <1>4. \A k \in 0 .. n - 1 : k % n = k
    BY <1>1, AgreeRemainder
  <1>5. \A k \in 0 .. n - 1 : Mul(curve, k) = M[k]
    BY <1>4 DEF Mul, M
  <1>6. 0 \in 0 .. n - 1 /\ 1 \in 0 .. n - 1
    BY <1>1
  <1>7. ASSUME NEW j \in Int, NEW k \in Int
        PROVE  AffineAdd(curve, Mul(curve, j), Mul(curve, k)) = Mul(curve, j + k)
    <2> DEFINE r == j % n  s == k % n
    <2>1. r \in 0 .. n - 1 /\ s \in 0 .. n - 1 /\ Agree(n, r, j) /\ Agree(n, s, k)
      BY <1>3
    <2>2. Mul(curve, j) = M[r] /\ Mul(curve, k) = M[s]
      BY DEF Mul, M
    <2> HIDE DEF r, s
    <2>3. Agree(n, r + s, j + k)
      BY <1>1, <2>1, AgreeOperations
    <2>4. (r + s) % n = (j + k) % n
      BY <1>1, <2>3, AgreeRemainder
    <2>5. AffineAdd(curve, M[r], M[s]) = M[(r + s) % n]
      BY <1>2, <2>1
    <2> QED BY <2>2, <2>4, <2>5 DEF Mul, M
  <1>8. ASSUME NEW k \in Int
        PROVE  IF Agree(n, k, 0) THEN Mul(curve, k) = <<>> ELSE Mul(curve, k) \in CurvePoints(curve)
    <2> DEFINE r == k % n
    <2>1. r \in 0 .. n - 1 /\ Agree(n, r, k)
      BY <1>3
    <2>2. Mul(curve, k) = M[r]
      BY DEF Mul, M
    <2> HIDE DEF r
    <2>3. CASE Agree(n, k, 0)
      <3>1. Agree(n, r, 0)
        BY <1>1, <2>1, <2>3, AgreeEquivalence
      <3>2. r = 0
        BY <1>1, <1>6, <2>1, <3>1, AgreeRemainder
      <3> QED BY <1>2, <2>2, <2>3, <3>2
    <2>4. CASE ~Agree(n, k, 0)
      <3>1. r # 0
        BY <1>1, <2>1, <2>4, AgreeEquivalence
      <3>2. r \in 1 .. n - 1
        BY <1>1, <2>1, <3>1
      <3> QED BY <1>2, <2>2, <2>4, <3>2
    <2> QED BY <2>3, <2>4
  <1>9. ASSUME NEW j \in Int, NEW k \in Int, Agree(n, j, k) PROVE Mul(curve, j) = Mul(curve, k)
    <2>1. j % n = k % n
      BY <1>1, <1>9, AgreeRemainder
    <2> QED BY <2>1 DEF Mul
  <1>10. ASSUME NEW A \in CurvePoints(curve) PROVE \E k \in 1 .. n - 1 : Mul(curve, k) = A
    <2>1. PICK k \in 1 .. n - 1 : M[k] = A
      BY <1>2
    <2>2. k \in 0 .. n - 1
      BY <1>1
    <2> QED BY <1>5, <2>1, <2>2
  <1> QED BY <1>2, <1>5, <1>6, <1>7, <1>8, <1>9, <1>10 DEF M

\* The joint multiple for one more bit of each scalar.
LEMMA JointMultiple ==
    ASSUME NEW curve \in Curves, NEW sk \in Int, NEW u \in Int, NEW v \in Int,
           NEW b1 \in Flags, NEW b2 \in Flags
    PROVE  LET A == Mul(curve, u + v * sk)
           IN  AffineAdd(curve, AffineAdd(curve, A, A),
                         Addend(b1, b2, <<>>, Mul(curve, 1), Mul(curve, sk), Mul(curve, 1 + sk)))
                 = Mul(curve, (2 * u + b1) + (2 * v + b2) * sk)
  <1> DEFINE k == u + v * sk  A == Mul(curve, k)  e == b1 + b2 * sk
             B == Addend(b1, b2, <<>>, Mul(curve, 1), Mul(curve, sk), Mul(curve, 1 + sk))
  <1>0. b1 \in {0, 1} /\ b2 \in {0, 1}
    BY DEF Flags
  <1>1. k \in Int /\ e \in Int
    <2>1. v * sk \in Int /\ b2 * sk \in Int /\ b1 \in Int
      BY <1>0
    <2> QED BY <2>1
  <1>2. B = Mul(curve, e)
    <2>1. CASE b2 = 1 /\ b1 = 1
      <3>1. e = 1 + sk
        BY <2>1
      <3> QED BY <2>1, <3>1 DEF Addend
    <2>2. CASE b2 = 1 /\ b1 = 0
      <3>1. e = sk
        BY <2>2
      <3> QED BY <2>2, <3>1 DEF Addend
    <2>3. CASE b2 = 0 /\ b1 = 1
      <3>1. e = 1
        BY <2>3
      <3> QED BY <2>3, <3>1 DEF Addend
    <2>4. CASE b2 = 0 /\ b1 = 0
      <3>1. e = 0
        BY <2>4
      <3>2. Mul(curve, 0) = <<>>
        BY MultiplesAreGroup
      <3> QED BY <2>4, <3>1, <3>2 DEF Addend
    <2> QED BY <1>0, <2>1, <2>2, <2>3, <2>4
  <1>3. (k + k) + e = (2 * u + b1) + (2 * v + b2) * sk
    BY <1>0
  <1> HIDE DEF k, e, B
  <1>4. AffineAdd(curve, A, A) = Mul(curve, k + k) /\ k + k \in Int
    BY <1>1, MultiplesAreGroup
  <1>5. AffineAdd(curve, Mul(curve, k + k), Mul(curve, e)) = Mul(curve, (k + k) + e)
    BY <1>1, <1>4, MultiplesAreGroup
  <1>6. AffineAdd(curve, AffineAdd(curve, A, A), B) = Mul(curve, (2 * u + b1) + (2 * v + b2) * sk)
    BY <1>2, <1>3, <1>4, <1>5
  <1> QED BY <1>6 DEF k, B

\* A multiple is infinity or a point of the curve.
LEMMA MultipleIsPoint ==
    ASSUME NEW curve \in Curves, NEW k \in Int
    PROVE  Mul(curve, k) = <<>> \/ Mul(curve, k) \in CurvePoints(curve)
  BY MultiplesAreGroup

---------------------------------------------------------------------------
\* The operands and the flags

\* The bytes of an operand.
LEMMA BytesOfOperand ==
    /\ LIMBS * BytesPerLimb \in Nat \ {0} /\ BytesPerLimb \in Nat \ {0} /\ ByteBase \in Nat \ {0}
    /\ LIMBS \in Nat \ {0}
    /\ \A bytes \in ArrayOfBytes :
          /\ Len(bytes) = LIMBS * BytesPerLimb
          /\ \A k \in 1 .. LIMBS * BytesPerLimb : bytes[k] \in 0 .. ByteBase - 1
  <1>1. BytesPerLimb \in Nat \ {0} /\ ByteBase \in Nat \ {0} /\ LIMBS \in Nat \ {0}
    BY ByteAssumption, BaseIsPositive
  <1>2. LIMBS * BytesPerLimb \in Nat \ {0}
    BY <1>1
  <1> DEFINE N == LIMBS * BytesPerLimb
  <1>3. N \in Nat
    BY <1>2
  <1>4. ASSUME NEW bytes \in ArrayOfBytes
        PROVE  Len(bytes) = N /\ \A k \in 1 .. N : bytes[k] \in 0 .. ByteBase - 1
    <2>1. bytes \in [1 .. N -> 0 .. ByteBase - 1]
      BY DEF ArrayOfBytes
    <2> HIDE DEF N
    <2>2. Len(bytes) = N
      BY <1>3, <2>1, OfItsLength
    <2> QED BY <2>1, <2>2
  <1> QED BY <1>1, <1>2, <1>4

\* The number that an array of bytes denotes, byte by byte.
LEMMA BigEndianUnfolds ==
    ASSUME NEW bytes \in ArrayOfBytes
    PROVE  \E h \in [0 .. LIMBS * BytesPerLimb -> Nat] :
              /\ BigEndian(bytes) = h[LIMBS * BytesPerLimb] /\ h[0] = 0
              /\ \A k \in 1 .. LIMBS * BytesPerLimb : h[k] = h[k - 1] * ByteBase + bytes[k]
  <1> DEFINE N == LIMBS * BytesPerLimb
             grow(a, k) == a * ByteBase + bytes[k]
             step == [k \in 1 .. N |-> [a \in Nat |-> grow(a, k)]]
             Sums(s) == s = [k \in 0 .. N |-> IF k = 0 THEN 0 ELSE grow(s[k - 1], k)]
             sum == CHOOSE s : Sums(s)
  <1>1. N \in Nat /\ ByteBase \in Nat /\ Len(bytes) = N /\ \A k \in 1 .. N : bytes[k] \in Nat
    BY BytesOfOperand
  <1> HIDE DEF N
  <1>2. \A k \in 1 .. N, a \in Nat : grow(a, k) \in Nat
    BY <1>1
  <1> HIDE DEF grow
  <1>3. step \in [1 .. N -> [Nat -> Nat]]
    BY <1>2
  <1>4. PICK f \in [0 .. N -> Nat] : Follows(f, N, 0, step)
    <2>1. 0 \in Nat
      OBVIOUS
    <2> HIDE DEF step
    <2> QED BY <1>1, <1>3, <2>1, UpToRecursion
  <1>5. f[0] = 0 /\ \A k \in 1 .. N : f[k] = grow(f[k - 1], k)
    <2>1. \A k \in 1 .. N : k - 1 \in 0 .. N
      BY <1>1
    <2>2. \A k \in 1 .. N, a \in Nat : step[k][a] = grow(a, k)
      OBVIOUS
    <2> HIDE DEF step
    <2>3. \A k \in 1 .. N : f[k] = step[k][f[k - 1]] /\ f[k - 1] \in Nat
      BY <1>4, <2>1 DEF Follows
    <2> QED BY <1>4, <2>2, <2>3 DEF Follows
  <1> HIDE DEF step
  <1>6. Sums(f)
    <2>1. \A k \in 0 .. N : f[k] = IF k = 0 THEN 0 ELSE grow(f[k - 1], k)
      BY <1>1, <1>5
    <2> QED BY <2>1
  <1>7. Sums(sum)
    <2> HIDE DEF Sums
    <2> QED BY <1>6
  <1>8. BigEndian(bytes) = sum[N]
    <2>1. Len(bytes) = N
      BY <1>1
    <2> QED BY <2>1 DEF BigEndian, grow
  <1> HIDE DEF sum
  <1>9. sum[0] = 0 /\ \A k \in 1 .. N : sum[k] = grow(sum[k - 1], k)
    BY <1>1, <1>7
  <1>10. sum = [k \in 0 .. N |-> sum[k]]
    <2>1. sum = [k \in 0 .. N |-> IF k = 0 THEN 0 ELSE grow(sum[k - 1], k)]
      BY <1>7
    <2> QED BY <2>1
  <1> HIDE DEF Sums
  <1> DEFINE S == {k \in 0 .. N : sum[k] \in Nat}
  <1>11. 0 \in S
    BY <1>1, <1>9
  <1>12. ASSUME NEW k \in 0 .. N - 1, k \in S PROVE k + 1 \in S
    <2>1. k + 1 \in 1 .. N /\ (k + 1) - 1 = k /\ k + 1 \in 0 .. N
      BY <1>1
    <2> QED BY <1>2, <1>9, <1>12, <2>1
  <1>13. \A k \in 0 .. N : k \in S
    <2> HIDE DEF S
    <2> QED BY <1>1, <1>11, <1>12, UpToInduction
  <1>14. sum \in [0 .. N -> Nat]
    BY <1>10, <1>13
  <1> QED BY <1>8, <1>9, <1>14 DEF grow, N

\* A limb of the packed operand, byte by byte.
LEMMA PackUnfolds ==
    ASSUME NEW bytes \in ArrayOfBytes, NEW k \in 1 .. LIMBS
    PROVE  \E s :
              /\ Pack(bytes)[k] = s[BytesPerLimb] /\ s[0] = 0
              /\ \A i \in 1 .. BytesPerLimb :
                    s[i] = Felt(s[i - 1] + bytes[(LIMBS - k) * BytesPerLimb + i]
                                             * Power(ByteBase, BytesPerLimb - i))
  <1> DEFINE n == BytesPerLimb  start == (LIMBS - k) * n
             grow(a, i) == Felt(a + bytes[start + i] * Power(ByteBase, n - i))
             step == [i \in 1 .. n |-> [a \in Int |-> grow(a, i)]]
             Sums(s) == s = [i \in 0 .. n |-> IF i = 0 THEN 0 ELSE grow(s[i - 1], i)]
             sum == CHOOSE s : Sums(s)
  <1>1. n \in Nat /\ LIMBS \in Nat /\ FieldP \in Nat \ {0} /\ ByteBase \in Nat \ {0}
    BY BytesOfOperand, RoomInFelt
  <1>2. \A i \in 1 .. n : bytes[start + i] \in Int
    <2>1. LIMBS - k \in Nat /\ (LIMBS - k) + 1 <= LIMBS
      BY <1>1
    <2>2. n * ((LIMBS - k) + 1) <= n * LIMBS
      BY <1>1, <2>1, ScaleLe
    <2>3. n * ((LIMBS - k) + 1) = start + n /\ n * LIMBS = LIMBS * n /\ start \in Nat
      BY <1>1, <2>1
    <2> HIDE DEF start
    <2>4. \A i \in 1 .. n : start + i \in 1 .. LIMBS * n
      BY <1>1, <2>2, <2>3
    <2>5. \A j \in 1 .. LIMBS * n : bytes[j] \in Int
      BY BytesOfOperand
    <2> QED BY <2>4, <2>5
  <1>3. \A i \in 1 .. n, a \in Int : grow(a, i) \in Int
    <2>1. ASSUME NEW x \in Int PROVE Felt(x) \in Int
      BY <1>1, DivMod DEF Felt
    <2>2. ASSUME NEW i \in 1 .. n, NEW a \in Int PROVE grow(a, i) \in Int
      <3>1. n - i \in Nat
        BY <1>1
      <3>2. Power(ByteBase, n - i) \in Int /\ bytes[start + i] \in Int
        BY <1>1, <1>2, <3>1, PowerIsPositive
      <3>3. a + bytes[start + i] * Power(ByteBase, n - i) \in Int
        BY <3>2
      <3> QED BY <2>1, <3>3
    <2> QED BY <2>2
  <1> HIDE DEF grow
  <1>4. step \in [1 .. n -> [Int -> Int]]
    BY <1>3
  <1>5. PICK f \in [0 .. n -> Int] : Follows(f, n, 0, step)
    <2>1. 0 \in Int
      OBVIOUS
    <2> HIDE DEF step
    <2> QED BY <1>1, <1>4, <2>1, UpToRecursion
  <1>6. f[0] = 0 /\ \A i \in 1 .. n : f[i] = grow(f[i - 1], i)
    <2>1. \A i \in 1 .. n : i - 1 \in 0 .. n
      BY <1>1
    <2>2. \A i \in 1 .. n, a \in Int : step[i][a] = grow(a, i)
      OBVIOUS
    <2> HIDE DEF step
    <2>3. \A i \in 1 .. n : f[i] = step[i][f[i - 1]] /\ f[i - 1] \in Int
      BY <1>5, <2>1 DEF Follows
    <2> QED BY <1>5, <2>2, <2>3 DEF Follows
  <1> HIDE DEF step
  <1>7. Sums(f)
    <2>1. \A i \in 0 .. n : f[i] = IF i = 0 THEN 0 ELSE grow(f[i - 1], i)
      BY <1>1, <1>6
    <2> QED BY <2>1
  <1>8. Sums(sum)
    <2> HIDE DEF Sums
    <2> QED BY <1>7
  <1>9. Pack(bytes)[k] = sum[n]
    BY DEF Pack, grow
  <1> HIDE DEF sum
  <1>10. sum[0] = 0 /\ \A i \in 1 .. n : sum[i] = grow(sum[i - 1], i)
    BY <1>1, <1>8
  <1> QED BY <1>9, <1>10 DEF grow

\* A packed limb is a limb, and adds to the number of the bytes before it what its bytes add.
LEMMA PackedLimb ==
    ASSUME NEW bytes \in ArrayOfBytes, NEW k \in 1 .. LIMBS,
           NEW h \in [0 .. LIMBS * BytesPerLimb -> Nat],
           \A j \in 1 .. LIMBS * BytesPerLimb : h[j] = h[j - 1] * ByteBase + bytes[j]
    PROVE  LET start == (LIMBS - k) * BytesPerLimb
           IN  /\ Pack(bytes)[k] \in 0 .. LimbBase - 1
               /\ h[start + BytesPerLimb] = h[start] * LimbBase + Pack(bytes)[k]
               /\ start \in Nat
  <1> DEFINE n == BytesPerLimb  N == LIMBS * n  start == (LIMBS - k) * n  B == ByteBase  L == LimbBase
             w(i) == Power(B, n - i)
  <1>1. PICK s : /\ Pack(bytes)[k] = s[n] /\ s[0] = 0
                 /\ \A i \in 1 .. n : s[i] = Felt(s[i - 1] + bytes[start + i] * w(i))
    BY PackUnfolds
  <1>2. /\ n \in Nat \ {0} /\ LIMBS \in Nat \ {0} /\ B \in Nat \ {0} /\ L \in Nat \ {0} /\ N \in Nat
        /\ L = Power(B, n) /\ L <= FieldP
    <2>1. n \in Nat \ {0} /\ LIMBS \in Nat \ {0} /\ B \in Nat \ {0} /\ L \in Nat \ {0} /\ N \in Nat
      BY BytesOfOperand, BaseIsPositive
    <2>2. 2 * L < FieldP /\ FieldP \in Nat
      BY RoomForTwo, RoomInFelt
    <2> QED BY <2>1, <2>2, ByteAssumption
  <1>3. start \in Nat /\ start + n <= N
    <2>1. LIMBS - k \in Nat /\ (LIMBS - k) + 1 <= LIMBS
      BY <1>2
    <2>2. n * ((LIMBS - k) + 1) <= n * LIMBS
      BY <1>2, <2>1, ScaleLe
    <2>3. n * ((LIMBS - k) + 1) = start + n /\ n * LIMBS = N /\ start \in Nat
      BY <1>2, <2>1
    <2> QED BY <2>2, <2>3
  <1> DEFINE H == h[start]
             S == {i \in 0 .. n : /\ s[i] \in Nat /\ s[i] + w(i) <= L
                                  /\ h[start + i] * w(i) = H * L + s[i]}
  <1>4. \A j \in 1 .. N : bytes[j] \in 0 .. B - 1
    BY BytesOfOperand
  <1> HIDE DEF start, B, L, n, N
  <1>5. H \in Nat
    <2>1. start \in 0 .. N
      BY <1>2, <1>3
    <2> QED BY <2>1 DEF n, N
  <1>6. 0 \in S
    <2>1. w(0) = L /\ start + 0 = start
      <3>1. n - 0 = n
        BY <1>2
      <3> QED BY <1>2, <1>3, <3>1
    <2>2. s[0] = 0 /\ 0 + L <= L /\ H * L = H * L + 0 /\ 0 \in 0 .. n
      <3>1. H * L \in Nat
        BY <1>2, <1>5
      <3> QED BY <1>1, <1>2, <3>1
    <2> QED BY <2>1, <2>2
  <1>7. ASSUME NEW i \in 0 .. n - 1, i \in S PROVE i + 1 \in S
    <2> DEFINE j == i + 1  y == bytes[start + j]  v == w(j)  a == s[i]
    <2>1. j \in 1 .. n /\ j \in 0 .. n /\ j - 1 = i /\ n - j \in Nat /\ (n - j) + 1 = n - i
      BY <1>2
    <2>2. start + j \in 1 .. N /\ start + i \in 0 .. N /\ (start + j) - 1 = start + i
      BY <1>2, <1>3, <2>1
    <2>3. y \in 0 .. B - 1
      BY <1>4, <2>2
    <2>4. v \in Nat \ {0} /\ w(i) = B * v
      <3>1. Power(B, (n - j) + 1) = B * Power(B, n - j) /\ Power(B, n - j) \in Nat \ {0}
        BY <1>2, <2>1, PowerStep, PowerIsPositive
      <3> QED BY <2>1, <3>1
    <2>5. a \in Nat /\ a + w(i) <= L /\ h[start + i] * w(i) = H * L + a
      BY <1>7
    <2>6. h[start + i] \in Nat /\ h[start + j] = h[start + i] * B + y
      <3>1. h[start + i] \in Nat
        BY <2>2 DEF N, n
      <3>2. h[start + j] = h[(start + j) - 1] * ByteBase + bytes[start + j]
        BY <2>2 DEF N, n
      <3> QED BY <2>2, <3>1, <3>2 DEF B
    <2>7. s[j] = Felt(a + y * v)
      BY <1>1, <2>1 DEF n, start, B
    <2> HIDE DEF j, y, v, a
    <2>8. a + y * v + v <= L /\ a + y * v \in Nat
      <3>1. y + 1 <= B /\ y \in Nat
        BY <1>2, <2>3
      <3>2. v * (y + 1) <= v * B
        BY <1>2, <2>4, <3>1, ScaleLe
      <3>3. v * (y + 1) = y * v + v /\ v * B = B * v /\ y * v \in Nat /\ B * v \in Nat
        BY <1>2, <2>4, <3>1
      <3> QED BY <1>2, <2>4, <2>5, <3>2, <3>3, SMTT(40)
    <2>9. s[j] = a + y * v
      <3> DEFINE t == a + y * v
      <3>1. t \in Nat /\ t + v <= L
        BY <2>8
      <3> HIDE DEF t
      <3>2. FieldP \in Nat
        BY RoomInFelt
      <3>3. t \in 0 .. FieldP - 1
        BY <1>2, <2>4, <3>1, <3>2
      <3>4. Felt(t) = t
        BY <3>3, SmallFelt
      <3> QED BY <2>7, <3>4 DEF t
    <2>10. h[start + j] * v = H * L + (a + y * v)
      <3> DEFINE e == h[start + i]  q == H * L
      <3>1. e \in Nat /\ q \in Nat /\ e * (B * v) = q + a /\ h[start + j] = e * B + y
        <4>1. q \in Nat
          BY <1>2, <1>5
        <4> QED BY <2>4, <2>5, <2>6, <4>1
      <3> HIDE DEF e, q
      <3>2. y \in Nat
        BY <1>2, <2>3
      <3>3. (e * B + y) * v = e * (B * v) + y * v
        BY <1>2, <2>4, <3>1, <3>2
      <3>4. y * v \in Nat
        BY <2>4, <3>2
      <3>5. (q + a) + y * v = q + (a + y * v)
        BY <2>5, <3>1, <3>4
      <3> QED BY <3>1, <3>3, <3>5 DEF q
    <2>11. s[j] \in Nat /\ s[j] + v <= L /\ h[start + j] * v = H * L + s[j]
      BY <2>8, <2>9, <2>10
    <2> QED BY <2>1, <2>11 DEF j, v
  <1>8. \A i \in 0 .. n : i \in S
    <2> HIDE DEF S
    <2> QED BY <1>2, <1>6, <1>7, UpToInduction
  <1>9. n \in S
    BY <1>2, <1>8
  <1>10. w(n) = 1
    <2>1. n - n = 0
      BY <1>2
    <2> QED BY <1>2, <2>1, PowerStep
  <1>11. s[n] \in 0 .. L - 1 /\ h[start + n] = H * L + s[n]
    <2>1. s[n] \in Nat /\ s[n] + 1 <= L /\ h[start + n] * 1 = H * L + s[n]
      BY <1>9, <1>10
    <2>2. h[start + n] \in Nat
      <3>1. start + n \in 0 .. N
        BY <1>2, <1>3
      <3> QED BY <3>1 DEF N, n
    <2> QED BY <1>2, <2>1, <2>2
  <1> QED BY <1>1, <1>3, <1>11 DEF L, start, n

\* The m high limbs of an operand.
TopOf(x, m) == [j \in 1 .. m |-> x[(LIMBS - m) + j]]

\* One more limb of an operand: the ones above it move up by one place.
LEMMA TopGrows ==
    ASSUME NEW x \in Limbs(LIMBS), NEW m \in 0 .. LIMBS - 1
    PROVE  /\ TopOf(x, m + 1) \in Limbs(m + 1)
           /\ Value(TopOf(x, m + 1)) = x[LIMBS - m] + LimbBase * Value(TopOf(x, m))
  <1> DEFINE t == TopOf(x, m + 1)  L == LimbBase
  <1>1. L \in Nat \ {0} /\ LIMBS \in Nat \ {0}
    BY BaseIsPositive
  <1>2. t \in Limbs(m + 1) /\ t[1] = x[LIMBS - m]
    <2>1. ASSUME NEW j \in 1 .. m + 1 PROVE (LIMBS - (m + 1)) + j \in 1 .. LIMBS
      BY <1>1
    <2>2. t \in Limbs(m + 1)
      BY <2>1 DEF TopOf, Limbs
    <2>3. 1 \in 1 .. m + 1 /\ (LIMBS - (m + 1)) + 1 = LIMBS - m
      BY <1>1
    <2> QED BY <2>2, <2>3 DEF TopOf
  <1>3. [k \in 1 .. m |-> t[1 + k]] = TopOf(x, m)
    <2>1. ASSUME NEW k \in 1 .. m PROVE t[1 + k] = x[(LIMBS - m) + k]
      <3>1. 1 + k \in 1 .. m + 1 /\ (LIMBS - (m + 1)) + (1 + k) = (LIMBS - m) + k
        BY <1>1
      <3> QED BY <3>1 DEF TopOf
    <2> QED BY <2>1 DEF TopOf
  <1>4. 1 + m = m + 1 /\ 1 \in Nat /\ m \in Nat
    OBVIOUS
  <1> HIDE DEF t
  <1>5. t \in [1 .. 1 + m -> Int] /\ t[1] \in Int
    <2>1. t \in [1 .. 1 + m -> 0 .. L - 1]
      BY <1>2, <1>4 DEF Limbs
    <2>2. 0 .. L - 1 \subseteq Int /\ 1 \in 1 .. 1 + m
      BY <1>1, <1>4
    <2> QED BY <2>1, <2>2
  <1>6. Value(t) = Value(First(t, 1)) + Power(L, 1) * Value(TopOf(x, m))
    BY <1>3, <1>4, <1>5, ValueSplits
  <1>7. Value(First(t, 1)) = t[1] /\ Power(L, 1) = L
    <2>1. Power(L, 0) = 1 /\ Power(L, 0 + 1) = L * Power(L, 0)
      BY <1>1, PowerStep
    <2>2. Value(First(t, 0)) = 0 /\ Value(First(t, 0 + 1)) = Value(First(t, 0)) + t[0 + 1] * Power(L, 0)
      <3>1. 0 \in 0 .. (1 + m) - 1 /\ 1 + m \in Nat
        BY <1>4
      <3> QED BY <1>5, <3>1, ValueUnfolds
    <2> QED BY <1>1, <1>5, <2>1, <2>2
  <1> QED BY <1>2, <1>6, <1>7 DEF t

\* The bytes of an operand are packed into limbs without loss: the limbs denote the
\* big-endian integer.
LEMMA PackExact ==
    ASSUME NEW bytes \in ArrayOfBytes
    PROVE  Pack(bytes) \in Limbs(LIMBS) /\ Value(Pack(bytes)) = BigEndian(bytes)
  <1> DEFINE n == BytesPerLimb  N == LIMBS * n  x == Pack(bytes)  L == LimbBase
  <1>1. n \in Nat \ {0} /\ LIMBS \in Nat \ {0} /\ L \in Nat \ {0}
    BY BytesOfOperand, BaseIsPositive
  <1>2. PICK h \in [0 .. LIMBS * BytesPerLimb -> Nat] :
              /\ BigEndian(bytes) = h[LIMBS * BytesPerLimb] /\ h[0] = 0
              /\ \A k \in 1 .. LIMBS * BytesPerLimb : h[k] = h[k - 1] * ByteBase + bytes[k]
    BY BigEndianUnfolds
  <1>3. ASSUME NEW k \in 1 .. LIMBS
        PROVE  /\ x[k] \in 0 .. L - 1
               /\ h[(LIMBS - k) * n + n] = h[(LIMBS - k) * n] * L + x[k]
    BY <1>2, PackedLimb
  <1>4. x \in Limbs(LIMBS)
    <2>1. x = [k \in 1 .. LIMBS |-> x[k]]
      BY DEF Pack
    <2> HIDE DEF x
    <2> QED BY <1>3, <2>1 DEF Limbs
  <1> DEFINE S == {m \in 0 .. LIMBS : TopOf(x, m) \in Limbs(m) /\ Value(TopOf(x, m)) = h[m * n]}
  <1> HIDE DEF x, L, n
  <1>5. 0 \in S
    <2>1. TopOf(x, 0) \in [1 .. 0 -> 0 .. L - 1]
      <3>1. \A j : j \notin 1 .. 0
        OBVIOUS
      <3> QED BY <3>1 DEF TopOf
    <2>2. TopOf(x, 0) = <<>>
      BY DEF TopOf
    <2>3. 0 * n = 0 /\ 0 \in 0 .. LIMBS
      BY <1>1
    <2> QED BY <1>2, <2>1, <2>2, <2>3, NoLimbs
  <1>6. ASSUME NEW m \in 0 .. LIMBS - 1, m \in S PROVE m + 1 \in S
    <2> DEFINE k == LIMBS - m
    <2>1. k \in 1 .. LIMBS /\ LIMBS - k = m /\ m + 1 \in 0 .. LIMBS
      BY <1>1
    <2>2. h[m * n + n] = h[m * n] * L + x[k] /\ x[k] \in 0 .. L - 1
      BY <1>3, <2>1
    <2>3. m * n + n = (m + 1) * n
      BY <1>1
    <2>4. TopOf(x, m + 1) \in Limbs(m + 1) /\ Value(TopOf(x, m + 1)) = x[k] + L * Value(TopOf(x, m))
      BY <1>4, TopGrows DEF L
    <2>5. Value(TopOf(x, m)) = h[m * n] /\ Value(TopOf(x, m)) \in Int
      <3>1. TopOf(x, m) \in Limbs(m) /\ m \in Nat
        BY <1>6
      <3>2. Value(TopOf(x, m)) \in 0 .. Power(LimbBase, m) - 1
        BY <3>1, ValueBounded
      <3> QED BY <1>6, <3>2
    <2>6. x[k] + L * Value(TopOf(x, m)) = h[m * n] * L + x[k]
      BY <1>1, <2>2, <2>5
    <2> QED BY <2>1, <2>2, <2>3, <2>4, <2>6
  <1>7. \A m \in 0 .. LIMBS : m \in S
    <2> HIDE DEF S
    <2> QED BY <1>1, <1>5, <1>6, UpToInduction
  <1>8. Value(TopOf(x, LIMBS)) = h[LIMBS * n]
    <2>1. LIMBS \in 0 .. LIMBS
      BY <1>1
    <2> QED BY <1>7, <2>1
  <1>9. TopOf(x, LIMBS) = x
    <2>1. x = [j \in 1 .. LIMBS |-> x[j]]
      BY <1>4 DEF Limbs
    <2>2. \A j \in 1 .. LIMBS : (LIMBS - LIMBS) + j = j
      BY <1>1
    <2> QED BY <2>1, <2>2 DEF TopOf
  <1> QED BY <1>2, <1>4, <1>8, <1>9 DEF x, n

\* The other way round: reduced coordinates that satisfy the equation are a point.
LEMMA CubicIsPoint ==
    ASSUME NEW curve \in Curves, NEW x \in 0 .. curve.p - 1, NEW y \in 0 .. curve.p - 1,
           Cubic(curve, x, y)
    PROVE  <<x, y>> \in CurvePoints(curve)
  <1> DEFINE p == curve.p  t == (x * x * x + curve.a * x) + curve.b  v == y * y  A == <<x, y>>
  <1>1. p \in Nat \ {0} /\ curve.a \in Int /\ curve.b \in Int
    BY CurveModuli
  <1>2. Agree(p, v, t)
    BY DEF Cubic
  <1>3. A \in (0 .. p - 1) \X (0 .. p - 1) /\ A[1] = x /\ A[2] = y
    OBVIOUS
  <1>4. t = x * x * x + curve.a * x + curve.b
    OBVIOUS
  <1> HIDE DEF t, v, p
  <1>5. v \in Int /\ t \in Int
    BY <1>2 DEF Agree
  <1>6. v - t \in Int /\ Agree(p, t, t) /\ t - t = 0
    BY <1>1, <1>5, AgreeEquivalence
  <1>7. Agree(p, v - t, t - t)
    BY <1>1, <1>2, <1>6, AgreeOperations
  <1>8. Agree(p, v - t, 0)
    BY <1>6, <1>7
  <1>9. (v - t) % p = 0
    <2> DEFINE o == 0
    <2>1. o \in 0 .. p - 1
      BY <1>1
    <2>2. Agree(p, v - t, o)
      BY <1>8
    <2> HIDE DEF o
    <2>3. (v - t) % p = o % p /\ o % p = o
      BY <1>1, <2>1, <2>2, AgreeRemainder
    <2> QED BY <2>3 DEF o
  <1>10. (A[2] * A[2] - (A[1] * A[1] * A[1] + curve.a * A[1] + curve.b)) % curve.p = 0
    BY <1>3, <1>4, <1>9 DEF v, p
  <1> QED BY <1>3, <1>10 DEF CurvePoints, p

\* The right-hand side of the curve equation, on limbs and on the integers they denote.
LEMMA RhsDenotes ==
    ASSUME NEW curve \in Curves, NEW x \in Limbs(LIMBS)
    PROVE  /\ CurveRhs(curve, x) \in Limbs(LIMBS)
           /\ \A v : Denotes(curve.p, x, v) =>
                 Denotes(curve.p, CurveRhs(curve, x), (v * v * v + curve.a * v) + curve.b)
  <1> DEFINE p == curve.p  sq == SquareP(curve, x)  cu == MulP(curve, sq, x)  three == Const(3)
             t == MulP(curve, three, x)  b == Const(curve.b)
  <1>1. /\ p \in Nat \ {0} /\ p < R /\ curve.a \in {0, -3} /\ curve.b \in 0 .. p - 1 /\ curve.b \in Int
        /\ R > 3 /\ R \in Nat
    BY CurveModuli, SmallConstants
  <1>2. three \in Limbs(LIMBS) /\ Value(three) = 3
    <2> DEFINE v == 3
    <2>1. v \in 0 .. R - 1
      BY <1>1
    <2> HIDE DEF v
    <2>2. Const(v) \in Limbs(LIMBS) /\ Value(Const(v)) = v
      BY <2>1, ValueOfConst
    <2> QED BY <2>2 DEF v
  <1>3. Denotes(p, b, curve.b) /\ b \in Limbs(LIMBS)
    <2>1. curve.b < R
      BY <1>1
    <2>2. Denotes(p, b, curve.b)
      BY <1>1, <2>1, DenotesValue
    <2> QED BY <2>2 DEF Denotes
  <1>4. CurveRhs(curve, x) = AddP(curve, IF curve.a = 0 THEN cu ELSE SubP(curve, cu, t), b)
    BY DEF CurveRhs
  <1>5. sq \in Limbs(LIMBS) /\ t \in Limbs(LIMBS)
    BY <1>2, CurveClosed DEF SquareP
  <1> HIDE DEF sq, t, b, three
  <1>6. cu \in Limbs(LIMBS)
    BY <1>5, CurveClosed
  <1>7. SubP(curve, cu, t) \in Limbs(LIMBS)
    BY <1>5, <1>6, CurveClosed
  <1>8. CurveRhs(curve, x) \in Limbs(LIMBS)
    BY <1>3, <1>4, <1>6, <1>7, CurveClosed
  <1>9. ASSUME NEW v, Denotes(p, x, v)
        PROVE  Denotes(p, CurveRhs(curve, x), (v * v * v + curve.a * v) + curve.b)
    <2>1. v \in Int
      BY <1>1, <1>9, DenotesValue
    <2>2. Denotes(p, sq, v * v)
      BY <1>9, DenotesOperations DEF sq
    <2>3. Denotes(p, cu, v * v * v)
      BY <1>9, <2>2, DenotesOperations
    <2>4. Denotes(p, t, 3 * v)
      <3>1. Denotes(p, t, Value(three) * v)
        BY <1>2, <1>9, DenotesProduct DEF t
      <3> QED BY <1>2, <3>1
    <2>5. Denotes(p, SubP(curve, cu, t), v * v * v - 3 * v)
      BY <2>3, <2>4, DenotesOperations
    <2>6. v * v * v \in Int
      <3>1. v * v \in Int
        BY <2>1
      <3> QED BY <2>1, <3>1
    <2>7. CASE curve.a = 0
      <3>1. Denotes(p, CurveRhs(curve, x), v * v * v + curve.b)
        BY <1>3, <1>4, <2>3, <2>7, DenotesOperations
      <3> DEFINE w == v * v * v
      <3>2. w \in Int
        BY <2>6
      <3> HIDE DEF w
      <3>3. w + 0 * v = w
        BY <2>1, <3>2
      <3>4. (w + curve.a * v) + curve.b = w + curve.b
        BY <2>7, <3>3
      <3> QED BY <3>1, <3>4 DEF w
    <2>8. CASE curve.a = -3
      <3>1. -3 # 0
        OBVIOUS
      <3>2. Denotes(p, CurveRhs(curve, x), (v * v * v - 3 * v) + curve.b)
        BY <1>3, <1>4, <2>5, <2>8, <3>1, DenotesOperations
      <3> DEFINE w == v * v * v
      <3>3. w \in Int
        BY <2>6
      <3> HIDE DEF w
      <3>4. w + (-3) * v = w - 3 * v
        BY <2>1, <3>3
      <3>5. (w + curve.a * v) + curve.b = (w - 3 * v) + curve.b
        BY <2>8, <3>4
      <3> QED BY <3>2, <3>5 DEF w
    <2> QED BY <1>1, <2>7, <2>8
  <1> QED BY <1>8, <1>9

\* The flag of the curve equation is a bit; on reduced coordinates it decides the equation.
LEMMA CurveFlag ==
    ASSUME NEW curve \in Curves, NEW x \in Limbs(LIMBS), NEW y \in Limbs(LIMBS)
    PROVE  LET f == EqBool(SquareP(curve, y), CurveRhs(curve, x))
           IN  /\ f \in {0, 1}
               /\ Value(x) < curve.p /\ Value(y) < curve.p =>
                     f = IF Cubic(curve, Value(x), Value(y)) THEN 1 ELSE 0
  <1> DEFINE f == EqBool(SquareP(curve, y), CurveRhs(curve, x))  p == curve.p
  <1>1. SquareP(curve, y) \in Limbs(LIMBS) /\ CurveRhs(curve, x) \in Limbs(LIMBS) /\ p \in Nat \ {0}
    BY CurveClosed, RhsDenotes, CurveModuli DEF SquareP
  <1>2. f \in {0, 1}
    BY <1>1, EqBoolDecides
  <1>3. ASSUME Value(x) < p, Value(y) < p
        PROVE  f = IF Cubic(curve, Value(x), Value(y)) THEN 1 ELSE 0
    <2> DEFINE v == Value(x)  w == Value(y)
    <2>1. Denotes(p, x, v) /\ Denotes(p, y, w)
      BY <1>1, <1>3, DenotesValue
    <2> HIDE DEF v, w
    <2>2. Denotes(p, SquareP(curve, y), w * w)
      BY <2>1, DenotesOperations
    <2>3. Denotes(p, CurveRhs(curve, x), (v * v * v + curve.a * v) + curve.b)
      BY <2>1, RhsDenotes
    <2>4. f = IF Agree(p, w * w, (v * v * v + curve.a * v) + curve.b) THEN 1 ELSE 0
      BY <1>1, <2>2, <2>3, DenotesEqual
    <2> QED BY <2>4 DEF Cubic, v, w
  <1> QED BY <1>2, <1>3

\* The operands of a verification, as limbs and as integers.
LEMMA OperandsPacked ==
    ASSUME call \in Calls, call.fn = "compute"
    PROVE  /\ {pk_x, pk_y, sig_r, sig_s, z} \subseteq Limbs(LIMBS)
           /\ Value(pk_x) = BigEndian(call.pk_x) /\ Value(pk_y) = BigEndian(call.pk_y)
           /\ Value(sig_r) = BigEndian(call.sig_r) /\ Value(sig_s) = BigEndian(call.sig_s)
           /\ Value(z) = BigEndian(call.z)
  <1>1. {call.pk_x, call.pk_y, call.sig_r, call.sig_s, call.z} \subseteq ArrayOfBytes
    BY CallsAssumption
  <1>2. \A bytes \in ArrayOfBytes : Pack(bytes) \in Limbs(LIMBS) /\ Value(Pack(bytes)) = BigEndian(bytes)
    BY PackExact
  <1> QED BY <1>1, <1>2 DEF pk_x, pk_y, sig_r, sig_s, z

\* The key is on the curve when its coordinates are reduced and satisfy the equation; it
\* is then a multiple of G other than the point at infinity.
LEMMA KeyOnCurve ==
    ASSUME call \in Calls, call.fn = "compute"
    PROVE  /\ OnCurve <=> /\ Value(pk_x) < c.p /\ Value(pk_y) < c.p
                          /\ Cubic(c, Value(pk_x), Value(pk_y))
           /\ OnCurve => /\ SecretKey \in 1 .. c.n - 1 /\ Mul(c, SecretKey) = PublicKey
                         /\ PublicKey = <<Value(pk_x), Value(pk_y)>>
                         /\ PublicKey \in CurvePoints(c)
  <1> DEFINE x == Value(pk_x)  y == Value(pk_y)  n == c.n  p == c.p
  <1>1. c \in Curves
    BY DEF c, Curves
  <1>2. /\ n \in Nat \ {0, 1, 2} /\ p \in Nat \ {0}
        /\ \A k \in 1 .. n - 1 : Multiple(k) = Mul(c, k) /\ Mul(c, k) \in CurvePoints(c)
        /\ \A A \in CurvePoints(c) : \E k \in 1 .. n - 1 : Mul(c, k) = A
    <2>1. n \in Nat \ {0, 1, 2} /\ p \in Nat \ {0}
      BY <1>1, CurveModuli
    <2>2. ASSUME NEW k \in 1 .. n - 1 PROVE Mul(c, k) \in CurvePoints(c)
      <3> DEFINE o == 0
      <3>1. k \in Int /\ k \in 0 .. n - 1 /\ k # o /\ o \in 0 .. n - 1
        BY <2>1
      <3>2. ~Agree(n, k, o)
        <4> HIDE DEF o
        <4> QED BY <2>1, <3>1, AgreeRemainder
      <3>3. ~Agree(c.n, k, 0)
        BY <3>2
      <3> QED BY <1>1, <3>1, <3>3, MultiplesAreGroup
    <2>3. \A A \in CurvePoints(c) : \E k \in 1 .. n - 1 : Mul(c, k) = A
      BY <1>1, MultiplesAreGroup
    <2>4. \A k : Multiple(k) = Mul(c, k)
      BY DEF Multiple, Mul
    <2> QED BY <2>1, <2>2, <2>3, <2>4
  <1>3. PublicKey = <<x, y>> /\ x \in Nat /\ y \in Nat
    <2>1. pk_x \in Limbs(LIMBS) /\ pk_y \in Limbs(LIMBS) /\ PublicKey = <<x, y>>
      BY OperandsPacked DEF PublicKey
    <2>2. Value(pk_x) \in 0 .. R - 1 /\ Value(pk_y) \in 0 .. R - 1
      <3> DEFINE one == 1
      <3>1. one \in Nat \ {0}
        OBVIOUS
      <3> HIDE DEF one
      <3>2. \A a \in Limbs(LIMBS) : Value(a) \in 0 .. R - 1
        BY <3>1, DenotesValue
      <3> QED BY <2>1, <3>2
    <2> QED BY <2>1, <2>2
  <1> HIDE DEF x, y
  <1>4. ASSUME OnCurve
        PROVE  /\ SecretKey \in 1 .. n - 1 /\ Mul(c, SecretKey) = PublicKey
               /\ PublicKey \in CurvePoints(c) /\ x < p /\ y < p /\ Cubic(c, x, y)
    <2>1. SecretKey \in 1 .. n - 1 /\ Multiple(SecretKey) = PublicKey
      BY <1>4 DEF OnCurve, SecretKey
    <2>2. Mul(c, SecretKey) = PublicKey /\ PublicKey \in CurvePoints(c)
      BY <1>2, <2>1
    <2>3. AffinePoint(c, PublicKey) /\ Cubic(c, PublicKey[1], PublicKey[2])
      BY <1>1, <2>2, CurvePointOf
    <2>4. PublicKey[1] \in 0 .. c.p - 1 /\ PublicKey[2] \in 0 .. c.p - 1
      BY <1>1, <2>3, AffineCoordinates
    <2>5. PublicKey[1] = x /\ PublicKey[2] = y
      BY <1>3
    <2>6. x < p /\ y < p
      BY <1>2, <1>3, <2>4, <2>5
    <2> QED BY <2>1, <2>2, <2>3, <2>5, <2>6
  <1>5. ASSUME x < p, y < p, Cubic(c, x, y) PROVE OnCurve
    <2>1. x \in 0 .. c.p - 1 /\ y \in 0 .. c.p - 1
      BY <1>2, <1>3, <1>5
    <2>2. <<x, y>> \in CurvePoints(c)
      BY <1>1, <1>5, <2>1, CubicIsPoint
    <2>3. PICK k \in 1 .. n - 1 : Mul(c, k) = PublicKey
      BY <1>2, <1>3, <2>2
    <2>4. Multiple(k) = PublicKey
      BY <1>2, <2>3
    <2> QED BY <2>4 DEF OnCurve
  <1> QED BY <1>3, <1>4, <1>5 DEF x, y

\* The flags of the inputs are all set exactly for a key on the curve, r in range and a
\* low s.
LEMMA InputFlagsDecide ==
    ASSUME call \in Calls, call.fn = "compute"
    PROVE  /\ InputFlags \in Seq(Flags) /\ Len(InputFlags) = 7
           /\ (\A k \in 1 .. 7 : InputFlags[k] = 1) <=>
                 /\ OnCurve /\ Value(sig_r) \in 1 .. c.n - 1 /\ Value(sig_s) \in 0 .. c.n \div 2
  <1> DEFINE n == c.n  p == c.p  half == n \div 2  x == Value(pk_x)  y == Value(pk_y)
             r == Value(sig_r)  s == Value(sig_s)
             f == EqBool(SquareP(c, pk_y), CurveRhs(c, pk_x))
  <1>1. c \in Curves /\ LIMBS \in Nat
    BY BaseIsPositive DEF c, Curves
  <1>2. /\ n \in Nat \ {0, 1, 2} /\ p \in Nat \ {0} /\ n < R /\ p < R /\ R \in Nat
        /\ half \in Nat /\ half + 1 < n
    <2>1. n \in Nat \ {0, 1, 2} /\ p \in Nat \ {0} /\ n < R /\ p < R /\ R \in Nat
      BY <1>1, CurveModuli, RIsPositive
    <2>2. half \in Int /\ n % 2 \in 0 .. 1 /\ n = 2 * half + (n % 2)
      <3> DEFINE two == 2
      <3>1. two \in Nat \ {0} /\ n \in Int
        BY <2>1
      <3> HIDE DEF two
      <3>2. n \div two \in Int /\ n % two \in 0 .. two - 1 /\ n = two * (n \div two) + (n % two)
        BY <3>1, DivMod
      <3> QED BY <3>2 DEF two
    <2> DEFINE odd == n % 2
    <2>3. half \in Int /\ odd \in 0 .. 1 /\ n = 2 * half + odd
      BY <2>2
    <2> HIDE DEF half, odd, n
    <2>4. half \in Nat /\ half + 1 < n
      BY <2>1, <2>3
    <2> QED BY <2>1, <2>4 DEF n
  <1>3. /\ pk_x \in Limbs(LIMBS) /\ pk_y \in Limbs(LIMBS)
        /\ sig_r \in Limbs(LIMBS) /\ sig_s \in Limbs(LIMBS)
    BY OperandsPacked
  <1>4. x \in Nat /\ y \in Nat /\ r \in Nat /\ s \in Nat
    <2> DEFINE one == 1
    <2>1. one \in Nat \ {0}
      OBVIOUS
    <2> HIDE DEF one
    <2>2. \A a \in Limbs(LIMBS) : Value(a) \in 0 .. R - 1
      BY <2>1, DenotesValue
    <2> QED BY <1>3, <2>2
  <1>5. ASSUME NEW a \in Limbs(LIMBS), NEW v \in 0 .. R - 1
        PROVE  LtBool(a, Const(v)) = IF Value(a) < v THEN 1 ELSE 0
    <2>1. Const(v) \in Limbs(LIMBS) /\ Value(Const(v)) = v
      BY ValueOfConst
    <2> QED BY <1>1, <2>1, LtBoolCompares
  <1>6. n \in 0 .. R - 1 /\ p \in 0 .. R - 1 /\ half + 1 \in 0 .. R - 1
    BY <1>2
  <1>7. /\ LtBool(pk_x, Const(p)) = (IF x < p THEN 1 ELSE 0)
        /\ LtBool(pk_y, Const(p)) = (IF y < p THEN 1 ELSE 0)
        /\ LtBool(sig_r, Const(n)) = (IF r < n THEN 1 ELSE 0)
        /\ LtBool(sig_s, Const(n)) = (IF s < n THEN 1 ELSE 0)
        /\ LtBool(sig_s, Const(half + 1)) = (IF s < half + 1 THEN 1 ELSE 0)
    <2> HIDE DEF half, n, p
    <2> QED BY <1>3, <1>5, <1>6
  <1>8. NotBit(EqBool(sig_r, Zero)) = IF r = 0 THEN 0 ELSE 1
    <2>1. EqBool(sig_r, Zero) = IF r = 0 THEN 1 ELSE 0
      BY <1>3, SmallConstants
    <2> QED BY <2>1, BitProducts
  <1>9. f \in {0, 1} /\ (x < p /\ y < p => f = IF Cubic(c, x, y) THEN 1 ELSE 0)
    BY <1>1, <1>3, CurveFlag
  <1> DEFINE f1 == LtBool(pk_x, Const(p))  f2 == LtBool(pk_y, Const(p))
             f3 == LtBool(sig_r, Const(n)) f4 == LtBool(sig_s, Const(n))
             f5 == LtBool(sig_s, Const(half + 1))  f6 == NotBit(EqBool(sig_r, Zero))
             ff == InputFlags
  <1>10. ff = <<f1, f2, f3, f4, f5, f6, f>>
    BY DEF InputFlags
  <1>11. /\ f1 = (IF x < p THEN 1 ELSE 0) /\ f2 = (IF y < p THEN 1 ELSE 0)
         /\ f3 = (IF r < n THEN 1 ELSE 0) /\ f4 = (IF s < n THEN 1 ELSE 0)
         /\ f5 = (IF s < half + 1 THEN 1 ELSE 0) /\ f6 = (IF r = 0 THEN 0 ELSE 1)
    BY <1>7, <1>8
  <1>12. OnCurve <=> x < p /\ y < p /\ Cubic(c, x, y)
    BY KeyOnCurve
  <1> HIDE DEF f, f1, f2, f3, f4, f5, f6, ff, n, p, half, x, y, r, s
  <1>13. ff \in Seq({0, 1}) /\ Len(ff) = 7
    <2>1. f1 \in {0, 1} /\ f2 \in {0, 1} /\ f3 \in {0, 1} /\ f4 \in {0, 1} /\ f5 \in {0, 1} /\ f6 \in {0, 1}
      BY <1>11
    <2> QED BY <1>9, <1>10, <2>1
  <1>14. (\A k \in 1 .. 7 : ff[k] = 1)
            <=> f1 = 1 /\ f2 = 1 /\ f3 = 1 /\ f4 = 1 /\ f5 = 1 /\ f6 = 1 /\ f = 1
    BY <1>10
  <1>15. f1 = 1 /\ f2 = 1 /\ f3 = 1 /\ f4 = 1 /\ f5 = 1 /\ f6 = 1 /\ f = 1
            <=> /\ x < p /\ y < p /\ Cubic(c, x, y)
                /\ r # 0 /\ r < n /\ s < n /\ s < half + 1
    BY <1>9, <1>11
  <1>16. r # 0 /\ r < n /\ s < n /\ s < half + 1 <=> r \in 1 .. n - 1 /\ s \in 0 .. half
    BY <1>2, <1>4
  <1>17. (\A k \in 1 .. 7 : ff[k] = 1) <=> OnCurve /\ r \in 1 .. n - 1 /\ s \in 0 .. half
    BY <1>12, <1>14, <1>15, <1>16
  <1> QED BY <1>13, <1>17 DEF ff, n, half, r, s, Flags

\* The elements of a concatenation.
LEMMA Concatenated ==
    ASSUME NEW S, NEW s \in Seq(S), NEW t \in Seq(S)
    PROVE  /\ Len(s \o t) = Len(s) + Len(t)
           /\ \A l \in 1 .. Len(s) + Len(t) :
                 (s \o t)[l] = IF l <= Len(s) THEN s[l] ELSE t[l - Len(s)]
  OBVIOUS

\* The flags of the inputs and of the result decide together.
AnyZero(s) == \E k \in 1 .. Len(s) : s[k] = 0

\* A list of ten flags has a zero among its first seven or is decided by the last three.
LEMMA AllFlags ==
    ASSUME NEW f \in Seq(Flags), Len(f) = 7, NEW i, NEW j, NEW k
    PROVE  AnyZero(f \o <<i, j, k>>) <=> ~(\A l \in 1 .. 7 : f[l] = 1) \/ i = 0 \/ j = 0 \/ k = 0
  <1> DEFINE t == <<i, j, k>>  valid == f \o t
  <1>1. Len(t) = 3 /\ t[1] = i /\ t[2] = j /\ t[3] = k
    OBVIOUS
  <1> HIDE DEF t
  <1>2. t \in Seq({i, j, k})
    BY DEF t
  <1>3. f \in Seq({0, 1, i, j, k}) /\ t \in Seq({0, 1, i, j, k})
    BY <1>2 DEF Flags
  <1>4. /\ Len(valid) = 10 /\ \A l \in 1 .. 7 : valid[l] = f[l]
        /\ valid[8] = t[1] /\ valid[9] = t[2] /\ valid[10] = t[3]
    <2>1. /\ Len(valid) = Len(f) + Len(t)
          /\ \A l \in 1 .. Len(f) + Len(t) :
                valid[l] = IF l <= Len(f) THEN f[l] ELSE t[l - Len(f)]
      BY <1>3, Concatenated
    <2> HIDE DEF valid
    <2>2. Len(valid) = 10 /\ \A l \in 1 .. 10 : valid[l] = IF l <= 7 THEN f[l] ELSE t[l - 7]
      BY <1>1, <2>1
    <2> QED BY <2>2
  <1> HIDE DEF valid
  <1>5. \A l \in 1 .. 10 : l \in 1 .. 7 \/ l = 8 \/ l = 9 \/ l = 10
    OBVIOUS
  <1>6. \A l \in 1 .. 7 : l \in 1 .. 10
    OBVIOUS
  <1>7. 8 \in 1 .. 10 /\ 9 \in 1 .. 10 /\ 10 \in 1 .. 10
    OBVIOUS
  <1>8. (\E l \in 1 .. 10 : valid[l] = 0) <=> (\E l \in 1 .. 7 : f[l] = 0) \/ i = 0 \/ j = 0 \/ k = 0
    BY <1>1, <1>4, <1>5, <1>6, <1>7
  <1>9. (\E l \in 1 .. 7 : f[l] = 0) <=> ~(\A l \in 1 .. 7 : f[l] = 1)
    <2>1. f \in [1 .. 7 -> Flags]
      BY OfItsLength
    <2>2. \A l \in 1 .. 7 : f[l] = 0 <=> ~(f[l] = 1)
      BY <2>1 DEF Flags
    <2> QED BY <2>2
  <1> QED BY <1>4, <1>8, <1>9 DEF AnyZero, valid, t

\* Z, or 1 when it is zero.
LEMMA SafeZOf ==
    ASSUME NEW J \in Points
    PROVE  /\ J[1] \in Limbs(LIMBS) /\ J[2] \in Limbs(LIMBS) /\ J[3] \in Limbs(LIMBS)
           /\ SafeZ(J) \in Limbs(LIMBS)
           /\ SafeZ(J) = IF Value(J[3]) = 0 THEN One ELSE J[3]
           /\ EqBool(J[3], Zero) \in Flags
           /\ EqBool(J[3], Zero) = IF Value(J[3]) = 0 THEN 1 ELSE 0
  <1>1. J[1] \in Limbs(LIMBS) /\ J[2] \in Limbs(LIMBS) /\ J[3] \in Limbs(LIMBS)
    BY DEF Points, Vectors
  <1> DEFINE d == J[3]  e == EqBool(d, Zero)
  <1>2. e = (IF Value(d) = 0 THEN 1 ELSE 0) /\ One \in Limbs(LIMBS) /\ d \in Limbs(LIMBS)
    BY <1>1, SmallConstants
  <1>3. SafeZ(J) = SelectLimbs(e, One, d)
    BY DEF SafeZ
  <1> HIDE DEF d, e
  <1>4. e \in {0, 1}
    BY <1>2
  <1>5. SelectLimbs(e, One, d) = IF e = 1 THEN One ELSE d
    BY <1>2, <1>4, SelectsLimbs
  <1>6. e \in Flags /\ (e = 1 <=> Value(d) = 0)
    BY <1>2, <1>4 DEF Flags
  <1>7. SafeZ(J) = (IF Value(d) = 0 THEN One ELSE d) /\ SafeZ(J) \in Limbs(LIMBS)
    BY <1>2, <1>3, <1>5, <1>6
  <1> QED BY <1>1, <1>2, <1>6, <1>7 DEF d, e

\* The conversion to affine coordinates, given the inverse of Z; for X = Y = 0 it is
\* (0, 0) whatever the inverse.
LEMMA AffineOf ==
    ASSUME NEW curve \in Curves, NEW J \in Points, NEW v \in Limbs(LIMBS), Value(v) < curve.p
    PROVE  LET q == ToAffine(curve, J, v)
           IN  /\ q[1] \in Limbs(LIMBS) /\ q[2] \in Limbs(LIMBS)
               /\ \A A : /\ Stands(curve, J, A) /\ A # <<>>
                         /\ Agree(curve.p, Value(v) * Value(J[3]), 1)
                         => /\ AffinePoint(curve, A)
                            /\ Denotes(curve.p, q[1], A[1]) /\ Denotes(curve.p, q[2], A[2])
               /\ J[1] = Zero /\ J[2] = Zero => q[1] = Zero /\ q[2] = Zero
  <1> DEFINE p == curve.p  q == ToAffine(curve, J, v)  w == Value(v)
             sq == SquareP(curve, v)  cu == MulP(curve, sq, v)
  <1>1. p \in Nat \ {0} /\ w \in Int /\ Denotes(p, v, w)
    BY CurveModuli, DenotesValue
  <1>2. J[1] \in Limbs(LIMBS) /\ J[2] \in Limbs(LIMBS) /\ J[3] \in Limbs(LIMBS)
    BY SafeZOf
  <1>3. q[1] = MulP(curve, J[1], sq) /\ q[2] = MulP(curve, J[2], cu)
    BY DEF ToAffine
  <1> HIDE DEF w
  <1>4. Denotes(p, sq, w * w)
    BY <1>1, DenotesOperations
  <1>5. Denotes(p, cu, (w * w) * w)
    BY <1>1, <1>4, DenotesOperations
  <1> HIDE DEF q, sq, cu
  <1>6. q[1] \in Limbs(LIMBS) /\ q[2] \in Limbs(LIMBS)
    BY <1>2, <1>3, <1>4, <1>5, CurveClosed DEF Denotes
  <1>7. ASSUME NEW A, Stands(curve, J, A), A # <<>>, Agree(p, w * Value(J[3]), 1)
        PROVE  AffinePoint(curve, A) /\ Denotes(p, q[1], A[1]) /\ Denotes(p, q[2], A[2])
    <2>1. PICK x, y, d : /\ Denotes(p, J[1], x) /\ Denotes(p, J[2], y) /\ Denotes(p, J[3], d)
                         /\ AffinePoint(curve, A)
                         /\ Agree(p, x, A[1] * (d * d)) /\ Agree(p, y, A[2] * (d * (d * d)))
      BY <1>7 DEF Stands
    <2>2. A[1] \in Int /\ A[2] \in Int /\ x \in Int /\ y \in Int /\ d \in Int
      BY <1>1, <2>1, AffineCoordinates, DenotesValue
    <2> DEFINE a == A[1]  b == A[2]
    <2>3. a \in Int /\ b \in Int
      BY <2>2
    <2>4. Denotes(p, q[1], x * (w * w)) /\ Denotes(p, q[2], y * ((w * w) * w))
      BY <1>3, <1>4, <1>5, <2>1, DenotesOperations
    <2>5. Agree(p, w * d, 1)
      <3>1. Agree(p, Value(J[3]), d) /\ Agree(p, w, w)
        BY <1>1, <2>1, AgreeEquivalence DEF Denotes
      <3>2. Agree(p, w * Value(J[3]), w * d)
        BY <1>1, <3>1, AgreeOperations
      <3> QED BY <1>1, <1>7, <3>2, AgreeEquivalence
    <2> HIDE DEF a, b
    <2> DEFINE s == w * d
    <2>6. s \in Int /\ Agree(p, s, 1)
      BY <1>1, <2>2, <2>5
    <2>7. Agree(p, x * (w * w), a * (s * s)) /\ Agree(p, y * ((w * w) * w), b * (s * (s * s)))
      <3>1. w * w \in Int /\ (w * w) * w \in Int
        BY <1>1
      <3>2. Agree(p, w * w, w * w) /\ Agree(p, (w * w) * w, (w * w) * w)
        BY <1>1, <3>1, AgreeEquivalence
      <3>3. Agree(p, x, a * (d * d)) /\ Agree(p, y, b * (d * (d * d)))
        BY <2>1 DEF a, b
      <3>4. Agree(p, x * (w * w), (a * (d * d)) * (w * w))
        BY <1>1, <3>2, <3>3, AgreeOperations
      <3>5. Agree(p, y * ((w * w) * w), (b * (d * (d * d))) * ((w * w) * w))
        BY <1>1, <3>2, <3>3, AgreeOperations
      <3>6. (a * (d * d)) * (w * w) = a * (s * s)
        BY <1>1, <2>2, <2>3
      <3>7. (b * (d * (d * d))) * ((w * w) * w) = b * (s * (s * s))
        BY <1>1, <2>2, <2>3
      <3> QED BY <3>4, <3>5, <3>6, <3>7
    <2> HIDE DEF s
    <2>8. Agree(p, a * (s * s), a) /\ Agree(p, b * (s * (s * s)), b)
      <3>1. Agree(p, s * s, 1 * 1)
        BY <1>1, <2>6, AgreeOperations
      <3>2. Agree(p, s * (s * s), 1 * (1 * 1))
        BY <1>1, <2>6, <3>1, AgreeOperations
      <3>3. Agree(p, a, a) /\ Agree(p, b, b)
        BY <1>1, <2>3, AgreeEquivalence
      <3>4. Agree(p, a * (s * s), a * (1 * 1))
        BY <1>1, <3>1, <3>3, AgreeOperations
      <3>5. Agree(p, b * (s * (s * s)), b * (1 * (1 * 1)))
        BY <1>1, <3>2, <3>3, AgreeOperations
      <3>6. a * (1 * 1) = a /\ b * (1 * (1 * 1)) = b
        BY <2>3
      <3> QED BY <3>4, <3>5, <3>6
    <2>9. Agree(p, x * (w * w), a) /\ Agree(p, y * ((w * w) * w), b)
      BY <1>1, <2>7, <2>8, AgreeEquivalence
    <2>10. Denotes(p, q[1], a) /\ Denotes(p, q[2], b)
      BY <1>1, <2>4, <2>9, DenotesValue
    <2> QED BY <2>1, <2>10 DEF a, b
  <1>8. ASSUME J[1] = Zero, J[2] = Zero PROVE q[1] = Zero /\ q[2] = Zero
    <2>1. Denotes(p, Zero, 0)
      BY ConstantsStand
    <2>2. Denotes(p, q[1], 0 * (w * w)) /\ Denotes(p, q[2], 0 * ((w * w) * w))
      BY <1>3, <1>4, <1>5, <1>8, <2>1, DenotesOperations
    <2>3. 0 * (w * w) = 0 /\ 0 * ((w * w) * w) = 0 /\ 0 \in Int
      <3>1. w * w \in Int
        BY <1>1
      <3>2. (w * w) * w \in Int
        BY <1>1, <3>1
      <3> DEFINE e == w * w  f == (w * w) * w
      <3>3. e \in Int /\ f \in Int
        BY <3>1, <3>2
      <3> HIDE DEF e, f
      <3>4. 0 * e = 0 /\ 0 * f = 0 /\ 0 \in Int
        BY <3>3
      <3> QED BY <3>4 DEF e, f
    <2>4. Denotes(p, q[1], 0) /\ Denotes(p, q[2], 0) /\ Agree(p, 0, 0)
      BY <1>1, <2>2, <2>3, AgreeEquivalence
    <2> QED BY <1>1, <2>1, <2>4, DenotesEqual
  <1> QED BY <1>6, <1>7, <1>8 DEF q, w, p

---------------------------------------------------------------------------
\* The invariant of a verification, by its phases, over the call k and the registers.

\* What the specification says of the call, as operators of it.
OnCurveOf(k) ==
    \E j \in 1 .. k.curve.n - 1 :
        Multiples[k.curve][j % k.curve.n] = <<BigEndian(k.pk_x), BigEndian(k.pk_y)>>
KeyOf(k) ==
    CHOOSE j \in 1 .. k.curve.n - 1 :
        Multiples[k.curve][j % k.curve.n] = <<BigEndian(k.pk_x), BigEndian(k.pk_y)>>
FlagsOf(k) ==
    <<LtBool(Pack(k.pk_x), Const(k.curve.p)), LtBool(Pack(k.pk_y), Const(k.curve.p)),
      LtBool(Pack(k.sig_r), Const(k.curve.n)), LtBool(Pack(k.sig_s), Const(k.curve.n)),
      LtBool(Pack(k.sig_s), Const(k.curve.n \div 2 + 1)), NotBit(EqBool(Pack(k.sig_r), Zero)),
      EqBool(SquareP(k.curve, Pack(k.pk_y)), CurveRhs(k.curve, Pack(k.pk_x)))>>
AcceptedOf(k) ==
    LET r == BigEndian(k.sig_r)
        s == BigEndian(k.sig_s)
        w == SmallestInverse(s, k.curve.n)
        point == Multiples[k.curve][(BigEndian(k.z) * w + ((r * w) % k.curve.n) * KeyOf(k)) % k.curve.n]
    IN  /\ OnCurveOf(k)
        /\ r \in 1 .. k.curve.n - 1 /\ s \in 1 .. k.curve.n \div 2
        /\ point # <<>>
        /\ point[1] = r

\* They are those of the specification.
LEMMA OfTheCall ==
    /\ OnCurve <=> OnCurveOf(call)
    /\ SecretKey = KeyOf(call)
    /\ InputFlags = FlagsOf(call)
    /\ Accepted <=> AcceptedOf(call)
  <1>1. SecretKey = KeyOf(call)
    BY DEF SecretKey, KeyOf, Multiple, PublicKey, c
  <1>2. OnCurve <=> OnCurveOf(call)
    BY DEF OnCurve, OnCurveOf, Multiple, PublicKey, c
  <1>3. InputFlags = FlagsOf(call)
    BY DEF InputFlags, FlagsOf, pk_x, pk_y, sig_r, sig_s, c
  <1>4. Accepted <=> AcceptedOf(call)
    BY <1>1, <1>2 DEF Accepted, AcceptedOf, Multiple, c
  <1> QED BY <1>1, <1>2, <1>3, <1>4

\* An inversion under way: the value is the power of the base for the bits consumed.
LoopState(M, base, v, bit) ==
    /\ Value(v) < M
    /\ Agree(M, Value(v), Power(BaseOf(M, base), (M - 2) \div Power(2, bit + 1)))
ModulusOf(k, m) == IF m = "p" THEN k.curve.p ELSE k.curve.n

\* So is the state of the loop.
LEMMA LoopOfTheCall ==
    ASSUME NEW m, NEW base, NEW v, NEW bit
    PROVE  /\ LoopAt(m, base, v, bit) <=> LoopState(ModulusOf(call, m), base, v, bit)
           /\ Modulus(m) = ModulusOf(call, m)
  BY DEF LoopAt, LoopState, ModulusOf, Modulus, Exponent, c

\* The two scalars: z and r times one number that inverts s, and is zero for s zero.
ScalarsFor(k, a, b) ==
    /\ a \in Limbs(LIMBS) /\ b \in Limbs(LIMBS)
    /\ \E v \in 0 .. k.curve.n - 1 :
          /\ Value(a) = (BigEndian(k.z) * v) % k.curve.n
          /\ Value(b) = (BigEndian(k.sig_r) * v) % k.curve.n
          /\ ~Agree(k.curve.n, BigEndian(k.sig_s), 0) => Agree(k.curve.n, v * BigEndian(k.sig_s), 1)
          /\ BigEndian(k.sig_s) = 0 => v = 0

\* G + P as a Jacobian point, exactly the constant one when it is at infinity.
SumFor(k, J) ==
    OnCurveOf(k) =>
        /\ Stands(k.curve, J, Mul(k.curve, 1 + KeyOf(k)))
        /\ Mul(k.curve, 1 + KeyOf(k)) = <<>> => J = Infinity

\* G + P as an operand of the loop, with its flag.
OperandFor(k, q) ==
    OnCurveOf(k) => Operand(k.curve, <<q[1], q[2]>>, q[3], Mul(k.curve, 1 + KeyOf(k)))

\* The accumulator, for the weight w of the last bit consumed.
AccFor(k, J, i, a, b, w) ==
    LET pt == Mul(k.curve, (Value(a) \div w) + (Value(b) \div w) * KeyOf(k))
    IN  OnCurveOf(k) => \/ Stands(k.curve, J, pt)
                        \/ i = 1 /\ J = <<Zero, Zero, One>> /\ pt = <<>>

\* After the inversion of s, both scalars are what they should be.
LEMMA ScalarsComputed ==
    ASSUME call \in Calls, call.fn = "compute", NEW v \in Limbs(LIMBS), LoopAt("n", sig_s, v, -1)
    PROVE  ScalarsFor(call, MulN(c, z, v), MulN(c, sig_r, v))
  <1> DEFINE n == c.n
  <1>1. /\ z \in Limbs(LIMBS) /\ sig_r \in Limbs(LIMBS) /\ sig_s \in Limbs(LIMBS)
        /\ Value(z) = BigEndian(call.z) /\ Value(sig_r) = BigEndian(call.sig_r)
        /\ Value(sig_s) = BigEndian(call.sig_s)
    BY OperandsPacked
  <1>2. "n" \in {"p", "n"} /\ "n" # "p" /\ Modulus("n") = n /\ \A a, b : MulMod("n", a, b) = MulN(c, a, b)
    BY DEF Modulus, MulMod
  <1>3. /\ Value(v) \in 0 .. n - 1
        /\ ~Agree(n, Value(sig_s), 0) => Agree(n, Value(v) * Value(sig_s), 1)
        /\ Value(sig_s) = 0 => Value(v) = 0
    <2> DEFINE m == "n"
    <2>1. m \in {"p", "n"} /\ Modulus(m) = n /\ LoopAt(m, sig_s, v, -1)
      BY <1>2
    <2> HIDE DEF m
    <2> QED BY <1>1, <2>1, LoopEnds
  <1>4. ASSUME NEW a \in Limbs(LIMBS)
        PROVE  MulN(c, a, v) \in Limbs(LIMBS) /\ Value(MulN(c, a, v)) = (Value(a) * Value(v)) % n
    <2> DEFINE m == "n"
    <2>1. m \in {"p", "n"} /\ Modulus(m) = n /\ MulMod(m, a, v) = MulN(c, a, v)
      BY <1>2
    <2>2. n \in Nat
      BY CurveModuli DEF c, Curves
    <2>3. Value(v) < Modulus(m)
      BY <1>3, <2>1, <2>2
    <2> HIDE DEF m
    <2> QED BY <2>1, <2>3, MulModExact
  <1>5. n = call.curve.n
    BY DEF c
  <1> QED BY <1>1, <1>3, <1>4, <1>5 DEF ScalarsFor

\* The key and the generator as operands.
LEMMA KeyAndGenerator ==
    ASSUME call \in Calls, call.fn = "compute"
    PROVE  /\ g \in Pairs /\ <<pk_x, pk_y>> \in Pairs /\ <<g[1], g[2], One>> \in Points
           /\ Operand(c, g, 0, Mul(c, 1))
           /\ OnCurve => Operand(c, <<pk_x, pk_y>>, 0, Mul(c, SecretKey)) /\ SecretKey \in 1 .. c.n - 1
           /\ ~Agree(c.n, 1, 0) /\ ~Agree(c.n, 2, 0)
  <1> DEFINE p == c.p  n == c.n
  <1>1. /\ c \in Curves /\ p \in Nat \ {0} /\ n \in Nat \ {0, 1, 2} /\ p < R
        /\ c.gx \in 0 .. p - 1 /\ c.gy \in 0 .. p - 1
    <2>1. c \in Curves
      BY DEF c, Curves
    <2> QED BY <2>1, CurveModuli
  <1>2. pk_x \in Limbs(LIMBS) /\ pk_y \in Limbs(LIMBS)
    BY OperandsPacked
  <1>3. Denotes(p, Const(c.gx), c.gx) /\ Denotes(p, Const(c.gy), c.gy)
    <2>1. c.gx < R /\ c.gy < R
      BY <1>1, RIsPositive
    <2> QED BY <1>1, <2>1, DenotesValue
  <1>4. g = <<Const(c.gx), Const(c.gy)>> /\ g[1] = Const(c.gx) /\ g[2] = Const(c.gy)
    BY DEF g
  <1>5. ~Agree(n, 1, 0) /\ ~Agree(n, 2, 0)
    <2>1. \A i \in 0 .. n - 1, j \in 0 .. n - 1 : Agree(n, i, j) => i = j
      BY <1>1, AgreeRemainder
    <2>2. 0 \in 0 .. n - 1 /\ 1 \in 0 .. n - 1 /\ 2 \in 0 .. n - 1 /\ 1 # 0 /\ 2 # 0
      BY <1>1
    <2> QED BY <2>1, <2>2
  <1>6. Mul(c, 1) = <<c.gx, c.gy>> /\ Mul(c, 1) \in CurvePoints(c)
    <2>1. 1 \in Int
      OBVIOUS
    <2> QED BY <1>1, <1>5, <2>1, MultiplesAreGroup
  <1>7. Operand(c, g, 0, Mul(c, 1))
    <2> DEFINE A == Mul(c, 1)
    <2>1. A[1] = c.gx /\ A[2] = c.gy /\ A \in CurvePoints(c)
      BY <1>6
    <2> HIDE DEF A
    <2>2. Operand(c, g, 0, A)
      BY <1>3, <1>4, <2>1 DEF Operand
    <2> QED BY <2>2 DEF A
  <1>8. g \in Pairs /\ <<g[1], g[2], One>> \in Points /\ <<pk_x, pk_y>> \in Pairs
    <2>1. Const(c.gx) \in Limbs(LIMBS) /\ Const(c.gy) \in Limbs(LIMBS) /\ One \in Limbs(LIMBS)
      BY <1>3, SmallConstants DEF Denotes
    <2> QED BY <1>2, <1>4, <2>1, PointOf
  <1>9. ASSUME OnCurve
        PROVE  Operand(c, <<pk_x, pk_y>>, 0, Mul(c, SecretKey)) /\ SecretKey \in 1 .. n - 1
    <2> DEFINE A == Mul(c, SecretKey)  q == <<pk_x, pk_y>>
    <2>1. /\ SecretKey \in 1 .. n - 1 /\ A = <<Value(pk_x), Value(pk_y)>> /\ A \in CurvePoints(c)
          /\ Value(pk_x) < p /\ Value(pk_y) < p
      BY <1>9, KeyOnCurve
    <2>2. Denotes(p, pk_x, Value(pk_x)) /\ Denotes(p, pk_y, Value(pk_y))
      BY <1>1, <1>2, <2>1, DenotesValue
    <2>3. q[1] = pk_x /\ q[2] = pk_y /\ A[1] = Value(pk_x) /\ A[2] = Value(pk_y)
      BY <2>1
    <2> HIDE DEF A, q
    <2>4. Operand(c, q, 0, A)
      BY <2>1, <2>2, <2>3 DEF Operand
    <2> QED BY <2>1, <2>4 DEF A, q
  <1> QED BY <1>5, <1>7, <1>8, <1>9

\* The first addition of a verification is G + P.
LEMMA SumComputed ==
    ASSUME call \in Calls, call.fn = "compute"
    PROVE  LET J == AddComplete(c, <<g[1], g[2], One>>, <<pk_x, pk_y>>, 0)
           IN  J \in Points /\ SumFor(call, J)
  <1> DEFINE J == AddComplete(c, <<g[1], g[2], One>>, <<pk_x, pk_y>>, 0)
             start == <<g[1], g[2], One>>  q == <<pk_x, pk_y>>  n == c.n
  <1>1. /\ c \in Curves /\ start \in Points /\ q \in Pairs /\ Operand(c, g, 0, Mul(c, 1))
        /\ ~Agree(n, 1, 0) /\ ~Agree(n, 2, 0)
    BY KeyAndGenerator DEF c, Curves
  <1>2. 0 \in {0, 1} /\ 0 # 1
    OBVIOUS
  <1>3. J \in Points
    BY <1>1, <1>2, CompleteSelects
  <1>4. ASSUME OnCurve
        PROVE  /\ Stands(c, J, Mul(c, 1 + SecretKey))
               /\ Mul(c, 1 + SecretKey) = <<>> => J = Infinity
    <2> DEFINE A == Mul(c, 1)  B == Mul(c, SecretKey)  sum == Mul(c, 1 + SecretKey)
    <2>1. SecretKey \in Int /\ Operand(c, q, 0, B)
      <3>1. SecretKey \in 1 .. c.n - 1
        BY <1>4, KeyAndGenerator
      <3> QED BY <1>4, <3>1, KeyAndGenerator
    <2>2. AffineAdd(c, A, B) = sum /\ AffineAdd(c, A, A) # <<>> /\ A # <<>> /\ A \in CurvePoints(c)
      <3>1. 1 \in Int /\ 2 \in Int /\ 1 + 1 = 2
        OBVIOUS
      <3>2. AffineAdd(c, A, B) = sum /\ AffineAdd(c, A, A) = Mul(c, 2)
        BY <1>1, <2>1, <3>1, MultiplesAreGroup
      <3>3. Mul(c, 2) \in CurvePoints(c) /\ A \in CurvePoints(c)
        BY <1>1, <3>1, MultiplesAreGroup
      <3>4. Mul(c, 2) # <<>> /\ A # <<>>
        BY <1>1, <3>3, CurvePointOf
      <3> QED BY <3>2, <3>3, <3>4
    <2>3. Stands(c, start, A)
      <3>1. AffinePoint(c, A) /\ Denotes(c.p, g[1], A[1]) /\ Denotes(c.p, g[2], A[2])
        <4>1. Denotes(c.p, g[1], A[1]) /\ Denotes(c.p, g[2], A[2])
          BY <1>1 DEF Operand
        <4> QED BY <1>1, <2>2, <4>1, CurvePointOf
      <3> HIDE DEF A
      <3> QED BY <1>1, <3>1, ConstantsStand
    <2>4. B \in CurvePoints(c) /\ Denotes(c.p, q[1], B[1]) /\ Denotes(c.p, q[2], B[2])
      BY <2>1 DEF Operand
    <2> HIDE DEF A, B, sum, start, q
    <2> DEFINE S == AddComplete(c, start, q, 0)
    <2>5. /\ Stands(c, S, AffineAdd(c, A, B))
          /\ A # <<>> /\ AffineAdd(c, A, B) = <<>> /\ AffineAdd(c, A, A) # <<>> => S = Infinity
      <3> DEFINE bit == 0
      <3>1. bit \in {0, 1} /\ bit # 1 /\ bit = 0
        OBVIOUS
      <3>2. S = AddComplete(c, start, q, bit)
        OBVIOUS
      <3> HIDE DEF bit, S
      <3>3. /\ Stands(c, AddComplete(c, start, q, bit), AffineAdd(c, A, B))
            /\ (A # <<>> /\ bit = 0 /\ AffineAdd(c, A, B) = <<>> /\ AffineAdd(c, A, A) # <<>>)
                  => AddComplete(c, start, q, bit) = Infinity
        BY <1>1, <2>2, <2>3, <2>4, <3>1, CompleteStands
      <3> QED BY <3>1, <3>2, <3>3
    <2> QED BY <2>2, <2>5 DEF start, q, sum
  <1>5. SumFor(call, J)
    BY <1>4, OfTheCall DEF SumFor, c
  <1> QED BY <1>3, <1>5

\* A pair with a flag behind it.
LEMMA PairAndFlag ==
    ASSUME NEW x, NEW y, NEW flag
    PROVE  /\ (<<x, y>> \o <<flag>>)[1] = x /\ (<<x, y>> \o <<flag>>)[2] = y
           /\ (<<x, y>> \o <<flag>>)[3] = flag
  <1> DEFINE S == {x, y, flag}  s == <<x, y>>  t == <<flag>>
  <1>1. s \in Seq(S) /\ t \in Seq(S)
    OBVIOUS
  <1>2. Len(s) = 2 /\ Len(t) = 1 /\ s[1] = x /\ s[2] = y /\ t[1] = flag
    OBVIOUS
  <1> HIDE DEF S, s, t
  <1>3. \A l \in 1 .. Len(s) + Len(t) : (s \o t)[l] = IF l <= Len(s) THEN s[l] ELSE t[l - Len(s)]
    BY <1>1, Concatenated
  <1> DEFINE all == s \o t
  <1>4. \A l \in 1 .. Len(s) + Len(t) : all[l] = IF l <= Len(s) THEN s[l] ELSE t[l - Len(s)]
    BY <1>3
  <1> HIDE DEF all
  <1>5. \A l \in 1 .. 2 + 1 : all[l] = IF l <= 2 THEN s[l] ELSE t[l - 2]
    BY <1>2, <1>4
  <1>6. all[1] = s[1] /\ all[2] = s[2] /\ all[3] = t[1]
    BY <1>5
  <1> QED BY <1>2, <1>6 DEF all, s, t

\* After the inversion of its third coordinate, G + P is an operand of the loop.
LEMMA OperandComputed ==
    ASSUME call \in Calls, call.fn = "compute", NEW J \in Points, SumFor(call, J),
           NEW v \in Limbs(LIMBS), LoopAt("p", SafeZ(J), v, -1)
    PROVE  LET q == ToAffine(c, J, v) \o <<EqBool(J[3], Zero)>>
           IN  <<q[1], q[2]>> \in Pairs /\ q[3] \in Flags /\ OperandFor(call, q)
  <1> DEFINE t == ToAffine(c, J, v)  e == EqBool(J[3], Zero)  q == t \o <<e>>  p == c.p
  <1>1. c \in Curves /\ p \in Nat \ {0}
    <2>1. c \in Curves
      BY DEF c, Curves
    <2> QED BY <2>1, CurveModuli
  <1>2. /\ SafeZ(J) \in Limbs(LIMBS) /\ SafeZ(J) = (IF Value(J[3]) = 0 THEN One ELSE J[3])
        /\ e \in Flags /\ e = (IF Value(J[3]) = 0 THEN 1 ELSE 0)
    BY SafeZOf
  <1>3. /\ Value(v) < p
        /\ ~Agree(p, Value(SafeZ(J)), 0) => Agree(p, Value(v) * Value(SafeZ(J)), 1)
    <2> DEFINE m == "p"
    <2>1. m \in {"p", "n"} /\ Modulus(m) = p /\ LoopAt(m, SafeZ(J), v, -1)
      BY DEF Modulus
    <2> HIDE DEF m
    <2>2. Value(v) \in 0 .. p - 1
      BY <1>2, <2>1, LoopEnds
    <2> QED BY <1>1, <1>2, <2>1, <2>2, LoopEnds
  <1>4. /\ t[1] \in Limbs(LIMBS) /\ t[2] \in Limbs(LIMBS)
        /\ \A A : /\ Stands(c, J, A) /\ A # <<>> /\ Agree(p, Value(v) * Value(J[3]), 1)
                  => Denotes(p, t[1], A[1]) /\ Denotes(p, t[2], A[2])
        /\ J[1] = Zero /\ J[2] = Zero => t[1] = Zero /\ t[2] = Zero
    BY <1>1, <1>3, AffineOf
  <1>5. t = <<t[1], t[2]>>
    BY DEF ToAffine
  <1>6. q[1] = t[1] /\ q[2] = t[2] /\ q[3] = e
    <2> HIDE DEF t, e
    <2> DEFINE t1 == t[1]  t2 == t[2]
    <2>1. t = <<t1, t2>>
      BY <1>5
    <2> HIDE DEF t1, t2
    <2>2. (<<t1, t2>> \o <<e>>)[1] = t1 /\ (<<t1, t2>> \o <<e>>)[2] = t2 /\ (<<t1, t2>> \o <<e>>)[3] = e
      BY PairAndFlag
    <2>3. q[1] = t1 /\ q[2] = t2 /\ q[3] = e
      BY <2>1, <2>2
    <2> QED BY <2>3 DEF t1, t2
  <1> HIDE DEF q, t, e
  <1>7. <<q[1], q[2]>> \in Pairs /\ q[3] \in Flags
    BY <1>2, <1>4, <1>6, PointOf, SmallConstants
  <1>8. ASSUME OnCurveOf(call)
        PROVE  Operand(c, <<q[1], q[2]>>, q[3], Mul(c, 1 + KeyOf(call)))
    <2> DEFINE A == Mul(c, 1 + KeyOf(call))  pair == <<q[1], q[2]>>
    <2>1. Stands(c, J, A) /\ (A = <<>> => J = Infinity)
      BY <1>8 DEF SumFor, c
    <2>2. A = <<>> \/ A \in CurvePoints(c)
      <3>1. OnCurve /\ KeyOf(call) = SecretKey
        BY <1>8, OfTheCall
      <3>2. SecretKey \in 1 .. c.n - 1
        BY <3>1, KeyAndGenerator
      <3>3. 1 + KeyOf(call) \in Int
        BY <3>1, <3>2
      <3> QED BY <1>1, <3>3, MultipleIsPoint
    <2>3. pair[1] = q[1] /\ pair[2] = q[2]
      OBVIOUS
    <2> HIDE DEF A
    <2>4. (Value(J[3]) = 0 <=> A = <<>>) /\ J[3] \in Limbs(LIMBS) /\ Value(J[3]) < p
      BY <1>1, <2>1, StandsForInfinity
    <2>5. CASE A = <<>>
      <3>1. J[1] = Zero /\ J[2] = Zero /\ q[3] = 1
        BY <1>2, <1>6, <2>1, <2>4, <2>5, SmallConstants
      <3>2. q[1] = Zero /\ q[2] = Zero
        BY <1>4, <1>6, <3>1
      <3> QED BY <2>5, <3>1, <3>2 DEF Operand, A
    <2>6. CASE A # <<>>
      <3>1. q[3] # 1 /\ SafeZ(J) = J[3]
        BY <1>2, <1>6, <2>4, <2>6
      <3>2. ~Agree(p, Value(J[3]), 0)
        <4> DEFINE o == 0  d == Value(J[3])
        <4>1. d \in 0 .. p - 1 /\ o \in 0 .. p - 1 /\ d # o
          <5>1. d \in 0 .. R - 1
            BY <1>1, <2>4, DenotesValue
          <5>2. R \in Nat /\ d < p /\ d # 0
            BY <2>4, <2>6, RIsPositive
          <5> HIDE DEF d
          <5> QED BY <1>1, <5>1, <5>2
        <4> HIDE DEF o, d
        <4>2. ~Agree(p, d, o)
          BY <1>1, <4>1, AgreeRemainder
        <4> QED BY <4>2 DEF o, d
      <3>3. Denotes(p, t[1], A[1]) /\ Denotes(p, t[2], A[2])
        BY <1>3, <1>4, <2>1, <2>6, <3>1, <3>2
      <3>4. A \in CurvePoints(c)
        BY <2>2, <2>6
      <3> HIDE DEF pair
      <3>5. Operand(c, pair, q[3], A)
        BY <1>6, <2>3, <3>1, <3>3, <3>4 DEF Operand
      <3> QED BY <3>5 DEF A, pair
    <2> QED BY <2>5, <2>6
  <1>9. OperandFor(call, q)
    BY <1>8 DEF OperandFor, c
  <1> QED BY <1>7, <1>9 DEF q, t, e

\* Before the first bit the accumulator is infinity, as no bit is consumed.
LEMMA AccStarts ==
    ASSUME call \in Calls, call.fn = "compute", NEW a \in Limbs(LIMBS), NEW b \in Limbs(LIMBS), NEW i
    PROVE  AccFor(call, Infinity, i, a, b, WeightOf(LimbBase \div 2, LIMBS))
  <1> DEFINE sk == KeyOf(call)
  <1>1. c \in Curves /\ c = call.curve
    BY DEF c, Curves
  <1>2. ASSUME NEW x \in Limbs(LIMBS) PROVE Value(x) \div R = 0
    <2>1. LIMBS \in Nat
      BY BaseIsPositive
    <2>2. Value(x) \in 0 .. Power(LimbBase, LIMBS) - 1
      BY <2>1, ValueBounded
    <2>3. Value(x) \in 0 .. R - 1 /\ R \in Nat \ {0}
      BY <2>2, RIsPositive DEF R
    <2> DEFINE v == Value(x)  o == 0
    <2>4. v \in Int /\ o \in Int /\ v = v + R * o
      BY <2>3
    <2>5. v \in 0 .. R - 1
      BY <2>3
    <2> HIDE DEF v, o
    <2>6. v \div R = o
      BY <2>3, <2>4, <2>5, QuotientOf
    <2> QED BY <2>6 DEF v, o
  <1>3. WeightOf(LimbBase \div 2, LIMBS) = R
    BY WeightSteps
  <1>4. ASSUME OnCurveOf(call)
        PROVE  Stands(c, Infinity, Mul(c, (Value(a) \div R) + (Value(b) \div R) * sk))
    <2>1. OnCurve /\ sk = SecretKey
      BY <1>4, OfTheCall
    <2>2. SecretKey \in 1 .. c.n - 1
      BY <2>1, KeyAndGenerator
    <2>3. sk \in Int
      BY <2>1, <2>2
    <2> HIDE DEF sk
    <2>4. 0 + 0 * sk = 0
      BY <2>3
    <2>5. (Value(a) \div R) + (Value(b) \div R) * sk = 0
      BY <1>2, <2>4
    <2>6. Mul(c, 0) = <<>> /\ Stands(c, Infinity, <<>>)
      BY <1>1, MultiplesAreGroup, ConstantsStand
    <2> QED BY <2>5, <2>6
  <1> QED BY <1>1, <1>3, <1>4 DEF AccFor

\* (0, 0, 1) stands for nothing, and is doubled to infinity.
LEMMA StandInDoubles ==
    ASSUME NEW curve \in Curves
    PROVE  /\ Stands(curve, Double(curve, <<Zero, Zero, One>>), <<>>)
           /\ <<Zero, Zero, One>> \in Points
  <1> DEFINE J == <<Zero, Zero, One>>  o == 0  i == 1
  <1>1. Denotes(curve.p, J[1], o) /\ Denotes(curve.p, J[2], o) /\ Denotes(curve.p, J[3], i)
    BY ConstantsStand
  <1>2. curve.p \in Nat \ {0} /\ 2 * (o * i) = 0 /\ 0 \in Int
    BY CurveModuli
  <1>3. Agree(curve.p, 2 * (o * i), 0)
    BY <1>2, AgreeEquivalence
  <1>4. J \in Points
    BY SmallConstants, PointOf
  <1> HIDE DEF J, o, i
  <1>5. Stands(curve, Double(curve, J), <<>>)
    BY <1>1, <1>3, DoubleVanishes
  <1> QED BY <1>4, <1>5 DEF J

\* One bit of both scalars later it stands for the longer prefixes.
LEMMA AccSteps ==
    ASSUME call \in Calls, call.fn = "compute", NEW J \in Points, NEW q,
           <<q[1], q[2]>> \in Pairs, q[3] \in Flags, OperandFor(call, q),
           NEW a \in Limbs(LIMBS), NEW b \in Limbs(LIMBS), NEW k \in 1 .. LIMBS,
           NEW m, GoodMask(m), m # 0, AccFor(call, J, q[3], a, b, WeightOf(m, k))
    PROVE  LET S == JointBit(c, J, g, <<pk_x, pk_y>>, <<q[1], q[2]>>, q[3],
                             MaskedBit(a[k], m), MaskedBit(b[k], m))
           IN  S \in Points /\ AccFor(call, S, q[3], a, b, WeightOf(m \div 2, k))
  <1> DEFINE b1 == MaskedBit(a[k], m)  b2 == MaskedBit(b[k], m)  qs == <<q[1], q[2]>>  i == q[3]
             qp == <<pk_x, pk_y>>  sk == KeyOf(call)
             S == JointBit(c, J, g, qp, qs, i, b1, b2)
             w == WeightOf(m, k)  w2 == WeightOf(m \div 2, k)
             u == Value(a) \div w  v == Value(b) \div w
             A == Mul(c, u + v * sk)  A2 == Mul(c, (Value(a) \div w2) + (Value(b) \div w2) * sk)
  <1>1. c \in Curves /\ c = call.curve
    BY DEF c, Curves
  <1>2. /\ b1 \in Flags /\ b2 \in Flags /\ u \in Nat /\ v \in Nat
        /\ Value(a) \div w2 = 2 * u + b1 /\ Value(b) \div w2 = 2 * v + b2
    <2> DEFINE W == Power(LimbBase, k - 1)
    <2>1. w = (2 * m) * W /\ w2 = m * W
      BY WeightSteps
    <2> HIDE DEF w, w2, W
    <2>2. /\ b1 \in {0, 1} /\ Value(a) \div (m * W) = 2 * (Value(a) \div ((2 * m) * W)) + b1
          /\ Value(a) \div ((2 * m) * W) \in Nat
      BY ConsumedBit DEF W
    <2>3. /\ b2 \in {0, 1} /\ Value(b) \div (m * W) = 2 * (Value(b) \div ((2 * m) * W)) + b2
          /\ Value(b) \div ((2 * m) * W) \in Nat
      BY ConsumedBit DEF W
    <2> QED BY <2>1, <2>2, <2>3 DEF Flags
  <1>3. g \in Pairs /\ qp \in Pairs /\ qs \in Pairs /\ i \in Flags /\ Operand(c, g, 0, Mul(c, 1))
    BY KeyAndGenerator
  <1>4. ASSUME OnCurveOf(call)
        PROVE  Stands(c, S, A2) \/ (i = 1 /\ S = <<Zero, Zero, One>> /\ A2 = <<>>)
    <2>1. OnCurve /\ sk = SecretKey
      BY <1>4, OfTheCall
    <2>2. Operand(c, qp, 0, Mul(c, sk)) /\ SecretKey \in 1 .. c.n - 1
      BY <2>1, KeyAndGenerator
    <2>3. sk \in Int /\ u + v * sk \in Int
      <3>1. sk \in Int
        BY <2>1, <2>2
      <3> HIDE DEF sk, u, v
      <3> QED BY <1>2, <3>1
    <2>4. Operand(c, qs, i, Mul(c, 1 + sk))
      BY <1>1, <1>4 DEF OperandFor
    <2>5. Stands(c, J, A) \/ (i = 1 /\ J = <<Zero, Zero, One>> /\ A = <<>>)
      BY <1>1, <1>4 DEF AccFor
    <2> DEFINE D == AffineAdd(c, A, A)
    <2>6. Stands(c, Double(c, J), D)
      <3>1. CASE Stands(c, J, A)
        <4> HIDE DEF A
        <4> QED BY <1>1, <3>1, DoubleStands
      <3>2. CASE J = <<Zero, Zero, One>> /\ A = <<>>
        <4>1. D = <<>>
          BY <3>2 DEF AffineAdd
        <4> QED BY <1>1, <3>2, <4>1, StandInDoubles
      <3> QED BY <2>5, <3>1, <3>2
    <2>7. D = <<>> \/ D \in CurvePoints(c)
      <3> DEFINE j == u + v * sk
      <3>1. j \in Int /\ j + j \in Int /\ A = Mul(c, j)
        BY <2>3
      <3> HIDE DEF j, A
      <3>2. D = Mul(c, j + j)
        BY <1>1, <3>1, MultiplesAreGroup
      <3> QED BY <1>1, <3>1, <3>2, MultipleIsPoint
    <2>8. AffineAdd(c, D, Addend(b1, b2, <<>>, Mul(c, 1), Mul(c, sk), Mul(c, 1 + sk))) = A2
      <3>1. u \in Int /\ v \in Int /\ b1 \in Flags /\ b2 \in Flags
        BY <1>2
      <3>2. A2 = Mul(c, (2 * u + b1) + (2 * v + b2) * sk)
        BY <1>2
      <3> HIDE DEF u, v, b1, b2, sk, A2
      <3> QED BY <1>1, <2>3, <3>1, <3>2, JointMultiple
    <2> HIDE DEF D, A2, A, b1, b2, sk, qs, qp, i, S
    <2> DEFINE Bg == Mul(c, 1)  Bp == Mul(c, sk)  Bs == Mul(c, 1 + sk)
               JB == JointBit(c, J, g, qp, qs, i, b1, b2)
               C == AffineAdd(c, D, Addend(b1, b2, <<>>, Bg, Bp, Bs))
    <2>9. Operand(c, g, 0, Bg) /\ Operand(c, qp, 0, Bp) /\ Operand(c, qs, i, Bs)
      BY <1>3, <2>2, <2>4
    <2> HIDE DEF Bg, Bp, Bs
    <2>10. Stands(c, JB, C) \/ (i = 1 /\ JB = <<Zero, Zero, One>> /\ C = <<>>)
      BY <1>1, <1>2, <1>3, <2>6, <2>7, <2>9, JointStands
    <2>11. C = A2 /\ S = JB
      BY <2>8 DEF Bg, Bp, Bs, S
    <2> QED BY <2>10, <2>11
  <1>5. S \in Points
    <2> HIDE DEF b1, b2, qs, qp, i
    <2> QED BY <1>1, <1>2, <1>3, JointSelects
  <1>6. AccFor(call, S, i, a, b, w2)
    BY <1>1, <1>4 DEF AccFor
  <1> QED BY <1>5, <1>6

\* The multiple that the scalars stand for, and the one of the specification.
JointOf(k, a, b) == Mul(k.curve, Value(a) + Value(b) * KeyOf(k))
PointFor(k) ==
    LET w == SmallestInverse(BigEndian(k.sig_s), k.curve.n)
    IN  Mul(k.curve, BigEndian(k.z) * w + ((BigEndian(k.sig_r) * w) % k.curve.n) * KeyOf(k))

\* The scalars stand for the point of the specification, and for infinity if s is zero.
LEMMA ScalarsOfPoint ==
    ASSUME call \in Calls, call.fn = "compute", OnCurveOf(call), NEW a, NEW b, ScalarsFor(call, a, b),
           BigEndian(call.sig_s) \in 0 .. c.n \div 2
    PROVE  /\ BigEndian(call.sig_s) = 0 => JointOf(call, a, b) = <<>>
           /\ BigEndian(call.sig_s) # 0 => JointOf(call, a, b) = PointFor(call)
  <1> DEFINE n == c.n  zz == BigEndian(call.z)  r == BigEndian(call.sig_r)  s == BigEndian(call.sig_s)
             sk == KeyOf(call)
  <1>1. c \in Curves /\ c = call.curve /\ n \in Nat \ {0, 1, 2}
    <2>1. c \in Curves /\ c = call.curve
      BY DEF c, Curves
    <2> QED BY <2>1, CurveModuli
  <1>2. sk \in Int
    <2>1. OnCurve /\ sk = SecretKey
      BY OfTheCall
    <2>2. SecretKey \in 1 .. c.n - 1
      BY <2>1, KeyAndGenerator
    <2> QED BY <2>1, <2>2
  <1>3. zz \in Int /\ r \in Int /\ s \in Int
    <2>1. /\ z \in Limbs(LIMBS) /\ sig_r \in Limbs(LIMBS) /\ sig_s \in Limbs(LIMBS)
          /\ Value(z) = zz /\ Value(sig_r) = r /\ Value(sig_s) = s
      BY OperandsPacked
    <2>2. \A x \in Limbs(LIMBS) : Value(x) \in Int
      BY <1>1, DenotesValue
    <2> QED BY <2>1, <2>2
  <1>4. PICK v \in 0 .. n - 1 : /\ Value(a) = (zz * v) % n /\ Value(b) = (r * v) % n
                                /\ ~Agree(n, s, 0) => Agree(n, v * s, 1)
                                /\ s = 0 => v = 0
    BY <1>1 DEF ScalarsFor
  <1>5. v \in Int /\ zz * v \in Int /\ r * v \in Int
    BY <1>1, <1>3
  <1>6. Value(a) \in Int /\ Value(b) \in Int /\ Agree(n, Value(a), zz * v) /\ Agree(n, Value(b), r * v)
    <2> DEFINE e == zz * v  f == r * v
    <2>1. Value(a) = e % n /\ Value(b) = f % n /\ e \in Int /\ f \in Int
      BY <1>4, <1>5
    <2> HIDE DEF e, f, n
    <2>2. e % n \in 0 .. n - 1 /\ Agree(n, e % n, e) /\ f % n \in 0 .. n - 1 /\ Agree(n, f % n, f)
      BY <1>1, <2>1, AgreeRemainder
    <2> QED BY <1>1, <2>1, <2>2 DEF e, f
  <1> DEFINE A == Value(a)  B == Value(b)
  <1>7. A \in Int /\ B \in Int /\ Agree(n, A, zz * v) /\ Agree(n, B, r * v) /\ JointOf(call, a, b) = Mul(c, A + B * sk)
    BY <1>1, <1>6 DEF JointOf
  <1>8. PointFor(call) = Mul(c, zz * SmallestInverse(s, n) + ((r * SmallestInverse(s, n)) % n) * sk)
    BY <1>1 DEF PointFor
  <1>9. s \in 0 .. n \div 2
    OBVIOUS
  <1> HIDE DEF A, B, zz, r, s, sk
  <1>10. ASSUME s = 0 PROVE JointOf(call, a, b) = <<>>
    <2>1. v = 0
      BY <1>4, <1>10
    <2>2. zz * v = 0 /\ r * v = 0
      BY <1>3, <2>1
    <2>3. Agree(n, A, 0) /\ Agree(n, B, 0) /\ Agree(n, sk, sk)
      BY <1>1, <1>2, <1>7, <2>2, AgreeEquivalence
    <2>4. Agree(n, B * sk, 0 * sk)
      BY <1>1, <2>3, AgreeOperations
    <2>5. 0 * sk = 0
      BY <1>2
    <2>6. Agree(n, A + B * sk, 0 + 0)
      <3>1. Agree(n, B * sk, 0)
        BY <2>4, <2>5
      <3> QED BY <1>1, <2>3, <3>1, AgreeOperations
    <2>7. A + B * sk \in Int /\ Agree(n, A + B * sk, 0)
      BY <2>6 DEF Agree
    <2> QED BY <1>1, <1>7, <2>7, MultiplesAreGroup
  <1>11. ASSUME s # 0 PROVE JointOf(call, a, b) = PointFor(call)
    <2> DEFINE w == SmallestInverse(s, n)
    <2>1. s \in 0 .. n - 1 /\ s % n = s /\ ~Agree(n, s, 0)
      <3>1. n \div 2 \in Nat /\ n \div 2 <= n - 1
        <4> DEFINE two == 2  half == n \div two
        <4>1. two \in Nat \ {0} /\ two = 2
          OBVIOUS
        <4> HIDE DEF two
        <4>2. half \in Nat /\ n % two \in 0 .. two - 1 /\ n = two * half + (n % two)
          BY <1>1, <4>1, DivModNat
        <4> DEFINE odd == n % two
        <4>3. odd \in 0 .. two - 1 /\ n = two * half + odd /\ half \in Nat
          BY <4>2
        <4> HIDE DEF half, odd
        <4>4. half \in Nat /\ half <= n - 1
          BY <1>1, <4>1, <4>3
        <4> QED BY <4>1, <4>4 DEF half
      <3>2. s \in 0 .. n - 1
        BY <1>1, <1>3, <1>9, <3>1
      <3>3. s % n = s
        BY <1>1, <3>2, AgreeRemainder
      <3> DEFINE o == 0
      <3>4. o \in 0 .. n - 1 /\ s # o
        BY <1>1, <1>11
      <3> HIDE DEF o
      <3>5. ~Agree(n, s, o)
        BY <1>1, <3>2, <3>4, AgreeRemainder
      <3> QED BY <3>2, <3>3, <3>5 DEF o
    <2>2. Prime(n)
      BY <1>1 DEF Prime
    <2>3. w \in 1 .. n - 1 /\ w \in Int /\ Agree(n, s * w, 1)
      <3>1. SmallestInverse(s % n, n) \in 1 .. n - 1 /\ Agree(n, s * SmallestInverse(s % n, n), 1)
        BY <1>3, <2>1, <2>2, SmallestInverseInverts
      <3> QED BY <2>1, <3>1
    <2> HIDE DEF w
    <2>4. Agree(n, v, w)
      <3>1. Agree(n, s * v, 1)
        <4>1. s * v = v * s
          BY <1>3, <1>5
        <4> QED BY <1>4, <2>1, <4>1
      <3>2. Agree(n, s * v, s * w)
        BY <1>1, <2>3, <3>1, AgreeEquivalence
      <3> QED BY <1>3, <1>5, <2>1, <2>2, <2>3, <3>2, PrimeCancels
    <2> DEFINE e == zz * w  f == r * w  h == f % n
    <2>5. e \in Int /\ f \in Int
      BY <1>3, <2>3
    <2>6. Agree(n, A, e) /\ Agree(n, B, f)
      <3>1. Agree(n, zz, zz) /\ Agree(n, r, r)
        BY <1>1, <1>3, AgreeEquivalence
      <3>2. Agree(n, zz * v, e) /\ Agree(n, r * v, f)
        BY <1>1, <2>4, <3>1, AgreeOperations
      <3> HIDE DEF e, f
      <3> QED BY <1>1, <1>7, <3>2, AgreeEquivalence
    <2>7. PointFor(call) = Mul(c, e + h * sk)
      BY <1>8 DEF w
    <2> HIDE DEF e, f
    <2>8. h \in Int /\ Agree(n, f, h)
      BY <1>1, <2>5, AgreeRemainder, ZenonT(60) DEF Agree
    <2> HIDE DEF h
    <2>9. Agree(n, B, h) /\ Agree(n, sk, sk)
      BY <1>1, <1>2, <2>6, <2>8, AgreeEquivalence
    <2>10. Agree(n, B * sk, h * sk)
      BY <1>1, <2>9, AgreeOperations
    <2>11. Agree(n, A + B * sk, e + h * sk)
      BY <1>1, <2>6, <2>10, AgreeOperations
    <2>12. A + B * sk \in Int /\ e + h * sk \in Int
      BY <2>11 DEF Agree
    <2> QED BY <1>1, <1>7, <2>7, <2>11, <2>12, MultiplesAreGroup
  <1> QED BY <1>10, <1>11 DEF s

\* The flags of the result for a point at infinity and for any other.
LEMMA FlagsOfResult ==
    ASSUME call \in Calls, call.fn = "compute", NEW J \in Points, NEW i, NEW pt,
           pt = <<>> \/ pt \in CurvePoints(c),
           Stands(c, J, pt) \/ (i = 1 /\ J = <<Zero, Zero, One>> /\ pt = <<>>),
           NEW v \in Limbs(LIMBS), LoopAt("p", SafeZ(J), v, -1),
           Value(sig_r) \in 1 .. c.n - 1
    PROVE  LET rx == ToAffine(c, J, v)[1]
               set == /\ NotBit(EqBool(J[3], Zero)) # 0
                      /\ LtBool(rx, Const(c.n)) # 0 /\ EqBool(rx, sig_r) # 0
           IN  set <=> pt # <<>> /\ pt[1] = Value(sig_r)
  <1> DEFINE rx == ToAffine(c, J, v)[1]  p == c.p  n == c.n  r == Value(sig_r)
             d == J[3]  f1 == NotBit(EqBool(d, Zero))
             f2 == LtBool(rx, Const(n))  f3 == EqBool(rx, sig_r)
  <1>1. c \in Curves /\ p \in Nat \ {0} /\ n \in Nat \ {0} /\ n < R /\ LIMBS \in Nat
    <2>1. c \in Curves
      BY DEF c, Curves
    <2> QED BY <2>1, CurveModuli, BaseIsPositive
  <1>2. /\ SafeZ(J) \in Limbs(LIMBS) /\ SafeZ(J) = (IF Value(d) = 0 THEN One ELSE d)
        /\ EqBool(d, Zero) = (IF Value(d) = 0 THEN 1 ELSE 0) /\ d \in Limbs(LIMBS)
    BY SafeZOf
  <1>3. Value(v) < p /\ (~Agree(p, Value(SafeZ(J)), 0) => Agree(p, Value(v) * Value(SafeZ(J)), 1))
    <2> DEFINE m == "p"
    <2>1. m \in {"p", "n"} /\ Modulus(m) = p /\ LoopAt(m, SafeZ(J), v, -1)
      BY DEF Modulus
    <2> HIDE DEF m
    <2>2. Value(v) \in 0 .. p - 1
      BY <1>2, <2>1, LoopEnds
    <2> QED BY <1>1, <1>2, <2>1, <2>2, LoopEnds
  <1>4. /\ rx \in Limbs(LIMBS)
        /\ \A A : /\ Stands(c, J, A) /\ A # <<>> /\ Agree(p, Value(v) * Value(d), 1)
                  => AffinePoint(c, A) /\ Denotes(p, rx, A[1])
        /\ J[1] = Zero /\ J[2] = Zero => rx = Zero
    BY <1>1, <1>3, AffineOf
  <1>5. sig_r \in Limbs(LIMBS) /\ r \in 1 .. n - 1
    BY OperandsPacked
  <1>6. f3 = IF rx = sig_r THEN 1 ELSE 0
    BY <1>4, <1>5, EqBoolDecides
  <1>7. f1 = IF Value(d) = 0 THEN 0 ELSE 1
    BY <1>2, BitProducts
  <1>8. f2 = IF Value(rx) < n THEN 1 ELSE 0
    <2>1. n \in 0 .. R - 1
      BY <1>1, RIsPositive
    <2>2. Const(n) \in Limbs(LIMBS) /\ Value(Const(n)) = n
      BY <2>1, ValueOfConst
    <2> QED BY <1>1, <1>4, <2>2, LtBoolCompares
  <1>9. rx = sig_r <=> Value(rx) = r
    BY <1>1, <1>4, <1>5, ValueDetermines
  <1> HIDE DEF rx, f1, f2, f3, d, p, n, r
  <1>10. CASE pt = <<>>
    <2>1. CASE Stands(c, J, pt)
      <3>1. Value(d) = 0
        BY <1>1, <1>10, <2>1, StandsForInfinity DEF d
      <3> QED BY <1>7, <1>10, <3>1 DEF rx, f1, f2, f3, d, n, r
    <2>2. CASE J = <<Zero, Zero, One>>
      <3>1. J[1] = Zero /\ J[2] = Zero
        BY <2>2
      <3>2. rx = Zero /\ Value(rx) = 0
        BY <1>4, <3>1, SmallConstants
      <3>3. r # 0
        BY <1>1, <1>5
      <3>4. f3 = 0
        BY <1>6, <1>9, <3>2, <3>3
      <3> QED BY <1>10, <3>4 DEF rx, f1, f2, f3, d, n, r
    <2> QED BY <2>1, <2>2
  <1>11. CASE pt # <<>>
    <2>1. Stands(c, J, pt)
      BY <1>11
    <2>2. Value(d) # 0 /\ Value(d) < p /\ Value(d) \in Nat
      <3>1. Value(d) \in 0 .. R - 1
        BY <1>1, <1>2, DenotesValue
      <3>2. Value(d) # 0 /\ Value(d) < p
        BY <1>1, <1>11, <2>1, StandsForInfinity DEF d, p
      <3> QED BY <3>1, <3>2
    <2>3. SafeZ(J) = d /\ ~Agree(p, Value(d), 0)
      <3> DEFINE o == 0  e == Value(d)
      <3>1. e \in 0 .. p - 1 /\ o \in 0 .. p - 1 /\ e # o
        BY <1>1, <2>2
      <3> HIDE DEF o, e
      <3>2. ~Agree(p, e, o)
        BY <1>1, <3>1, AgreeRemainder
      <3> QED BY <1>2, <2>2, <3>2 DEF o, e
    <2>4. AffinePoint(c, pt) /\ Denotes(p, rx, pt[1])
      BY <1>3, <1>4, <1>11, <2>1, <2>3
    <2>5. Value(rx) = pt[1]
      <3>1. pt[1] \in 0 .. p - 1 /\ pt[1] \in Int
        BY <1>1, <2>4, AffineCoordinates DEF p
      <3>2. Value(rx) = pt[1] % p /\ pt[1] % p = pt[1]
        BY <1>1, <2>4, <3>1, DenotesValue, AgreeRemainder
      <3> QED BY <3>2
    <2>6. r < n
      BY <1>1, <1>5
    <2>7. f1 # 0 /\ f2 # 0 /\ f3 # 0 <=> pt[1] = r
      BY <1>6, <1>7, <1>8, <1>9, <2>2, <2>5, <2>6
    <2> QED BY <1>11, <2>7 DEF rx, f1, f2, f3, d, n, r
  <1> QED BY <1>10, <1>11

\* The helper's last step answers what the specification answers.
LEMMA Verdict ==
    ASSUME call \in Calls, call.fn = "compute", NEW J \in Points, NEW i, NEW a, NEW b,
           ScalarsFor(call, a, b), AccFor(call, J, i, a, b, 1),
           NEW v \in Limbs(LIMBS), LoopAt("p", SafeZ(J), v, -1)
    PROVE  LET rx == ToAffine(c, J, v)[1]
               valid == FlagsOf(call) \o <<NotBit(EqBool(J[3], Zero)),
                                           LtBool(rx, Const(c.n)), EqBool(rx, sig_r)>>
           IN  (\E k \in 1 .. Len(valid) : valid[k] = 0) <=> ~AcceptedOf(call)
  <1> DEFINE rx == ToAffine(c, J, v)[1]  f == FlagsOf(call)
             f1 == NotBit(EqBool(J[3], Zero))  f2 == LtBool(rx, Const(c.n))  f3 == EqBool(rx, sig_r)
             valid == f \o <<f1, f2, f3>>
             r == BigEndian(call.sig_r)  s == BigEndian(call.sig_s)  n == c.n
             pt == JointOf(call, a, b)
             good == OnCurveOf(call) /\ r \in 1 .. n - 1 /\ s \in 0 .. n \div 2
             set == f1 # 0 /\ f2 # 0 /\ f3 # 0
  <1>1. c \in Curves /\ c = call.curve
    BY DEF c, Curves
  <1>2. Value(sig_r) = r /\ Value(sig_s) = s
    BY OperandsPacked
  <1>3. f \in Seq(Flags) /\ Len(f) = 7 /\ ((\A k \in 1 .. 7 : f[k] = 1) <=> good)
    BY <1>2, InputFlagsDecide, OfTheCall
  <1>4. AcceptedOf(call) <=> /\ OnCurveOf(call) /\ r \in 1 .. n - 1 /\ s \in 1 .. n \div 2
                             /\ PointFor(call) # <<>> /\ PointFor(call)[1] = r
    BY <1>1 DEF AcceptedOf, PointFor, Mul
  <1>5. ASSUME good PROVE set <=> pt # <<>> /\ pt[1] = r
    <2>1. /\ a \in Limbs(LIMBS) /\ b \in Limbs(LIMBS)
      BY DEF ScalarsFor
    <2>2. Value(a) \div 1 = Value(a) /\ Value(b) \div 1 = Value(b) /\ Value(a) \in Int /\ Value(b) \in Int
      <3>1. \A x \in Int : x \div 1 = x
        OBVIOUS
      <3>2. Value(a) \in Int /\ Value(b) \in Int
        <4>1. LIMBS \in Nat /\ n \in Nat \ {0}
          BY <1>1, BaseIsPositive, CurveModuli
        <4> QED BY <2>1, <4>1, DenotesValue
      <3> QED BY <3>1, <3>2
    <2>3. Stands(c, J, pt) \/ (i = 1 /\ J = <<Zero, Zero, One>> /\ pt = <<>>)
      BY <1>1, <1>5, <2>2 DEF AccFor, JointOf
    <2>4. pt = <<>> \/ pt \in CurvePoints(c)
      <3>1. OnCurve /\ KeyOf(call) = SecretKey
        BY <1>5, OfTheCall
      <3>2. SecretKey \in 1 .. c.n - 1
        BY <3>1, KeyAndGenerator
      <3> DEFINE sk == KeyOf(call)
      <3>3. sk \in Int
        BY <3>1, <3>2
      <3>4. pt = Mul(c, Value(a) + Value(b) * sk)
        BY <1>1 DEF JointOf
      <3> HIDE DEF sk
      <3>5. Value(a) + Value(b) * sk \in Int
        BY <2>2, <3>3
      <3> QED BY <1>1, <3>4, <3>5, MultipleIsPoint
    <2>5. Value(sig_r) \in 1 .. c.n - 1
      BY <1>2, <1>5
    <2> HIDE DEF pt
    <2> QED BY <1>2, <2>3, <2>4, <2>5, FlagsOfResult
  <1>6. ASSUME good PROVE /\ s = 0 => pt = <<>>
                          /\ s # 0 => pt = PointFor(call)
    BY <1>6, ScalarsOfPoint
  <1>7. ASSUME good PROVE set <=> AcceptedOf(call)
    <2>1. s = 0 \/ s \in 1 .. n \div 2
      <3>1. s \in 0 .. n \div 2
        BY <1>7
      <3> QED BY <3>1
    <2>2. CASE s = 0
      <3>1. ~(s \in 1 .. n \div 2)
        BY <2>2
      <3> QED BY <1>4, <1>5, <1>6, <1>7, <2>2, <3>1
    <2>3. CASE s \in 1 .. n \div 2
      <3>1. s # 0
        BY <2>3
      <3> QED BY <1>4, <1>5, <1>6, <1>7, <2>3, <3>1
    <2> QED BY <2>1, <2>2, <2>3
  <1>8. AcceptedOf(call) => good
    <2>1. \A j : j \in 1 .. n \div 2 => j \in 0 .. n \div 2
      OBVIOUS
    <2> QED BY <1>4, <2>1
  <1> HIDE DEF f, f1, f2, f3
  <1>9. AnyZero(valid) <=> ~(\A k \in 1 .. 7 : f[k] = 1) \/ f1 = 0 \/ f2 = 0 \/ f3 = 0
    BY <1>3, AllFlags
  <1> HIDE DEF valid
  <1>10. AnyZero(valid) <=> ~AcceptedOf(call)
    BY <1>3, <1>7, <1>8, <1>9
  <1> QED BY <1>10 DEF AnyZero, valid, f, f1, f2, f3

\* The registers of a call, whatever its phase.
Callers == {"none", "s_inv", "gp", "r"}
Inversions == [base : Limbs(LIMBS), modulus : {"p", "n"}, value : Limbs(LIMBS), bit : Int, caller : Callers]

Registers ==
    /\ call \in Calls
    /\ inv \in Inversions /\ inv.bit >= -1
    /\ u1 \in Limbs(LIMBS) /\ u2 \in Limbs(LIMBS)
    /\ acc \in Points
    /\ limb \in 1 .. LIMBS /\ GoodMask(mask)

\* What several phases share: the loop over the scalars has not begun; an inversion is under
\* way; a verification that is not skipped, with the flags of its inputs.
Fresh == acc = Infinity /\ limb = LIMBS /\ mask = LimbBase \div 2
Looping == pc = "inverse" /\ LoopState(ModulusOf(call, inv.modulus), inv.base, inv.value, inv.bit)
Verifying == call.fn = "compute" /\ call.predicate = 1 /\ result = FlagsOf(call)

\* One predicate for each phase of a call.
InHelper == pc = "mul_mod" /\ call.fn = "mul_mod"
InStart  == pc = "compute" /\ call.fn = "compute" /\ Fresh
InS == /\ Looping /\ inv.caller = "s_inv" /\ inv.modulus = "n" /\ inv.base = Pack(call.sig_s)
       /\ Verifying /\ Fresh
InGp == /\ Looping /\ inv.caller = "gp" /\ inv.modulus = "p" /\ inv.base = SafeZ(gp)
        /\ Verifying /\ Fresh /\ gp \in Points
        /\ ScalarsFor(call, u1, u2) /\ SumFor(call, gp)
InJoint == /\ pc = "joint" /\ Verifying /\ ScalarsFor(call, u1, u2)
           /\ <<gp[1], gp[2]>> \in Pairs /\ gp[3] \in Flags /\ OperandFor(call, gp)
           /\ AccFor(call, acc, gp[3], u1, u2, WeightOf(mask, limb))
InR == /\ Looping /\ inv.caller = "r" /\ inv.modulus = "p" /\ inv.base = SafeZ(acc)
       /\ Verifying /\ ScalarsFor(call, u1, u2)
       /\ AccFor(call, acc, gp[3], u1, u2, 1)
InDone == /\ pc = "done"
          /\ call.fn = "compute" =>
                result = IF call.predicate # 1 \/ AcceptedOf(call) THEN 1 ELSE 0

\* The inductive invariant.
EcdsaInv ==
    Registers /\ (InHelper \/ InStart \/ InS \/ InGp \/ InJoint \/ InR \/ InDone)

\* An inversion starts with its loop in order, and every iteration keeps it so.
LEMMA InversionStarts ==
    ASSUME call \in Calls, NEW m \in {"p", "n"}, NEW base \in Limbs(LIMBS), NEW caller \in Callers
    PROVE  LET i == Inverting(base, m, caller)
           IN  /\ i \in Inversions /\ i.bit >= -1 /\ i.base = base /\ i.modulus = m /\ i.caller = caller
               /\ LoopState(ModulusOf(call, i.modulus), i.base, i.value, i.bit)
  <1> DEFINE b == HighBit(m)  i == Inverting(base, m, caller)
  <1>1. LoopState(ModulusOf(call, m), base, One, b) /\ b \in Nat
    BY LoopStarts, LoopOfTheCall
  <1>2. One \in Limbs(LIMBS)
    BY SmallConstants
  <1>3. i = [base |-> base, modulus |-> m, value |-> One, bit |-> b, caller |-> caller]
    BY DEF Inverting
  <1> HIDE DEF b, i
  <1>4. i \in Inversions /\ i.base = base /\ i.modulus = m /\ i.caller = caller /\ i.value = One /\ i.bit = b
    BY <1>1, <1>2, <1>3 DEF Inversions
  <1>5. b >= -1
    BY <1>1
  <1>6. /\ i \in Inversions /\ i.bit >= -1 /\ i.base = base /\ i.modulus = m /\ i.caller = caller
        /\ LoopState(ModulusOf(call, i.modulus), i.base, i.value, i.bit)
    BY <1>1, <1>4, <1>5
  <1> QED BY <1>6 DEF i

LEMMA InversionIterates ==
    ASSUME call \in Calls, NEW i \in Inversions, i.bit >= 0,
           LoopState(ModulusOf(call, i.modulus), i.base, i.value, i.bit)
    PROVE  LET square == MulMod(i.modulus, i.value, i.value)
               j == [i EXCEPT !.bit = @ - 1,
                              !.value = IF ExponentBit(i.modulus, i.bit) = 1
                                        THEN MulMod(i.modulus, square, i.base)
                                        ELSE square]
           IN  /\ j \in Inversions /\ j.bit >= -1
               /\ j.base = i.base /\ j.modulus = i.modulus /\ j.caller = i.caller
               /\ LoopState(ModulusOf(call, j.modulus), j.base, j.value, j.bit)
  <1> DEFINE m == i.modulus  base == i.base  v == i.value  bit == i.bit
             square == MulMod(m, v, v)
             w == IF ExponentBit(m, bit) = 1 THEN MulMod(m, square, base) ELSE square
             j == [i EXCEPT !.bit = @ - 1, !.value = w]
  <1>1. /\ m \in {"p", "n"} /\ base \in Limbs(LIMBS) /\ v \in Limbs(LIMBS) /\ bit \in Nat
        /\ i = [base |-> base, modulus |-> m, value |-> v, bit |-> bit, caller |-> i.caller]
        /\ i.caller \in Callers
    BY DEF Inversions
  <1>2. LoopAt(m, base, v, bit)
    BY LoopOfTheCall
  <1> HIDE DEF m, base, v, bit
  <1>3. w \in Limbs(LIMBS) /\ LoopAt(m, base, w, bit - 1)
    BY <1>1, <1>2, LoopIterates
  <1>4. LoopState(ModulusOf(call, m), base, w, bit - 1) /\ bit - 1 \in Int /\ bit - 1 >= -1
    BY <1>1, <1>3, LoopOfTheCall
  <1>5. j = [i EXCEPT !.bit = bit - 1, !.value = w]
    BY DEF bit
  <1> HIDE DEF w, j
  <1>6. i \in [base : Limbs(LIMBS), modulus : {"p", "n"}, value : Limbs(LIMBS), bit : Int, caller : Callers]
    BY DEF Inversions
  <1>7. /\ j \in Inversions /\ j.base = base /\ j.modulus = m /\ j.value = w /\ j.bit = bit - 1
        /\ j.caller = i.caller
    <2> DEFINE k == [i EXCEPT !.bit = bit - 1]
    <2>1. /\ k \in [base : Limbs(LIMBS), modulus : {"p", "n"}, value : Limbs(LIMBS), bit : Int, caller : Callers]
          /\ k.base = i.base /\ k.modulus = i.modulus /\ k.bit = bit - 1 /\ k.caller = i.caller
      BY <1>4, <1>6
    <2>2. j = [k EXCEPT !.value = w]
      BY <1>5
    <2> HIDE DEF k
    <2>3. /\ j \in [base : Limbs(LIMBS), modulus : {"p", "n"}, value : Limbs(LIMBS), bit : Int, caller : Callers]
          /\ j.base = k.base /\ j.modulus = k.modulus /\ j.bit = k.bit /\ j.caller = k.caller
          /\ j.value = w
      BY <1>3, <2>1, <2>2
    <2> QED BY <2>1, <2>3 DEF Inversions, base, m
  <1>8. /\ j \in Inversions /\ j.bit >= -1
        /\ j.base = base /\ j.modulus = m /\ j.caller = i.caller
        /\ LoopState(ModulusOf(call, j.modulus), j.base, j.value, j.bit)
    BY <1>4, <1>7
  <1> QED BY <1>8 DEF j, w, m, base, v, bit

\* The inverse at the end of the loop.
LEMMA InversionEnds ==
    ASSUME Registers, Looping, inv.bit = -1
    PROVE  /\ inv.value \in Limbs(LIMBS) /\ inv.base \in Limbs(LIMBS) /\ inv.modulus \in {"p", "n"}
           /\ LoopAt(inv.modulus, inv.base, inv.value, -1)
  <1>1. inv.value \in Limbs(LIMBS) /\ inv.base \in Limbs(LIMBS) /\ inv.modulus \in {"p", "n"}
    BY DEF Registers, Inversions
  <1>2. LoopAt(inv.modulus, inv.base, inv.value, inv.bit)
    BY LoopOfTheCall DEF Looping
  <1> QED BY <1>1, <1>2

\* Every call starts in order.
LEMMA EcdsaInitially == Init => EcdsaInv
  <1> SUFFICES ASSUME Init PROVE EcdsaInv
    OBVIOUS
  <1>1. call \in Calls /\ pc = call.fn /\ inv = Inverting(Zero, "n", "none")
    BY DEF Init
  <1>2. Zero \in Limbs(LIMBS) /\ Infinity \in Points /\ "n" \in {"p", "n"} /\ "none" \in Callers
    BY SmallConstants DEF Callers
  <1>3. inv \in Inversions /\ inv.bit >= -1
    <2> DEFINE m == "n"  caller == "none"
    <2>1. m \in {"p", "n"} /\ caller \in Callers /\ inv = Inverting(Zero, m, caller)
      BY <1>1, <1>2
    <2> HIDE DEF m, caller
    <2> QED BY <1>1, <1>2, <2>1, InversionStarts
  <1>4. LIMBS \in 1 .. LIMBS /\ GoodMask(LimbBase \div 2)
    BY BaseIsPositive, MaskStarts
  <1>5. Registers /\ Fresh
    BY <1>1, <1>2, <1>3, <1>4 DEF Registers, Fresh, Init
  <1>6. call.fn \in {"mul_mod", "compute"}
    BY <1>1, CallsAssumption
  <1> QED BY <1>1, <1>5, <1>6 DEF EcdsaInv, InHelper, InStart

\* One lemma per step: a multiplication ends the call, as does a predicate other than one;
LEMMA HelperSteps ==
    ASSUME EcdsaInv, MulModHelper \/ Skip
    PROVE  EcdsaInv'
  <1>1. Registers /\ UNCHANGED <<call, inv, u1, u2, gp, acc, limb, mask>> /\ pc' = "done"
    BY DEF EcdsaInv, MulModHelper, Skip
  <1>2. Registers'
    BY <1>1 DEF Registers
  <1>3. CASE MulModHelper
    <2>1. pc = "mul_mod"
      BY <1>3 DEF MulModHelper
    <2>2. call.fn = "mul_mod"
      BY <2>1 DEF EcdsaInv, InHelper, InStart, InS, InGp, InJoint, InR, InDone, Looping
    <2>3. call'.fn = "mul_mod"
      BY <1>1, <2>2
    <2> QED BY <1>1, <1>2, <2>3 DEF EcdsaInv, InDone
  <1>4. CASE Skip
    <2>1. call.predicate # 1 /\ result' = 1
      BY <1>4 DEF Skip
    <2>2. call'.predicate # 1
      BY <1>1, <2>1
    <2> QED BY <1>1, <1>2, <2>1, <2>2 DEF EcdsaInv, InDone
  <1> QED BY <1>3, <1>4

\* a verification starts with the flags of its inputs and the inversion of s.
LEMMA StartSteps ==
    ASSUME EcdsaInv, StartVerify
    PROVE  EcdsaInv'
  <1>1. /\ Registers /\ UNCHANGED <<call, u1, u2, gp, acc, limb, mask>> /\ pc' = "inverse"
        /\ pc = "compute" /\ call.predicate = 1 /\ result' = InputFlags
        /\ inv' = Inverting(sig_s, "n", "s_inv")
    BY DEF EcdsaInv, StartVerify
  <1>2. call.fn = "compute" /\ Fresh
    BY <1>1 DEF EcdsaInv, InHelper, InStart, InS, InGp, InJoint, InR, InDone, Looping
  <1>3. sig_s \in Limbs(LIMBS) /\ sig_s = Pack(call.sig_s) /\ call \in Calls
    BY <1>1, <1>2, OperandsPacked DEF Registers, sig_s
  <1>4. /\ inv' \in Inversions /\ inv'.bit >= -1 /\ inv'.base = sig_s /\ inv'.modulus = "n"
        /\ inv'.caller = "s_inv"
        /\ LoopState(ModulusOf(call, inv'.modulus), inv'.base, inv'.value, inv'.bit)
    <2> DEFINE m == "n"  caller == "s_inv"
    <2>1. m \in {"p", "n"} /\ caller \in Callers /\ inv' = Inverting(sig_s, m, caller)
      BY <1>1 DEF Callers
    <2>2. m = "n" /\ caller = "s_inv"
      OBVIOUS
    <2> HIDE DEF m, caller
    <2>3. /\ Inverting(sig_s, m, caller) \in Inversions /\ Inverting(sig_s, m, caller).bit >= -1
          /\ Inverting(sig_s, m, caller).base = sig_s /\ Inverting(sig_s, m, caller).modulus = m
          /\ Inverting(sig_s, m, caller).caller = caller
          /\ LoopState(ModulusOf(call, Inverting(sig_s, m, caller).modulus), Inverting(sig_s, m, caller).base,
                       Inverting(sig_s, m, caller).value, Inverting(sig_s, m, caller).bit)
      BY <1>3, <2>1, InversionStarts
    <2> QED BY <2>1, <2>2, <2>3
  <1>5. Registers'
    BY <1>1, <1>4 DEF Registers
  <1>6. result' = FlagsOf(call)
    BY <1>1, OfTheCall
  <1>7. InS'
    BY <1>1, <1>2, <1>3, <1>4, <1>6 DEF InS, Looping, Verifying, Fresh
  <1> QED BY <1>5, <1>7 DEF EcdsaInv

\* One iteration of an inversion keeps every phase that has one under way.
LEMMA IterationSteps ==
    ASSUME EcdsaInv, InverseBit
    PROVE  EcdsaInv'
  <1>1. /\ Registers /\ UNCHANGED <<call, pc, u1, u2, gp, acc, limb, mask, result>>
        /\ pc = "inverse" /\ inv.bit >= 0 /\ (InS \/ InGp \/ InR)
    BY DEF EcdsaInv, InverseBit, InHelper, InStart, InS, InGp, InJoint, InR, InDone
  <1>2. Looping /\ call \in Calls /\ inv \in Inversions
    BY <1>1 DEF InS, InGp, InR, Registers
  <1>3. /\ inv' \in Inversions /\ inv'.bit >= -1
        /\ inv'.base = inv.base /\ inv'.modulus = inv.modulus /\ inv'.caller = inv.caller
        /\ LoopState(ModulusOf(call, inv'.modulus), inv'.base, inv'.value, inv'.bit)
    <2> DEFINE square == MulMod(inv.modulus, inv.value, inv.value)
               j == [inv EXCEPT !.bit = @ - 1,
                                !.value = IF ExponentBit(inv.modulus, inv.bit) = 1
                                          THEN MulMod(inv.modulus, square, inv.base)
                                          ELSE square]
    <2>1. inv' = j
      BY DEF InverseBit
    <2>2. /\ j \in Inversions /\ j.bit >= -1
          /\ j.base = inv.base /\ j.modulus = inv.modulus /\ j.caller = inv.caller
          /\ LoopState(ModulusOf(call, j.modulus), j.base, j.value, j.bit)
      <3>1. LoopState(ModulusOf(call, inv.modulus), inv.base, inv.value, inv.bit)
        BY <1>2 DEF Looping
      <3> QED BY <1>1, <1>2, <3>1, InversionIterates
    <2> HIDE DEF j
    <2> QED BY <2>1, <2>2
  <1>4. Registers'
    BY <1>1, <1>3 DEF Registers
  <1>5. Looping'
    BY <1>1, <1>3 DEF Looping
  <1>6. InS => InS'
    BY <1>1, <1>3, <1>5 DEF InS, Verifying, Fresh
  <1>7. InGp => InGp'
    BY <1>1, <1>3, <1>5 DEF InGp, Verifying, Fresh
  <1>8. InR => InR'
    BY <1>1, <1>3, <1>5 DEF InR, Verifying
  <1> QED BY <1>1, <1>4, <1>6, <1>7, <1>8 DEF EcdsaInv

\* With s inverted there are the scalars and G + P, and its denominator to invert.
LEMMA ScalarSteps ==
    ASSUME EcdsaInv, SInverted
    PROVE  EcdsaInv'
  <1>1. /\ Registers /\ UNCHANGED <<call, pc, acc, limb, mask, result>>
        /\ pc = "inverse" /\ inv.bit = -1 /\ inv.caller = "s_inv"
        /\ u1' = MulN(c, z, inv.value) /\ u2' = MulN(c, sig_r, inv.value)
        /\ gp' = AddComplete(c, <<g[1], g[2], One>>, <<pk_x, pk_y>>, 0)
        /\ inv' = Inverting(SafeZ(gp'), "p", "gp")
    BY DEF EcdsaInv, SInverted, Inverted
  <1>2. InS
    BY <1>1 DEF EcdsaInv, InHelper, InStart, InS, InGp, InJoint, InR, InDone
  <1>3. /\ Looping /\ inv.modulus = "n" /\ inv.base = Pack(call.sig_s) /\ Verifying /\ Fresh
        /\ call.fn = "compute" /\ call \in Calls
    BY <1>1, <1>2 DEF InS, Verifying, Registers
  <1>4. inv.value \in Limbs(LIMBS) /\ LoopAt("n", sig_s, inv.value, -1)
    BY <1>1, <1>3, InversionEnds DEF sig_s
  <1>5. ScalarsFor(call, u1', u2')
    BY <1>1, <1>3, <1>4, ScalarsComputed
  <1>6. gp' \in Points /\ SumFor(call, gp')
    BY <1>1, <1>3, SumComputed
  <1>7. /\ inv' \in Inversions /\ inv'.bit >= -1 /\ inv'.base = SafeZ(gp') /\ inv'.modulus = "p"
        /\ inv'.caller = "gp"
        /\ LoopState(ModulusOf(call, inv'.modulus), inv'.base, inv'.value, inv'.bit)
    <2> DEFINE m == "p"  caller == "gp"  base == SafeZ(gp')
    <2>1. m \in {"p", "n"} /\ caller \in Callers /\ base \in Limbs(LIMBS)
          /\ inv' = Inverting(base, m, caller)
      BY <1>1, <1>6, SafeZOf DEF Callers
    <2>2. m = "p" /\ caller = "gp"
      OBVIOUS
    <2> HIDE DEF m, caller, base
    <2>3. /\ Inverting(base, m, caller) \in Inversions /\ Inverting(base, m, caller).bit >= -1
          /\ Inverting(base, m, caller).base = base /\ Inverting(base, m, caller).modulus = m
          /\ Inverting(base, m, caller).caller = caller
          /\ LoopState(ModulusOf(call, Inverting(base, m, caller).modulus), Inverting(base, m, caller).base,
                       Inverting(base, m, caller).value, Inverting(base, m, caller).bit)
      BY <1>3, <2>1, InversionStarts
    <2> QED BY <2>1, <2>2, <2>3 DEF base
  <1>8. u1' \in Limbs(LIMBS) /\ u2' \in Limbs(LIMBS)
    BY <1>5 DEF ScalarsFor
  <1>9. Registers'
    BY <1>1, <1>7, <1>8 DEF Registers
  <1>10. Looping' /\ Verifying' /\ Fresh'
    BY <1>1, <1>3, <1>7 DEF Looping, Verifying, Fresh
  <1>11. InGp'
    BY <1>1, <1>5, <1>6, <1>7, <1>10 DEF InGp
  <1> QED BY <1>9, <1>11 DEF EcdsaInv

\* With that inverted, the loop over the scalars can start.
LEMMA OperandSteps ==
    ASSUME EcdsaInv, GpInverted
    PROVE  EcdsaInv'
  <1>1. /\ Registers /\ UNCHANGED <<call, inv, u1, u2, acc, limb, mask, result>>
        /\ pc = "inverse" /\ inv.bit = -1 /\ inv.caller = "gp" /\ pc' = "joint"
        /\ gp' = ToAffine(c, gp, inv.value) \o <<EqBool(gp[3], Zero)>>
    BY DEF EcdsaInv, GpInverted, Inverted
  <1>2. InGp
    BY <1>1 DEF EcdsaInv, InHelper, InStart, InS, InGp, InJoint, InR, InDone
  <1>3. /\ Looping /\ inv.modulus = "p" /\ inv.base = SafeZ(gp) /\ Verifying /\ Fresh
        /\ call.fn = "compute" /\ call \in Calls /\ gp \in Points
        /\ ScalarsFor(call, u1, u2) /\ SumFor(call, gp)
    BY <1>1, <1>2 DEF InGp, Verifying, Registers
  <1>4. inv.value \in Limbs(LIMBS) /\ LoopAt("p", SafeZ(gp), inv.value, -1)
    BY <1>1, <1>3, InversionEnds
  <1>5. <<gp'[1], gp'[2]>> \in Pairs /\ gp'[3] \in Flags /\ OperandFor(call, gp')
    <2> DEFINE q == ToAffine(c, gp, inv.value) \o <<EqBool(gp[3], Zero)>>
    <2>1. <<q[1], q[2]>> \in Pairs /\ q[3] \in Flags /\ OperandFor(call, q)
      BY <1>3, <1>4, OperandComputed
    <2>2. gp' = q
      BY <1>1
    <2> HIDE DEF q
    <2> QED BY <2>1, <2>2
  <1>6. AccFor(call, Infinity, gp'[3], u1, u2, WeightOf(LimbBase \div 2, LIMBS))
    BY <1>3, AccStarts DEF ScalarsFor
  <1>7. acc' = Infinity /\ mask' = LimbBase \div 2 /\ limb' = LIMBS
    BY <1>1, <1>3 DEF Fresh
  <1>8. AccFor(call', acc', gp'[3], u1', u2', WeightOf(mask', limb'))
    BY <1>1, <1>6, <1>7
  <1>9. Registers' /\ Verifying'
    BY <1>1, <1>3 DEF Registers, Verifying
  <1>10. ScalarsFor(call', u1', u2') /\ OperandFor(call', gp')
    BY <1>1, <1>3, <1>5
  <1>11. InJoint'
    BY <1>1, <1>5, <1>8, <1>9, <1>10 DEF InJoint
  <1> QED BY <1>9, <1>11 DEF EcdsaInv

\* A bit, the next limb, and after the last bit the inversion of the denominator of the
\* accumulator.
LEMMA JointSteps ==
    ASSUME EcdsaInv, Joint \/ NextLimb \/ JointDone
    PROVE  EcdsaInv'
  <1>1. Registers /\ UNCHANGED <<call, u1, u2, gp, result>> /\ pc = "joint"
    BY DEF EcdsaInv, Joint, NextLimb, JointDone
  <1>2. InJoint
    BY <1>1 DEF EcdsaInv, InHelper, InStart, InS, InGp, InJoint, InR, InDone, Looping
  <1>3. /\ Verifying /\ call.fn = "compute" /\ call \in Calls
        /\ ScalarsFor(call, u1, u2) /\ u1 \in Limbs(LIMBS) /\ u2 \in Limbs(LIMBS)
        /\ <<gp[1], gp[2]>> \in Pairs /\ gp[3] \in Flags /\ OperandFor(call, gp)
        /\ AccFor(call, acc, gp[3], u1, u2, WeightOf(mask, limb))
        /\ acc \in Points /\ limb \in 1 .. LIMBS /\ GoodMask(mask)
    BY <1>1, <1>2 DEF InJoint, Verifying, Registers
  <1>4. Verifying' /\ ScalarsFor(call', u1', u2') /\ OperandFor(call', gp')
    BY <1>1, <1>3 DEF Verifying
  <1>5. CASE Joint
    <2>1. /\ pc' = pc /\ inv' = inv /\ limb' = limb /\ mask # 0 /\ mask' = mask \div 2
          /\ acc' = JointBit(c, acc, g, <<pk_x, pk_y>>, <<gp[1], gp[2]>>, gp[3],
                             MaskedBit(u1[limb], mask), MaskedBit(u2[limb], mask))
      BY <1>5 DEF Joint
    <2>2. acc' \in Points /\ AccFor(call, acc', gp[3], u1, u2, WeightOf(mask \div 2, limb))
      BY <1>3, <2>1, AccSteps
    <2>3. GoodMask(mask')
      BY <1>3, <2>1, MaskHalves
    <2>4. Registers'
      BY <1>1, <2>1, <2>2, <2>3 DEF Registers
    <2>5. AccFor(call', acc', gp'[3], u1', u2', WeightOf(mask', limb'))
      BY <1>1, <2>1, <2>2
    <2>6. InJoint'
      BY <1>1, <1>3, <1>4, <2>1, <2>5 DEF InJoint
    <2> QED BY <2>4, <2>6 DEF EcdsaInv
  <1>6. CASE NextLimb
    <2>1. /\ pc' = pc /\ inv' = inv /\ acc' = acc /\ mask = 0 /\ limb > 1
          /\ limb' = limb - 1 /\ mask' = LimbBase \div 2
      BY <1>6 DEF NextLimb
    <2>2. limb \in 2 .. LIMBS /\ limb' \in 1 .. LIMBS
      <3>1. LIMBS \in Nat
        BY BaseIsPositive
      <3> QED BY <1>3, <2>1, <3>1
    <2>3. WeightOf(mask', limb') = WeightOf(mask, limb) /\ GoodMask(mask')
      BY <2>1, <2>2, WeightSteps, MaskStarts
    <2>4. Registers'
      BY <1>1, <2>1, <2>2, <2>3 DEF Registers
    <2>5. AccFor(call', acc', gp'[3], u1', u2', WeightOf(mask', limb'))
      BY <1>1, <1>3, <2>1, <2>3
    <2>6. InJoint'
      BY <1>1, <1>3, <1>4, <2>1, <2>5 DEF InJoint
    <2> QED BY <2>4, <2>6 DEF EcdsaInv
  <1>7. CASE JointDone
    <2>1. /\ pc' = "inverse" /\ UNCHANGED <<acc, limb, mask>> /\ mask = 0 /\ limb = 1
          /\ inv' = Inverting(SafeZ(acc), "p", "r")
      BY <1>7 DEF JointDone
    <2>2. /\ inv' \in Inversions /\ inv'.bit >= -1 /\ inv'.base = SafeZ(acc) /\ inv'.modulus = "p"
          /\ inv'.caller = "r"
          /\ LoopState(ModulusOf(call, inv'.modulus), inv'.base, inv'.value, inv'.bit)
      <3> DEFINE m == "p"  caller == "r"  base == SafeZ(acc)
      <3>1. m \in {"p", "n"} /\ caller \in Callers /\ base \in Limbs(LIMBS)
            /\ inv' = Inverting(base, m, caller)
        BY <1>3, <2>1, SafeZOf DEF Callers
      <3>2. m = "p" /\ caller = "r"
        OBVIOUS
      <3> HIDE DEF m, caller, base
      <3>3. /\ Inverting(base, m, caller) \in Inversions /\ Inverting(base, m, caller).bit >= -1
            /\ Inverting(base, m, caller).base = base /\ Inverting(base, m, caller).modulus = m
            /\ Inverting(base, m, caller).caller = caller
            /\ LoopState(ModulusOf(call, Inverting(base, m, caller).modulus), Inverting(base, m, caller).base,
                         Inverting(base, m, caller).value, Inverting(base, m, caller).bit)
        BY <1>3, <3>1, InversionStarts
      <3> QED BY <3>1, <3>2, <3>3 DEF base
    <2>3. Registers'
      BY <1>1, <2>1, <2>2 DEF Registers
    <2>4. Looping'
      BY <1>1, <2>1, <2>2 DEF Looping
    <2>5. AccFor(call', acc', gp'[3], u1', u2', 1)
      BY <1>1, <1>3, <2>1, WeightSteps
    <2>6. inv'.base = SafeZ(acc')
      BY <2>1, <2>2
    <2>7. InR'
      BY <1>4, <2>2, <2>4, <2>5, <2>6 DEF InR
    <2> QED BY <2>3, <2>7 DEF EcdsaInv
  <1> QED BY <1>5, <1>6, <1>7

\* With that inverted there is the verdict.
LEMMA VerdictSteps ==
    ASSUME EcdsaInv, RInverted
    PROVE  EcdsaInv'
  <1> DEFINE rx == ToAffine(c, acc, inv.value)[1]
             last == <<NotBit(EqBool(acc[3], Zero)), LtBool(rx, Const(c.n)), EqBool(rx, sig_r)>>
             valid == result \o last
  <1>1. /\ Registers /\ UNCHANGED <<call, inv, u1, u2, gp, acc, limb, mask>>
        /\ pc = "inverse" /\ inv.bit = -1 /\ inv.caller = "r" /\ pc' = "done"
        /\ result' = IF \E k \in 1 .. Len(valid) : valid[k] = 0 THEN 0 ELSE 1
    BY DEF EcdsaInv, RInverted, Inverted
  <1>2. InR
    BY <1>1 DEF EcdsaInv, InHelper, InStart, InS, InGp, InJoint, InR, InDone
  <1>3. /\ Looping /\ inv.modulus = "p" /\ inv.base = SafeZ(acc) /\ Verifying
        /\ call.fn = "compute" /\ call.predicate = 1 /\ call \in Calls /\ acc \in Points
        /\ ScalarsFor(call, u1, u2) /\ AccFor(call, acc, gp[3], u1, u2, 1) /\ result = FlagsOf(call)
    BY <1>1, <1>2 DEF InR, Verifying, Registers
  <1>4. inv.value \in Limbs(LIMBS) /\ LoopAt("p", SafeZ(acc), inv.value, -1)
    BY <1>1, <1>3, InversionEnds
  <1>5. (\E k \in 1 .. Len(FlagsOf(call) \o last) : (FlagsOf(call) \o last)[k] = 0) <=> ~AcceptedOf(call)
    BY <1>3, <1>4, Verdict
  <1>6. valid = FlagsOf(call) \o last
    BY <1>3
  <1> HIDE DEF valid, last
  <1>7. result' = IF AcceptedOf(call) THEN 1 ELSE 0
    BY <1>1, <1>5, <1>6
  <1>8. Registers'
    BY <1>1 DEF Registers
  <1>9. call'.fn = "compute" /\ call'.predicate = 1 /\ (AcceptedOf(call') <=> AcceptedOf(call))
    BY <1>1, <1>3
  <1>10. InDone'
    BY <1>1, <1>7, <1>9 DEF InDone
  <1> QED BY <1>8, <1>10 DEF EcdsaInv

\* No step leaves the invariant.
LEMMA EcdsaSteps == EcdsaInv /\ [Next]_vars => EcdsaInv'
  <1> SUFFICES ASSUME EcdsaInv, [Next]_vars PROVE EcdsaInv'
    OBVIOUS
  <1>1. CASE UNCHANGED vars
    BY <1>1 DEF vars, EcdsaInv, Registers, InHelper, InStart, InS, InGp, InJoint, InR, InDone,
                Fresh, Looping, Verifying
  <1>2. CASE Done
    <2>1. UNCHANGED vars
      BY <1>2 DEF Done
    <2> QED BY <1>1, <2>1
  <1> QED BY <1>1, <1>2, HelperSteps, StartSteps, IterationSteps, ScalarSteps, OperandSteps, JointSteps,
             VerdictSteps DEF Next

\* The inductive invariant of a call.
LEMMA EcdsaInvariant == Spec => []EcdsaInv
  <1> QED BY EcdsaInitially, EcdsaSteps, PTL DEF Spec

\* The registers hold limb vectors and bits (the arithmetic of blackboxes/ecdsa), for every
\* curve and call that the assumptions describe.
THEOREM EcdsaTypeCorrect == Spec => []TypeOK
  <1>1. EcdsaInv => TypeOK
    <2> SUFFICES ASSUME EcdsaInv PROVE TypeOK
      OBVIOUS
    <2>1. Registers
      BY DEF EcdsaInv
    <2>2. pc \in {"mul_mod", "compute", "inverse", "joint", "done"} /\ (pc = "joint" => InJoint)
      BY DEF EcdsaInv, InHelper, InStart, InS, InGp, InJoint, InR, InDone, Looping
    <2>3. inv.value \in Limbs(LIMBS) /\ inv.base \in Limbs(LIMBS) /\ inv.bit >= -1
      BY <2>1 DEF Registers, Inversions
    <2>4. \A k \in 1 .. 3 : acc[k] \in Limbs(LIMBS)
      BY <2>1 DEF Registers, Points, Vectors
    <2>5. mask \in 0 .. LimbBase \div 2
      BY <2>1, MaskHalves DEF Registers
    <2>6. pc = "joint" => gp[3] \in {0, 1}
      BY <2>2 DEF InJoint, Flags
    <2> QED BY <2>1, <2>2, <2>3, <2>4, <2>5, <2>6 DEF TypeOK, Registers
  <1> QED BY <1>1, EcdsaInvariant, PTL

\* Every inversion ends with the inverse of its base, and with zero for zero
\* (append_inv_mod_n_barrett, append_inv_mod_p).
THEOREM InversionCorrect == Spec => []InverseExact
  <1>1. EcdsaInv => InverseExact
    <2> SUFFICES ASSUME EcdsaInv, pc = "inverse", inv.bit = -1
                 PROVE  LET m == Modulus(inv.modulus)  a == Value(inv.base) % m
                        IN  (Value(inv.value) * a) % m = IF a = 0 THEN 0 ELSE 1
      BY DEF InverseExact
    <2>1. Registers /\ Looping
      BY DEF EcdsaInv, InHelper, InStart, InS, InGp, InJoint, InR, InDone
    <2>2. /\ inv.value \in Limbs(LIMBS) /\ inv.base \in Limbs(LIMBS) /\ inv.modulus \in {"p", "n"}
          /\ LoopAt(inv.modulus, inv.base, inv.value, -1)
      BY <2>1, InversionEnds
    <2>3. call \in Calls
      BY <2>1 DEF Registers
    <2> QED BY <2>2, <2>3, LoopEnds
  <1> QED BY <1>1, EcdsaInvariant, PTL

\* What the invariant says of a Jacobian point, in the words of the specification.
LEMMA StandsRepresents ==
    ASSUME c \in Curves, NEW J, NEW pt, Stands(c, J, pt)
    PROVE  Represents(J, pt)
  <1> DEFINE p == c.p  X == Value(J[1])  Y == Value(J[2])  Z == Value(J[3])
  <1>1. PICK x, y, d :
          /\ Denotes(p, J[1], x) /\ Denotes(p, J[2], y) /\ Denotes(p, J[3], d)
          /\ IF pt = <<>> THEN Agree(p, d, 0)
             ELSE /\ AffinePoint(c, pt) /\ ~Agree(p, d, 0)
                  /\ Agree(p, x, pt[1] * (d * d)) /\ Agree(p, y, pt[2] * (d * (d * d)))
    BY DEF Stands
  <1>2. p \in Nat \ {0}
    BY CurveModuli
  <1>3. /\ X \in 0 .. p - 1 /\ Agree(p, X, x) /\ Y \in 0 .. p - 1 /\ Agree(p, Y, y)
        /\ Z \in 0 .. p - 1 /\ Agree(p, Z, d)
    BY <1>1 DEF Denotes
  <1>4. Z = 0 <=> pt = <<>>
    BY StandsForInfinity
  <1>5. ASSUME pt # <<>>
        PROVE  (pt[1] * ((Z * Z) % p)) % p = X /\ (pt[2] * ((Z * Z * Z) % p)) % p = Y
    <2> DEFINE a == pt[1]  b == pt[2]
    <2>1. a \in Int /\ b \in Int /\ Agree(p, x, a * (d * d)) /\ Agree(p, y, b * (d * (d * d)))
      BY <1>1, <1>5, AffineCoordinates
    <2>2. X \in Int /\ Y \in Int /\ Z \in Int /\ x \in Int /\ y \in Int /\ d \in Int
      BY <1>3 DEF Agree
    <2> HIDE DEF a, b, X, Y, Z, p
    <2> DEFINE e == Z * Z  f == Z * Z * Z
    <2>3. e \in Int /\ f \in Int /\ f = Z * (Z * Z)
      <3>1. e \in Int
        BY <2>2
      <3>2. e * Z \in Int
        BY <2>2, <3>1
      <3> QED BY <2>2, <3>1, <3>2
    <2>4. Agree(p, e, d * d)
      BY <1>2, <1>3, AgreeOperations
    <2>5. Agree(p, f, d * (d * d))
      <3>1. Agree(p, Z * (Z * Z), d * (d * d))
        BY <1>2, <1>3, <2>4, AgreeOperations
      <3> QED BY <2>3, <3>1
    <2> HIDE DEF e, f
    <2>6. ASSUME NEW i \in Int, NEW k, NEW l, NEW v, NEW V, Agree(p, k, l), Agree(p, v, i * l), Agree(p, V, v),
                 V \in 0 .. p - 1, k \in Int
          PROVE  (i * (k % p)) % p = V
      <3> DEFINE h == k % p
      <3>1. Agree(p, h, k) /\ h \in Int
        <4>1. h \in 0 .. p - 1 /\ Agree(p, h, k)
          BY <1>2, <2>6, AgreeRemainder
        <4> QED BY <1>2, <4>1
      <3> HIDE DEF h
      <3>2. Agree(p, h, l) /\ Agree(p, i, i)
        BY <1>2, <2>6, <3>1, AgreeEquivalence
      <3>3. Agree(p, i * h, i * l)
        BY <1>2, <3>2, AgreeOperations
      <3>4. Agree(p, i * l, v) /\ Agree(p, v, V)
        BY <1>2, <2>6, AgreeEquivalence
      <3>5. Agree(p, i * h, V)
        BY <1>2, <3>3, <3>4, AgreeEquivalence
      <3>6. (i * h) % p = V % p /\ V % p = V
        BY <1>2, <2>6, <3>5, AgreeRemainder
      <3> QED BY <3>6 DEF h
    <2>7. (a * (e % p)) % p = X
      BY <1>3, <2>1, <2>3, <2>4, <2>6
    <2>8. (b * (f % p)) % p = Y
      BY <1>3, <2>1, <2>3, <2>5, <2>6
    <2> QED BY <2>7, <2>8 DEF a, b, e, f
  <1> QED BY <1>4, <1>5 DEF Represents

\* After every bit the accumulator is the joint multiple of the prefixes of the two scalars
\* (append_joint_scalar_mul): the loop adds G, P or G + P to the doubled accumulator, and
\* the point at infinity and the key -G are no exception.
THEOREM JointPrefixCorrect == Spec => []JointPrefix
  <1>1. EcdsaInv => JointPrefix
    <2> SUFFICES ASSUME EcdsaInv, pc = "joint", OnCurve
                 PROVE  Represents(acc, Prefix) \/ (StandIn /\ Prefix = <<>>)
      BY DEF JointPrefix
    <2>1. Registers /\ InJoint
      BY DEF EcdsaInv, InHelper, InStart, InS, InGp, InJoint, InR, InDone, Looping
    <2>2. AccFor(call, acc, gp[3], u1, u2, WeightOf(mask, limb)) /\ OnCurveOf(call) /\ c \in Curves
          /\ c = call.curve
      BY <2>1, OfTheCall DEF InJoint, Registers, c, Curves
    <2>3. Prefix = Mul(c, (Value(u1) \div WeightOf(mask, limb))
                             + (Value(u2) \div WeightOf(mask, limb)) * KeyOf(call))
      BY OfTheCall DEF Prefix, Weight, WeightOf, Multiple, Mul
    <2>4. Stands(c, acc, Prefix) \/ (gp[3] = 1 /\ acc = <<Zero, Zero, One>> /\ Prefix = <<>>)
      BY <2>2, <2>3 DEF AccFor
    <2> QED BY <2>2, <2>4, StandsRepresents DEF StandIn
  <1> QED BY <1>1, EcdsaInvariant, PTL

\* ecdsa_<curve>_compute answers what ACVM answers, for every key, message and signature.
THEOREM VerificationCorrect == Spec => []VerifyAgrees
  <1>1. EcdsaInv => VerifyAgrees
    <2> SUFFICES ASSUME EcdsaInv, call.fn = "compute", pc = "done"
                 PROVE  result = IF call.predicate # 1 \/ Accepted THEN 1 ELSE 0
      BY DEF VerifyAgrees
    <2>1. InDone
      BY DEF EcdsaInv, InHelper, InStart, InS, InGp, InJoint, InR, InDone, Looping
    <2> QED BY <2>1, OfTheCall DEF InDone
  <1> QED BY <1>1, EcdsaInvariant, PTL
=============================================================================

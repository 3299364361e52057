-------------------------- MODULE ArithmeticProofs -------------------------
(***************************************************************************)
(* The integer arithmetic that the translation emits as field operations.  *)
(*                                                                         *)
(* The integer operations emitted for Brillig bytecode are those of the VM, *)
(* for every field with room for the products of the widest integers and    *)
(* every width: no sum, shifted difference or product reaches the modulus   *)
(* before the mask applies.                                                 *)
(*                                                                         *)
(* The reduction of append_mul_mod_n_barrett settles, for every width and   *)
(* modulus.  The comment in modular.rs says that the estimate of the        *)
(* quotient is off by at most two; that needs SmallResidue, and products    *)
(* whose quotient fits the limbs.                                           *)
(*                                                                         *)
(* The multiplication helpers of ECDSA are exact, for every number of limbs, *)
(* base and modulus: a carry pass keeps the value of its columns (by         *)
(* induction over the limbs), the rows of a product add up to the product,   *)
(* and the passes of either reduction compute what the reduction does with   *)
(* integers.                                                                 *)
(***************************************************************************)
EXTENDS BrilligOps, Ecdsa, FieldProofs

\* The moduli 2^n of IntegerBitSize, as far as the operations depend on them: half the
\* widest width or less, or the widest.
Widths == (1 .. Half) \cup {Wide}

---------------------------------------------------------------------------
\* Products of naturals are ordered as their factors are.
LEMMA MulLe ==
    ASSUME NEW a \in Nat, NEW b \in Nat, NEW x \in Nat, NEW y \in Nat, a <= x, b <= y
    PROVE  a * b \in Nat /\ a * b <= x * y
  <1>1. a * b \in Nat /\ x * y \in Nat /\ x * b \in Nat
    OBVIOUS
  <1>2. x * b = a * b + (x - a) * b /\ (x - a) * b \in Nat
    OBVIOUS
  <1>3. x * y = x * b + x * (y - b) /\ x * (y - b) \in Nat
    OBVIOUS
  <1> QED BY <1>1, <1>2, <1>3

\* Euclidean division.
LEMMA DivMod ==
    ASSUME NEW x \in Int, NEW d \in Nat \ {0}
    PROVE  /\ x \div d \in Int /\ x % d \in 0 .. d - 1
           /\ x = d * (x \div d) + (x % d)
  OBVIOUS

\* It has one remainder.
LEMMA OneRemainder ==
    ASSUME NEW d \in Nat \ {0}, NEW q \in Int, NEW p \in Int, NEW r \in 0 .. d - 1,
           NEW s \in 0 .. d - 1, d * q + r = d * p + s
    PROVE  r = s
  <1>1. d * (q - p) = s - r
    OBVIOUS
  <1>2. CASE q - p >= 1
    <2>1. d * (q - p) = d + d * (q - p - 1) /\ d * (q - p - 1) \in Nat
      BY <1>2
    <2> QED BY <1>1, <2>1
  <1>3. CASE q - p <= -1
    <2>1. d * (q - p) = (-d) - d * (p - q - 1) /\ d * (p - q - 1) \in Nat
      BY <1>3
    <2> QED BY <1>1, <2>1
  <1>4. CASE q = p
    BY <1>1, <1>4
  <1> QED BY <1>2, <1>3, <1>4

\* Multiples of the modulus do not change the remainder.
LEMMA ModShift ==
    ASSUME NEW x \in Int, NEW k \in Int, NEW d \in Nat \ {0}
    PROVE  (x + d * k) % d = x % d
  <1> DEFINE y == x + d * k
  <1>1. y \in Int /\ x = d * (x \div d) + (x % d) /\ x % d \in 0 .. d - 1 /\ x \div d \in Int
    BY DivMod
  <1>2. y = d * (y \div d) + (y % d) /\ y % d \in 0 .. d - 1 /\ y \div d \in Int
    BY <1>1, DivMod
  <1>3. y = d * ((x \div d) + k) + (x % d)
    BY <1>1
  <1> HIDE DEF y
  <1>4. y % d = x % d
    BY <1>1, <1>2, <1>3, OneRemainder
  <1> QED BY <1>4 DEF y

\* In particular the modulus itself.
LEMMA ModPreshift ==
    ASSUME NEW x \in Int, NEW d \in Nat \ {0}
    PROVE  (x + d) % d = x % d
  <1>1. \A k \in Int : (x + d * k) % d = x % d
    BY ModShift
  <1>2. PICK k \in Int : k = 1
    OBVIOUS
  <1>3. d * k = d
    BY <1>2
  <1>4. (x + d * k) % d = x % d
    BY <1>1
  <1> QED BY <1>3, <1>4

\* Felts below the modulus are themselves.
LEMMA Small ==
    ASSUME NEW x \in 0 .. P - 1
    PROVE  x % P = x
  BY PrimeAssumption

\* The field has room for what the operations add up.
LEMMA Room ==
    /\ Half \in Nat \ {0, 1} /\ Wide \in Nat \ {0} /\ P \in Nat
    /\ Half <= Wide
    /\ 2 * Wide <= P /\ 2 * (Half * Wide) + Wide <= P
    /\ \A width \in Widths : width \in Nat \ {0} /\ width <= Wide
  <1>1. Half \in Nat \ {0, 1} /\ P \in Nat /\ Wide \in Nat \ {0}
    BY HalfAssumption, PrimeAssumption DEF Wide
  <1>2. Half <= Wide
    BY <1>1, MulLe DEF Wide
  <1>3. 2 * (Half * Wide) + Wide <= P
    <2>1. 2 * Half * Half * Half = 2 * (Half * (Half * Half))
      BY <1>1
    <2> QED BY <2>1, HalfAssumption DEF Wide
  <1>4. Half * Wide \in Nat /\ Wide <= Half * Wide
    BY <1>1, MulLe
  <1> QED BY <1>1, <1>2, <1>3, <1>4 DEF Widths

---------------------------------------------------------------------------
\* emit_binary_int_op adds like the VM: the sum is below twice the width, which the field
\* holds, when the mask applies.
THEOREM AddExact ==
    ASSUME NEW width \in Widths, NEW x \in 0 .. width - 1, NEW y \in 0 .. width - 1
    PROVE  emit_add(width, x, y) = VmIntOp("Add", width, x, y)
  <1>1. x + y \in 0 .. P - 1
    BY Room
  <1>2. Plus(x, y) = x + y
    BY <1>1, Small DEF Plus
  <1> QED BY <1>2 DEF emit_add, Mask, VmIntOp

\* It subtracts like the VM: the preshift by 2^n keeps the difference from wrapping around
\* the field, and the mask takes it off again.
THEOREM SubExact ==
    ASSUME NEW width \in Widths, NEW x \in 0 .. width - 1, NEW y \in 0 .. width - 1
    PROVE  emit_sub(width, x, y) = VmIntOp("Sub", width, x, y)
  <1>1. width \in Nat \ {0} /\ x + width \in 0 .. P - 1 /\ x + width - y \in 0 .. P - 1
    BY Room
  <1>2. Plus(x, width) = x + width
    BY <1>1, Small DEF Plus
  <1>3. Minus(Plus(x, width), y) = (x - y) + width
    BY <1>1, <1>2, Small DEF Minus
  <1>4. x - y \in Int
    BY <1>1
  <1>5. ((x - y) + width) % width = (x - y) % width
    BY <1>1, <1>4, ModPreshift
  <1> QED BY <1>3, <1>5 DEF emit_sub, Mask, VmIntOp

\* Widths of up to 64 bits multiply like the VM: the field holds the product.
LEMMA NarrowMulExact ==
    ASSUME NEW width \in Widths \ {Wide}, NEW x \in 0 .. width - 1, NEW y \in 0 .. width - 1
    PROVE  emit_mul(width, x, y) = VmIntOp("Mul", width, x, y)
  <1>1. Half \in Nat \ {0, 1} /\ width \in Nat \ {0} /\ width <= Half /\ width # Wide
    BY Room DEF Widths
  <1>2. x * y \in Nat /\ x * y <= Half * Half
    BY <1>1, MulLe
  <1>3. x * y \in 0 .. P - 1
    BY <1>2, Room DEF Wide
  <1>4. Times(x, y) = x * y
    BY <1>3, Small DEF Times
  <1> QED BY <1>1, <1>4 DEF emit_mul, Mask, VmIntOp

\* The product of two numbers of two digits, without that of the high digits.
LEMMA Digits ==
    ASSUME NEW h \in Nat, NEW xh \in Nat, NEW xl \in Nat, NEW yh \in Nat, NEW yl \in Nat
    PROVE  (h * xh + xl) * (h * yh + yl)
             = (xl * yl + (xh * yl + xl * yh) * h) + (h * h) * (xh * yh)
  <1>1. (h * xh + xl) * (h * yh + yl)
          = (h * xh) * (h * yh) + (h * xh) * yl + xl * (h * yh) + xl * yl
    OBVIOUS
  <1>2. (h * xh) * (h * yh) = (h * h) * (xh * yh)
    OBVIOUS
  <1>3. (h * xh) * yl + xl * (h * yh) = (xh * yl + xl * yh) * h
    OBVIOUS
  <1> QED BY <1>1, <1>2, <1>3

\* Nothing that emit_u128_mul computes from the halves reaches the modulus.
LEMMA HalvesFit ==
    ASSUME NEW xh \in 0 .. Half - 1, NEW xl \in 0 .. Half - 1,
           NEW yh \in 0 .. Half - 1, NEW yl \in 0 .. Half - 1
    PROVE  LET cross == xh * yl + xl * yh
           IN  /\ xl * yl \in 0 .. P - 1 /\ xh * yl \in 0 .. P - 1 /\ xl * yh \in 0 .. P - 1
               /\ cross \in 0 .. P - 1 /\ cross * Half \in 0 .. P - 1
               /\ xl * yl + cross * Half \in 0 .. P - 1
  <1> DEFINE top == (Half - 1) * (Half - 1)
             cross == xh * yl + xl * yh
  <1>1. Half \in Nat \ {0, 1}
    BY Room
  <1>2. xl * yl \in 0 .. top /\ xh * yl \in 0 .. top /\ xl * yh \in 0 .. top
    BY <1>1, MulLe
  <1>3. top \in Nat /\ top + Half < Wide
    BY <1>1 DEF Wide
  <1>4. cross \in Nat /\ cross <= 2 * Wide
    BY <1>2, <1>3, Room
  <1>5. cross * Half \in Nat /\ cross * Half <= 2 * (Half * Wide)
    <2>1. cross * Half <= (2 * Wide) * Half /\ cross * Half \in Nat
      BY <1>1, <1>4, Room, MulLe
    <2>2. (2 * Wide) * Half = 2 * (Half * Wide)
      BY <1>1, Room
    <2> QED BY <2>1, <2>2
  <1> HIDE DEF top
  <1>6. xl * yl < Wide /\ xh * yl < Wide /\ xl * yh < Wide /\ xl * yl + cross * Half < P
    BY <1>1, <1>2, <1>3, <1>5, Room
  <1> QED BY <1>1, <1>2, <1>3, <1>4, <1>5, <1>6, Room

\* The widest integers multiply like the VM: the product of the high halves, which
\* emit_u128_mul leaves out, is a multiple of 2^128.
THEOREM WideMulExact ==
    ASSUME NEW x \in 0 .. Wide - 1, NEW y \in 0 .. Wide - 1
    PROVE  emit_u128_mul(x, y) = (x * y) % Wide
  <1> DEFINE xh == x \div Half
             xl == x % Half
             yh == y \div Half
             yl == y % Half
             cross == xh * yl + xl * yh
             sum == xl * yl + cross * Half
  <1>1. Half \in Nat \ {0, 1} /\ Wide \in Nat \ {0} /\ Wide = Half * Half
    BY Room DEF Wide
  <1>2. /\ xl \in 0 .. Half - 1 /\ xh \in Int /\ x = Half * xh + xl
        /\ yl \in 0 .. Half - 1 /\ yh \in Int /\ y = Half * yh + yl
    <2>1. x \in Int /\ y \in Int
      BY <1>1
    <2>2. x \div Half \in Int /\ x % Half \in 0 .. Half - 1 /\ x = Half * (x \div Half) + (x % Half)
      BY <1>1, <2>1, DivMod
    <2>3. y \div Half \in Int /\ y % Half \in 0 .. Half - 1 /\ y = Half * (y \div Half) + (y % Half)
      BY <1>1, <2>1, DivMod
    <2> QED BY <2>2, <2>3
  <1>3. xh \in 0 .. Half - 1 /\ yh \in 0 .. Half - 1
    BY <1>1
  <1>4. /\ xl * yl \in 0 .. P - 1 /\ xh * yl \in 0 .. P - 1 /\ xl * yh \in 0 .. P - 1
        /\ cross \in 0 .. P - 1 /\ cross * Half \in 0 .. P - 1 /\ sum \in 0 .. P - 1
    BY <1>2, <1>3, HalvesFit
  <1>5. emit_u128_mul(x, y) = Mask(Plus(Times(xl, yl), Times(Plus(Times(xh, yl), Times(xl, yh)), Half)), Wide)
    BY DEF emit_u128_mul
  <1> HIDE DEF xh, xl, yh, yl
  <1>6. emit_u128_mul(x, y) = sum % Wide
    BY <1>4, <1>5, Small DEF Mask, Plus, Times
  <1>7. x * y = sum + Wide * (xh * yh)
    BY <1>1, <1>2, <1>3, Digits
  <1>8. (sum + Wide * (xh * yh)) % Wide = sum % Wide
    <2>1. sum \in Int /\ xh * yh \in Int
      BY <1>1, <1>3, <1>4
    <2> HIDE DEF sum
    <2> QED BY <1>1, <2>1, ModShift
  <1> QED BY <1>6, <1>7, <1>8

\* On operands within their width, every sum, difference and product that is emitted for an
\* integer operation is the VM's.
THEOREM IntOpsExact ==
    ASSUME NEW fn \in {"Add", "Sub", "Mul"}, NEW width \in Widths,
           NEW x \in 0 .. width - 1, NEW y \in 0 .. width - 1
    PROVE  emit_binary_int_op(fn, width, x, y) = VmIntOp(fn, width, x, y)
  <1>1. CASE fn = "Add"
    BY <1>1, AddExact DEF emit_binary_int_op
  <1>2. CASE fn = "Sub"
    BY <1>2, SubExact DEF emit_binary_int_op
  <1>3. CASE fn = "Mul"
    <2>1. emit_mul(width, x, y) = VmIntOp("Mul", width, x, y)
      <3>1. CASE width = Wide
        BY <3>1, WideMulExact DEF emit_mul, VmIntOp
      <3>2. CASE width # Wide
        BY <3>2, NarrowMulExact
      <3> QED BY <3>1, <3>2
    <2> QED BY <1>3, <2>1 DEF emit_binary_int_op
  <1> QED BY <1>1, <1>2, <1>3

---------------------------------------------------------------------------
\* Powers
\* A power is a product of as many factors.
LEMMA PowerUnfolds ==
    ASSUME NEW b \in Nat \ {0}, NEW n \in Nat
    PROVE  \E p \in [0 .. n -> Nat \ {0}] :
              Power(b, n) = p[n] /\ p[0] = 1 /\ \A k \in 1 .. n : p[k] = b * p[k - 1]
  <1> DEFINE N1 == Nat \ {0}
             step == [k \in 1 .. n |-> [a \in N1 |-> b * a]]
             Powers(p) == p = [k \in 0 .. n |-> IF k = 0 THEN 1 ELSE b * p[k - 1]]
             power == CHOOSE p : Powers(p)
  <1>0. \A a \in N1 : b * a \in N1
    OBVIOUS
  <1>1. step \in [1 .. n -> [N1 -> N1]]
    BY <1>0
  <1>2. 1 \in N1
    OBVIOUS
  <1>3. PICK f \in [0 .. n -> N1] : Follows(f, n, 1, step)
    <2> HIDE DEF step, N1
    <2> QED BY <1>1, <1>2, UpToRecursion
  <1>4. f[0] = 1 /\ \A k \in 1 .. n : f[k] = b * f[k - 1]
    <2>1. \A k \in 1 .. n : k - 1 \in 0 .. n
      OBVIOUS
    <2>2. \A k \in 1 .. n, a \in N1 : step[k][a] = b * a
      OBVIOUS
    <2> HIDE DEF step, N1
    <2>3. \A k \in 1 .. n : f[k] = step[k][f[k - 1]] /\ f[k - 1] \in N1
      BY <1>3, <2>1 DEF Follows
    <2> QED BY <1>3, <2>2, <2>3 DEF Follows
  <1> HIDE DEF step
  <1>5. f = [k \in 0 .. n |-> IF k = 0 THEN 1 ELSE b * f[k - 1]]
    <2>1. \A k \in 0 .. n : f[k] = IF k = 0 THEN 1 ELSE b * f[k - 1]
      BY <1>4
    <2> QED BY <2>1
  <1>6. Powers(power)
    <2>1. Powers(f)
      BY <1>5
    <2> HIDE DEF Powers
    <2> QED BY <2>1
  <1>7. Power(b, n) = power[n]
    BY DEF Power
  <1> HIDE DEF power
  <1>8. power[0] = 1 /\ \A k \in 1 .. n : power[k] = b * power[k - 1]
    BY <1>6
  <1> DEFINE S == {k \in 0 .. n : power[k] \in N1}
  <1>9. ASSUME NEW k \in 0 .. n - 1, k \in S PROVE k + 1 \in S
    <2>1. k + 1 \in 1 .. n /\ (k + 1) - 1 = k /\ k + 1 \in 0 .. n
      OBVIOUS
    <2> HIDE DEF N1
    <2> QED BY <1>0, <1>8, <1>9, <2>1
  <1>10. 0 \in S
    BY <1>8
  <1>11. \A k \in 0 .. n : k \in S
    <2> HIDE DEF S
    <2> QED BY <1>9, <1>10, UpToInduction
  <1>12. power \in [0 .. n -> N1]
    BY <1>6, <1>11
  <1> HIDE DEF Powers
  <1> QED BY <1>7, <1>8, <1>12

\* Powers are positive.
LEMMA PowerIsPositive ==
    ASSUME NEW b \in Nat \ {0}, NEW n \in Nat
    PROVE  Power(b, n) \in Nat \ {0}
  <1>1. PICK p \in [0 .. n -> Nat \ {0}] : Power(b, n) = p[n]
    BY PowerUnfolds
  <1>2. n \in 0 .. n
    OBVIOUS
  <1> QED BY <1>1, <1>2

\* The first power is one, and the next one has one more factor.
LEMMA PowerStep ==
    ASSUME NEW b \in Nat \ {0}, NEW n \in Nat
    PROVE  Power(b, 0) = 1 /\ Power(b, n + 1) = b * Power(b, n)
  <1>1. Power(b, 0) = 1
    <2>1. 0 \in Nat
      OBVIOUS
    <2> QED BY <2>1, PowerUnfolds
  <1>2. PICK p \in [0 .. n + 1 -> Nat \ {0}] :
          /\ Power(b, n + 1) = p[n + 1] /\ p[0] = 1
          /\ \A k \in 1 .. n + 1 : p[k] = b * p[k - 1]
    <2>1. n + 1 \in Nat
      OBVIOUS
    <2> QED BY <2>1, PowerUnfolds
  <1>3. PICK q \in [0 .. n -> Nat \ {0}] :
          Power(b, n) = q[n] /\ q[0] = 1 /\ \A k \in 1 .. n : q[k] = b * q[k - 1]
    BY PowerUnfolds
  <1> DEFINE S == {k \in 0 .. n : p[k] = q[k]}
  <1>4. ASSUME NEW k \in 0 .. n - 1, k \in S PROVE k + 1 \in S
    <2>1. k + 1 \in 1 .. n /\ k + 1 \in 1 .. n + 1 /\ k + 1 \in 0 .. n /\ (k + 1) - 1 = k
      OBVIOUS
    <2>2. p[k + 1] = b * p[k] /\ q[k + 1] = b * q[k]
      BY <1>2, <1>3, <2>1
    <2> QED BY <1>4, <2>1, <2>2
  <1>5. 0 \in S
    BY <1>2, <1>3
  <1>6. \A k \in 0 .. n : k \in S
    <2> HIDE DEF S
    <2> QED BY <1>4, <1>5, UpToInduction
  <1>7. p[n] = q[n]
    BY <1>6
  <1>8. n + 1 \in 1 .. n + 1 /\ (n + 1) - 1 = n
    OBVIOUS
  <1>9. p[n + 1] = b * p[n]
    BY <1>2, <1>8
  <1> QED BY <1>1, <1>2, <1>3, <1>7, <1>9

\* The exponents of factors add up.
LEMMA PowerAdds ==
    ASSUME NEW b \in Nat \ {0}, NEW m \in Nat, NEW n \in Nat
    PROVE  Power(b, m + n) = Power(b, m) * Power(b, n)
  <1> DEFINE S == {k \in 0 .. n : Power(b, m + k) = Power(b, m) * Power(b, k)}
             x == Power(b, m)
  <1>1. 0 \in S
    <2>1. Power(b, 0) = 1 /\ Power(b, m) \in Nat /\ m + 0 = m
      BY PowerStep, PowerIsPositive
    <2> QED BY <2>1
  <1>2. ASSUME NEW k \in 0 .. n - 1, k \in S PROVE k + 1 \in S
    <2> DEFINE y == Power(b, k)
    <2>1. k \in Nat /\ m + k \in Nat /\ m + (k + 1) = (m + k) + 1 /\ k + 1 \in 0 .. n
      OBVIOUS
    <2>2. Power(b, m + (k + 1)) = b * Power(b, m + k) /\ Power(b, k + 1) = b * y
      BY <2>1, PowerStep
    <2>3. Power(b, m + k) = x * y /\ x \in Nat /\ y \in Nat
      BY <1>2, <2>1, PowerIsPositive
    <2> HIDE DEF x, y
    <2>4. b * (x * y) = x * (b * y)
      BY <2>3
    <2> QED BY <2>1, <2>2, <2>3, <2>4 DEF x
  <1>3. \A k \in 0 .. n : k \in S
    <2> HIDE DEF S
    <2> QED BY <1>1, <1>2, UpToInduction
  <1>4. n \in 0 .. n
    OBVIOUS
  <1> QED BY <1>3, <1>4

---------------------------------------------------------------------------
\* The reduction of append_mul_mod_n_barrett.

\* 2^256 is positive.
LEMMA RIsPositive == R \in Nat \ {0}
  <1>1. LimbBase \in Nat \ {0} /\ LIMBS \in Nat
    BY LimbAssumption
  <1> QED BY <1>1, PowerIsPositive DEF R

\* The estimate of floor(p / n) that MulBarrett computes limb by limb.
Estimate(p, n) == p \div R + ((p \div R) * BarrettMuLow(n)) \div R

\* The two conditional subtractions, on values.
SubIfGe(r, n) == IF r >= n THEN r - n ELSE r

\* Euclidean division of a natural number.
LEMMA DivModNat ==
    ASSUME NEW x \in Nat, NEW d \in Nat \ {0}
    PROVE  /\ x \div d \in Nat /\ x % d \in 0 .. d - 1
           /\ x = d * (x \div d) + (x % d)
  OBVIOUS

\* Multiplying an inequality by a natural number keeps it.
LEMMA ScaleLe ==
    ASSUME NEW x \in Int, NEW y \in Int, NEW w \in Nat, x <= y
    PROVE  w * x <= w * y
  OBVIOUS

\* A positive factor can be cancelled from a strict inequality.
LEMMA CancelLt ==
    ASSUME NEW x \in Int, NEW y \in Int, NEW w \in Nat \ {0}, w * x < w * y
    PROVE  x < y
  OBVIOUS

\* A positive factor can be cancelled from an inequality.
LEMMA CancelLe ==
    ASSUME NEW x \in Int, NEW y \in Int, NEW w \in Nat \ {0}, w * x <= w * y
    PROVE  x <= y
  OBVIOUS

\* The remainder left by the estimate, multiplied by R, is a sum of three small terms.
LEMMA Residue ==
    ASSUME NEW rr \in Nat, NEW n \in Nat, NEW mu \in Nat, NEW e \in Nat,
           NEW hi \in Nat, NEW lo \in Nat, NEW q \in Nat, NEW f \in Nat,
           rr * rr = n * mu + e, hi * mu = rr * q + f
    PROVE  rr * ((rr * hi + lo) - q * n) = rr * lo + n * f + hi * e
  <1>1. hi * (rr * rr) = hi * (n * mu) + hi * e
    OBVIOUS
  <1>2. hi * (n * mu) = n * (rr * q + f)
    OBVIOUS
  <1>3. n * (rr * q + f) = rr * (q * n) + n * f
    OBVIOUS
  <1>4. rr * ((rr * hi + lo) - q * n) = hi * (rr * rr) + rr * lo - rr * (q * n)
    OBVIOUS
  <1> QED BY <1>1, <1>2, <1>3, <1>4

\* The three terms together stay below 3 n R when the modulus has a small residue.
LEMMA ResidueBounds ==
    ASSUME NEW rr \in Nat \ {0}, NEW n \in Nat, NEW e \in Nat,
           NEW hi \in 0 .. rr - 1, NEW lo \in 0 .. rr - 1, NEW f \in 0 .. rr - 1,
           NEW r \in Int, rr * r = rr * lo + n * f + hi * e, e + rr <= 2 * n
    PROVE  0 <= r /\ r < 3 * n
  <1>1. rr * lo \in Nat /\ n * f \in Nat /\ hi * e \in Nat
    OBVIOUS
  <1>2. 0 <= r
    <2>1. rr * 0 <= rr * r
      BY <1>1
    <2> QED BY <2>1, CancelLe
  <1>3. rr * lo <= rr * (rr - 1)
    BY ScaleLe
  <1>4. n * f <= n * (rr - 1)
    BY ScaleLe
  <1>5. e * hi <= e * (rr - 1)
    BY ScaleLe
  <1>6. rr * r <= (rr + n + e) * (rr - 1)
    BY <1>1, <1>3, <1>4, <1>5
  <1>7. (rr + n + e) * (rr - 1) < rr * (rr + n + e)
    OBVIOUS
  <1>8. r < rr + n + e
    BY <1>6, <1>7, CancelLt
  <1> QED BY <1>2, <1>8

\* A remainder in range is the remainder.
LEMMA ModUnique ==
    ASSUME NEW x \in Nat, NEW n \in Nat \ {0}, NEW k \in Int, NEW y \in 0 .. n - 1,
           x = k * n + y
    PROVE  x % n = y
  <1> DEFINE q == x \div n
             s == x % n
  <1>1. q \in Nat /\ s \in 0 .. n - 1 /\ x = n * q + s
    BY DivModNat
  <1> HIDE DEF q, s
  <1>2. n * q + s = n * k + y /\ q \in Int
    BY <1>1
  <1>3. s = y
    BY <1>1, <1>2, OneRemainder
  <1> QED BY <1>3 DEF s

\* The two conditional subtractions of MulBarrett reduce what is below 3 n.
LEMMA TwoSubtractions ==
    ASSUME NEW p \in Nat, NEW n \in Nat \ {0}, NEW q \in Int, NEW r \in 0 .. 3 * n - 1,
           p = q * n + r
    PROVE  SubIfGe(SubIfGe(r, n), n) = p % n
  <1>1. CASE r < n
    BY <1>1, ModUnique DEF SubIfGe
  <1>2. CASE n <= r /\ r < 2 * n
    <2>1. p = (q + 1) * n + (r - n)
      OBVIOUS
    <2>2. q + 1 \in Int /\ r - n \in 0 .. n - 1
      BY <1>2
    <2> DEFINE k == q + 1
               y == r - n
    <2> HIDE DEF k, y
    <2>3. p % n = y
      BY <2>1, <2>2, ModUnique DEF k, y
    <2> QED BY <1>2, <2>3 DEF SubIfGe, y
  <1>3. CASE 2 * n <= r
    <2>1. p = (q + 2) * n + (r - 2 * n)
      OBVIOUS
    <2>2. q + 2 \in Int /\ r - 2 * n \in 0 .. n - 1
      BY <1>3
    <2> DEFINE k == q + 2
               y == r - 2 * n
    <2> HIDE DEF k, y
    <2>3. p % n = y
      BY <2>1, <2>2, ModUnique, ZenonT(60) DEF k, y
    <2> QED BY <1>3, <2>3 DEF SubIfGe, y
  <1> QED BY <1>1, <1>2, <1>3

\* The estimate as one division by R, and what it leaves.
LEMMA EstimateResidue ==
    ASSUME NEW n \in Nat \ {0}, n <= R, NEW p \in Nat, p < R * R
    PROVE  \E q \in Nat, lo \in 0 .. R - 1, hi \in 0 .. R - 1, f \in 0 .. R - 1 :
             /\ q = Estimate(p, n)
             /\ R * (p - q * n) = R * lo + n * f + hi * ((R * R) % n)
  <1> DEFINE rr == R
             hi == p \div rr
             lo == p % rr
             mu == (rr * rr) \div n
             e  == (rr * rr) % n
             ml == mu - rr
             qq == (hi * ml) \div rr
             f  == (hi * ml) % rr
  <1>0. rr \in Nat \ {0}
    BY RIsPositive
  <1>1. hi \in Nat /\ lo \in 0 .. rr - 1 /\ p = rr * hi + lo
    BY <1>0, DivModNat
  <1>2. rr * rr \in Nat /\ mu \in Nat /\ e \in 0 .. n - 1 /\ rr * rr = n * mu + e
    <2>1. rr * rr \in Nat
      BY <1>0
    <2> QED BY <2>1, DivModNat
  <1>3. hi < rr
    <2>1. rr * hi < rr * rr
      BY <1>0, <1>1
    <2> HIDE DEF rr, hi
    <2> QED BY <1>0, <1>1, <2>1, CancelLt
  <1>4. ml \in Nat
    <2> HIDE DEF rr, mu, e
    <2>1. n * rr <= rr * rr
      BY <1>0, ScaleLe DEF rr
    <2>2. n * rr < n * (mu + 1)
      BY <1>0, <1>2, <2>1
    <2>3. rr < mu + 1
      BY <1>0, <1>2, <2>2, CancelLt
    <2> QED BY <1>0, <1>2, <2>3
  <1>5. qq \in Nat /\ f \in 0 .. rr - 1 /\ hi * ml = rr * qq + f
    <2>1. hi * ml \in Nat
      <3> HIDE DEF hi, ml
      <3> QED BY <1>1, <1>4
    <2> QED BY <1>0, <2>1, DivModNat
  <1>6. hi * mu = rr * (hi + qq) + f
    <2>1. mu = ml + rr
      <3> HIDE DEF mu, rr
      <3> QED BY <1>0, <1>2
    <2> HIDE DEF rr, hi, lo, mu, e, ml, qq, f
    <2>2. hi * mu = hi * ml + rr * hi
      BY <1>0, <1>1, <1>4, <2>1
    <2> QED BY <1>0, <1>1, <1>5, <2>2
  <1>7. rr * (p - (hi + qq) * n) = rr * lo + n * f + hi * e
    <2> HIDE DEF rr, hi, lo, mu, e, ml, qq, f
    <2> DEFINE q == hi + qq
    <2>1. /\ rr \in Nat /\ mu \in Nat /\ e \in Nat /\ hi \in Nat /\ lo \in Nat
          /\ q \in Nat /\ f \in Nat
      BY <1>0, <1>1, <1>2, <1>5
    <2>3. rr * rr = n * mu + e /\ hi * mu = rr * q + f
      BY <1>2, <1>6
    <2> HIDE DEF q
    <2>2. rr * ((rr * hi + lo) - q * n) = rr * lo + n * f + hi * e
      BY <2>1, <2>3, Residue
    <2> QED BY <1>1, <2>2 DEF q
  <1>8. hi + qq = Estimate(p, n)
    BY DEF Estimate, BarrettMuLow
  <1>9. hi + qq \in Nat /\ hi \in 0 .. rr - 1
    <2> HIDE DEF rr, hi, qq
    <2> QED BY <1>0, <1>1, <1>3, <1>5
  <1> HIDE DEF hi, lo, mu, ml, qq, f
  <1> QED BY <1>1, <1>5, <1>7, <1>8, <1>9

\* Barrett, for every limb width and modulus: the estimate fits the limbs, it leaves less
\* than 3 n, and the two conditional subtractions end with the residue.
THEOREM BarrettSettles ==
    ASSUME NEW n \in Nat \ {0}, n <= R, SmallResidue(n),
           NEW a \in 0 .. R - 1, NEW b \in 0 .. R - 1, a < n \/ b < n
    PROVE  LET q == Estimate(a * b, n)
               r == a * b - q * n
           IN  /\ q \in 0 .. R - 1
               /\ r \in 0 .. 3 * n - 1
               /\ SubIfGe(SubIfGe(r, n), n) = (a * b) % n
  <1> DEFINE p == a * b
  <1>1. R \in Nat \ {0}
    BY RIsPositive
  <1>2. p \in Nat /\ p < R * R /\ p < n * R
    <2> DEFINE rr == R
    <2>0. rr \in Nat \ {0} /\ a \in 0 .. rr - 1 /\ b \in 0 .. rr - 1 /\ n <= rr
      BY <1>1
    <2> HIDE DEF rr
    <2>1. a * b \in Nat
      BY <2>0
    <2>2. a * b < n * rr
      <3>1. CASE a < n
        <4>1. b * a <= b * n
          BY <2>0, <3>1, ScaleLe
        <4>2. n * b <= n * (rr - 1)
          BY <2>0, ScaleLe
        <4>3. n * (rr - 1) < n * rr
          BY <2>0
        <4> QED BY <2>0, <4>1, <4>2, <4>3
      <3>2. CASE b < n
        <4>1. a * b <= a * n
          BY <2>0, <3>2, ScaleLe
        <4>2. n * a <= n * (rr - 1)
          BY <2>0, ScaleLe
        <4>3. n * (rr - 1) < n * rr
          BY <2>0
        <4> QED BY <2>0, <4>1, <4>2, <4>3
      <3> QED BY <3>1, <3>2
    <2>3. rr * n <= rr * rr
      BY <2>0, ScaleLe
    <2>4. a * b < rr * rr
      BY <2>0, <2>1, <2>2, <2>3
    <2> QED BY <2>1, <2>2, <2>4 DEF rr
  <1> HIDE DEF p
  <1>3. PICK q \in Nat, lo \in 0 .. R - 1, hi \in 0 .. R - 1, f \in 0 .. R - 1 :
          /\ q = Estimate(p, n)
          /\ R * (p - q * n) = R * lo + n * f + hi * ((R * R) % n)
    BY <1>2, EstimateResidue
  <1>4. (R * R) % n \in Nat /\ ((R * R) % n) + R <= 2 * n
    BY <1>1, DivModNat DEF SmallResidue
  <1> DEFINE r == p - q * n
  <1>5. r \in Int
    BY <1>2
  <1>6. 0 <= r /\ r < 3 * n
    <2> DEFINE e == (R * R) % n
    <2>1. e \in Nat /\ e + R <= 2 * n /\ R * r = R * lo + n * f + hi * e
      BY <1>3, <1>4
    <2> HIDE DEF e, r
    <2> QED BY <1>1, <1>3, <1>5, <2>1, ResidueBounds
  <1>7. q < R
    <2> DEFINE rr == R
    <2>0. rr \in Nat /\ p < n * rr
      BY <1>1, <1>2
    <2> HIDE DEF rr
    <2>1. n * q < n * rr
      BY <1>2, <1>6, <2>0
    <2>2. q < rr
      BY <2>0, <2>1, CancelLt
    <2> QED BY <2>2 DEF rr
  <1>8. SubIfGe(SubIfGe(r, n), n) = p % n
    <2>1. p = q * n + r
      BY <1>2
    <2> HIDE DEF r
    <2>2. r \in 0 .. 3 * n - 1
      BY <1>5, <1>6
    <2>3. p \in Nat /\ q \in Int
      BY <1>2
    <2> QED BY <2>1, <2>2, <2>3, TwoSubtractions
  <1>9. q \in 0 .. R - 1 /\ r \in 0 .. 3 * n - 1
    BY <1>1, <1>5, <1>6, <1>7
  <1> QED BY <1>3, <1>8, <1>9 DEF p

---------------------------------------------------------------------------
\* Sums of integers

\* A total is a chain of additions.
LEMMA TotalUnfolds ==
    ASSUME NEW n \in Nat, NEW xs \in [1 .. n -> Int]
    PROVE  \E s \in [0 .. n -> Int] :
              Total(xs) = s[n] /\ s[0] = 0 /\ \A k \in 1 .. n : s[k] = s[k - 1] + xs[k]
  <1> DEFINE step == [k \in 1 .. n |-> [a \in Int |-> a + xs[k]]]
             Sums(s) == s = [k \in 0 .. n |-> IF k = 0 THEN 0 ELSE s[k - 1] + xs[k]]
             sum == CHOOSE s : Sums(s)
  <1>1. Len(xs) = n
    BY ByElements
  <1>2. step \in [1 .. n -> [Int -> Int]]
    OBVIOUS
  <1>3. PICK f \in [0 .. n -> Int] : Follows(f, n, 0, step)
    <2>1. 0 \in Int
      OBVIOUS
    <2> HIDE DEF step
    <2> QED BY <1>2, <2>1, UpToRecursion
  <1>4. f[0] = 0 /\ \A k \in 1 .. n : f[k] = f[k - 1] + xs[k]
    <2>1. \A k \in 1 .. n : k - 1 \in 0 .. n
      OBVIOUS
    <2>2. \A k \in 1 .. n, a \in Int : step[k][a] = a + xs[k]
      OBVIOUS
    <2> HIDE DEF step
    <2>3. \A k \in 1 .. n : f[k] = step[k][f[k - 1]] /\ f[k - 1] \in Int
      BY <1>3, <2>1 DEF Follows
    <2> QED BY <1>3, <2>2, <2>3 DEF Follows
  <1> HIDE DEF step
  <1>5. f = [k \in 0 .. n |-> IF k = 0 THEN 0 ELSE f[k - 1] + xs[k]]
    <2>1. \A k \in 0 .. n : f[k] = IF k = 0 THEN 0 ELSE f[k - 1] + xs[k]
      BY <1>4
    <2> QED BY <2>1
  <1>6. Sums(sum)
    <2>1. Sums(f)
      BY <1>5
    <2> HIDE DEF Sums
    <2> QED BY <2>1
  <1>7. Total(xs) = sum[n]
    BY <1>1 DEF Total
  <1> HIDE DEF sum
  <1>8. sum[0] = 0 /\ \A k \in 1 .. n : sum[k] = sum[k - 1] + xs[k]
    BY <1>6
  <1> DEFINE S == {k \in 0 .. n : sum[k] \in Int}
  <1>9. ASSUME NEW k \in 0 .. n - 1, k \in S PROVE k + 1 \in S
    <2>1. k + 1 \in 1 .. n /\ (k + 1) - 1 = k /\ k + 1 \in 0 .. n
      OBVIOUS
    <2>2. xs[k + 1] \in Int /\ sum[k + 1] = sum[k] + xs[k + 1]
      BY <1>8, <2>1
    <2> QED BY <1>9, <2>1, <2>2
  <1>10. 0 \in S
    BY <1>8
  <1>11. \A k \in 0 .. n : k \in S
    <2> HIDE DEF S
    <2> QED BY <1>9, <1>10, UpToInduction
  <1>12. sum \in [0 .. n -> Int]
    BY <1>6, <1>11
  <1> HIDE DEF Sums
  <1> QED BY <1>7, <1>8, <1>12

\* A total is an integer.
LEMMA TotalIsInteger ==
    ASSUME NEW n \in Nat, NEW xs \in [1 .. n -> Int]
    PROVE  Total(xs) \in Int
  <1>1. PICK s \in [0 .. n -> Int] : Total(xs) = s[n]
    BY TotalUnfolds
  <1>2. n \in 0 .. n
    OBVIOUS
  <1> QED BY <1>1, <1>2

\* The last summand may be added apart.
LEMMA TotalOfMore ==
    ASSUME NEW n \in Nat, NEW xs \in [1 .. n + 1 -> Int]
    PROVE  Total(xs) = Total([k \in 1 .. n |-> xs[k]]) + xs[n + 1]
  <1> DEFINE ys == [k \in 1 .. n |-> xs[k]]
  <1>1. n + 1 \in Nat /\ ys \in [1 .. n -> Int]
    OBVIOUS
  <1>2. PICK s \in [0 .. n + 1 -> Int] :
          /\ Total(xs) = s[n + 1] /\ s[0] = 0
          /\ \A k \in 1 .. n + 1 : s[k] = s[k - 1] + xs[k]
    BY <1>1, TotalUnfolds
  <1>3. PICK t \in [0 .. n -> Int] :
          Total(ys) = t[n] /\ t[0] = 0 /\ \A k \in 1 .. n : t[k] = t[k - 1] + ys[k]
    <2> HIDE DEF ys
    <2> QED BY <1>1, TotalUnfolds
  <1> DEFINE S == {k \in 0 .. n : s[k] = t[k]}
  <1>4. ASSUME NEW k \in 0 .. n - 1, k \in S PROVE k + 1 \in S
    <2>1. k + 1 \in 1 .. n /\ k + 1 \in 1 .. n + 1 /\ (k + 1) - 1 = k /\ k + 1 \in 0 .. n
      OBVIOUS
    <2>2. s[k + 1] = s[k] + xs[k + 1] /\ t[k + 1] = t[k] + ys[k + 1] /\ ys[k + 1] = xs[k + 1]
      BY <1>2, <1>3, <2>1
    <2> QED BY <1>4, <2>1, <2>2
  <1>5. 0 \in S
    BY <1>2, <1>3
  <1>6. \A k \in 0 .. n : k \in S
    <2> HIDE DEF S
    <2> QED BY <1>4, <1>5, UpToInduction
  <1>7. s[n] = t[n] /\ n + 1 \in 1 .. n + 1 /\ (n + 1) - 1 = n
    BY <1>6
  <1>8. s[n + 1] = s[n] + xs[n + 1]
    BY <1>2, <1>7
  <1> QED BY <1>2, <1>3, <1>7, <1>8

\* A total without summands is zero.
LEMMA TotalOfNone ==
    ASSUME NEW xs \in [1 .. 0 -> Int]
    PROVE  Total(xs) = 0
  <1>1. 0 \in Nat
    OBVIOUS
  <1> QED BY <1>1, TotalUnfolds

\* Totals are linear.
LEMMA TotalIsLinear ==
    ASSUME NEW n \in Nat, NEW a \in Int, NEW xs \in [1 .. n -> Int], NEW ys \in [1 .. n -> Int],
           NEW zs \in [1 .. n -> Int], \A k \in 1 .. n : zs[k] = xs[k] + a * ys[k]
    PROVE  Total(zs) = Total(xs) + a * Total(ys)
  <1>1. PICK s \in [0 .. n -> Int] :
          Total(xs) = s[n] /\ s[0] = 0 /\ \A k \in 1 .. n : s[k] = s[k - 1] + xs[k]
    BY TotalUnfolds
  <1>2. PICK t \in [0 .. n -> Int] :
          Total(ys) = t[n] /\ t[0] = 0 /\ \A k \in 1 .. n : t[k] = t[k - 1] + ys[k]
    BY TotalUnfolds
  <1>3. PICK u \in [0 .. n -> Int] :
          Total(zs) = u[n] /\ u[0] = 0 /\ \A k \in 1 .. n : u[k] = u[k - 1] + zs[k]
    BY TotalUnfolds
  <1> DEFINE S == {k \in 0 .. n : u[k] = s[k] + a * t[k]}
  <1>4. ASSUME NEW k \in 0 .. n - 1, k \in S PROVE k + 1 \in S
    <2>1. k + 1 \in 1 .. n /\ (k + 1) - 1 = k /\ k + 1 \in 0 .. n /\ k \in 0 .. n
      OBVIOUS
    <2> DEFINE sk == s[k]  tk == t[k]  x == xs[k + 1]  y == ys[k + 1]
    <2>2. s[k + 1] = sk + x /\ t[k + 1] = tk + y /\ u[k + 1] = u[k] + (x + a * y)
      BY <1>1, <1>2, <1>3, <2>1
    <2>3. sk \in Int /\ tk \in Int /\ x \in Int /\ y \in Int /\ u[k] = sk + a * tk
      BY <1>4, <2>1
    <2> HIDE DEF sk, tk, x, y
    <2>4. (sk + a * tk) + (x + a * y) = (sk + x) + a * (tk + y)
      BY <2>3
    <2> QED BY <2>1, <2>2, <2>3, <2>4
  <1>5. 0 \in S
    BY <1>1, <1>2, <1>3
  <1>6. \A k \in 0 .. n : k \in S
    <2> HIDE DEF S
    <2> QED BY <1>4, <1>5, UpToInduction
  <1>7. u[n] = s[n] + a * t[n]
    BY <1>6
  <1> QED BY <1>1, <1>2, <1>3, <1>7

---------------------------------------------------------------------------
\* Limb vectors

\* The first k elements.
First(x, k) == [j \in 1 .. k |-> x[j]]

\* There are limbs, and they hold more than bits.
LEMMA BaseIsPositive == LimbBase \in Nat \ {0} /\ LimbBase >= 3 /\ LIMBS \in Nat \ {0}
  BY LimbAssumption

\* The value of a limb vector, its limbs counted from the lowest.
LEMMA ValueUnfolds ==
    ASSUME NEW n \in Nat, NEW x \in [1 .. n -> Int]
    PROVE  /\ Value(First(x, 0)) = 0
           /\ \A k \in 0 .. n - 1 :
                 Value(First(x, k + 1)) = Value(First(x, k)) + x[k + 1] * Power(LimbBase, k)
           /\ \A k \in 0 .. n : Value(First(x, k)) \in Int
           /\ First(x, n) = x
  <1> DEFINE W(k) == [j \in 1 .. k |-> x[j] * Power(LimbBase, j - 1)]
  <1>1. \A j \in 1 .. n : x[j] * Power(LimbBase, j - 1) \in Int
    <2>1. ASSUME NEW j \in 1 .. n PROVE x[j] * Power(LimbBase, j - 1) \in Int
      <3>1. Power(LimbBase, j - 1) \in Nat
        BY BaseIsPositive, PowerIsPositive
      <3> QED BY <3>1
    <2> QED BY <2>1
  <1>2. ASSUME NEW k \in 0 .. n
        PROVE  Value(First(x, k)) = Total(W(k)) /\ W(k) \in [1 .. k -> Int] /\ k \in Nat
    <2>1. First(x, k) \in [1 .. k -> Int]
      BY DEF First
    <2>2. Len(First(x, k)) = k
      BY <2>1, ByElements
    <2>3. Value(First(x, k)) = Total([j \in 1 .. k |-> First(x, k)[j] * Power(LimbBase, j - 1)])
      BY <2>2 DEF Value
    <2>4. \A j \in 1 .. k : First(x, k)[j] = x[j] /\ j \in 1 .. n
      BY DEF First
    <2>5. W(k) = [j \in 1 .. k |-> First(x, k)[j] * Power(LimbBase, j - 1)]
      BY <2>4
    <2>6. W(k) \in [1 .. k -> Int]
      BY <1>1, <2>4
    <2> QED BY <2>3, <2>5, <2>6
  <1>3. Value(First(x, 0)) = 0
    <2>0. 0 \in 0 .. n
      OBVIOUS
    <2>1. Value(First(x, 0)) = Total(W(0)) /\ W(0) \in [1 .. 0 -> Int]
      <3> HIDE DEF W
      <3> QED BY <1>2, <2>0
    <2> HIDE DEF W
    <2> QED BY <2>1, TotalOfNone
  <1>4. ASSUME NEW k \in 0 .. n - 1
        PROVE  Value(First(x, k + 1)) = Value(First(x, k)) + x[k + 1] * Power(LimbBase, k)
    <2>1. k + 1 \in 0 .. n /\ k \in 0 .. n /\ k \in Nat /\ k + 1 \in 1 .. k + 1 /\ (k + 1) - 1 = k
      OBVIOUS
    <2>2. W(k) = [j \in 1 .. k |-> W(k + 1)[j]] /\ W(k + 1)[k + 1] = x[k + 1] * Power(LimbBase, k)
      BY <2>1
    <2>3. W(k + 1) \in [1 .. k + 1 -> Int]
      BY <1>2, <2>1
    <2>4. Total(W(k + 1)) = Total([j \in 1 .. k |-> W(k + 1)[j]]) + W(k + 1)[k + 1]
      <3> HIDE DEF W
      <3> QED BY <2>1, <2>3, TotalOfMore
    <2>5. Total(W(k + 1)) = Total(W(k)) + x[k + 1] * Power(LimbBase, k)
      BY <2>2, <2>4
    <2> QED BY <1>2, <2>1, <2>5
  <1>5. ASSUME NEW k \in 0 .. n PROVE Value(First(x, k)) \in Int
    <2>1. Value(First(x, k)) = Total(W(k)) /\ W(k) \in [1 .. k -> Int] /\ k \in Nat
      BY <1>2
    <2> HIDE DEF W
    <2> QED BY <2>1, TotalIsInteger
  <1>6. First(x, n) = x
    BY DEF First
  <1> QED BY <1>3, <1>4, <1>5, <1>6

\* A value is an integer.
LEMMA ValueIsInteger ==
    ASSUME NEW n \in Nat, NEW x \in [1 .. n -> Int]
    PROVE  Value(x) \in Int
  <1>1. n \in 0 .. n
    OBVIOUS
  <1> QED BY <1>1, ValueUnfolds

\* One more limb above the others.
LEMMA ValueOfAppend ==
    ASSUME NEW n \in Nat, NEW x \in [1 .. n -> Int], NEW a \in Int
    PROVE  /\ Append(x, a) \in [1 .. n + 1 -> Int]
           /\ Value(Append(x, a)) = Value(x) + a * Power(LimbBase, n)
  <1> DEFINE y == Append(x, a)
  <1>1. Len(x) = n /\ x \in Seq(Int)
    BY ByElements
  <1>2. y \in [1 .. n + 1 -> Int] /\ y[n + 1] = a /\ \A j \in 1 .. n : y[j] = x[j]
    <2>1. y \in Seq(Int) /\ Len(y) = n + 1
      BY <1>1
    <2>2. y[n + 1] = a /\ \A j \in 1 .. n : y[j] = x[j]
      BY <1>1
    <2> HIDE DEF y
    <2> QED BY <2>1, <2>2
  <1> HIDE DEF y
  <1>3. n + 1 \in Nat /\ n \in 0 .. (n + 1) - 1
    OBVIOUS
  <1>4. Value(First(y, n + 1)) = Value(First(y, n)) + y[n + 1] * Power(LimbBase, n)
    BY <1>2, <1>3, ValueUnfolds
  <1>5. First(y, n + 1) = y
    BY <1>2, <1>3, ValueUnfolds
  <1>6. First(y, n) = x
    BY <1>2 DEF First
  <1> QED BY <1>2, <1>4, <1>5, <1>6 DEF y

\* Values are linear.
LEMMA ValueIsLinear ==
    ASSUME NEW n \in Nat, NEW a \in Int, NEW xs \in [1 .. n -> Int], NEW ys \in [1 .. n -> Int],
           NEW zs \in [1 .. n -> Int], \A k \in 1 .. n : zs[k] = xs[k] + a * ys[k]
    PROVE  Value(zs) = Value(xs) + a * Value(ys)
  <1> DEFINE S == {k \in 0 .. n :
                     Value(First(zs, k)) = Value(First(xs, k)) + a * Value(First(ys, k))}
  <1>1. ASSUME NEW k \in 0 .. n - 1, k \in S PROVE k + 1 \in S
    <2>1. k + 1 \in 1 .. n /\ k + 1 \in 0 .. n /\ k \in 0 .. n /\ k \in Nat
      OBVIOUS
    <2> DEFINE s == Value(First(xs, k))  t == Value(First(ys, k))
               x == xs[k + 1]  y == ys[k + 1]  p == Power(LimbBase, k)
    <2>2. Value(First(xs, k + 1)) = s + x * p
      BY ValueUnfolds
    <2>3. Value(First(ys, k + 1)) = t + y * p
      BY ValueUnfolds
    <2>4. Value(First(zs, k + 1)) = (s + a * t) + (x + a * y) * p
      <3>1. Value(First(zs, k + 1)) = Value(First(zs, k)) + zs[k + 1] * p
        BY ValueUnfolds
      <3> QED BY <1>1, <2>1, <3>1
    <2>5. s \in Int /\ t \in Int
      BY <2>1, ValueUnfolds
    <2>6. x \in Int /\ y \in Int /\ p \in Int
      <3>1. p \in Int
        BY <2>1, BaseIsPositive, PowerIsPositive
      <3> HIDE DEF p
      <3> QED BY <2>1, <3>1
    <2> HIDE DEF s, t, x, y, p
    <2>7. (s + a * t) + (x + a * y) * p = (s + x * p) + a * (t + y * p)
      BY <2>5, <2>6
    <2> QED BY <2>1, <2>2, <2>3, <2>4, <2>7
  <1>2. 0 \in S
    <2>1. Value(First(xs, 0)) = 0 /\ Value(First(ys, 0)) = 0 /\ Value(First(zs, 0)) = 0
      BY ValueUnfolds
    <2> QED BY <2>1
  <1>3. \A k \in 0 .. n : k \in S
    <2> HIDE DEF S
    <2> QED BY <1>1, <1>2, UpToInduction
  <1>4. Value(First(zs, n)) = Value(First(xs, n)) + a * Value(First(ys, n))
    BY <1>3
  <1>5. First(zs, n) = zs /\ First(xs, n) = xs /\ First(ys, n) = ys
    BY ValueUnfolds
  <1> QED BY <1>4, <1>5

\* Limbs denote a number below the power of the base that they have room for.
LEMMA ValueBounded ==
    ASSUME NEW n \in Nat, NEW x \in Limbs(n)
    PROVE  Value(x) \in 0 .. Power(LimbBase, n) - 1
  <1> DEFINE S == {k \in 0 .. n : Value(First(x, k)) \in 0 .. Power(LimbBase, k) - 1}
  <1>0. x \in [1 .. n -> Int]
    BY BaseIsPositive DEF Limbs
  <1>1. ASSUME NEW k \in 0 .. n - 1, k \in S PROVE k + 1 \in S
    <2>1. k + 1 \in 1 .. n /\ k + 1 \in 0 .. n /\ k \in 0 .. n /\ k \in Nat
      OBVIOUS
    <2> DEFINE s == Value(First(x, k))  a == x[k + 1]  p == Power(LimbBase, k)  b == LimbBase
    <2>2. Value(First(x, k + 1)) = s + a * p
      BY <1>0, ValueUnfolds
    <2>3. p \in Nat \ {0} /\ Power(LimbBase, k + 1) = b * p
      BY <2>1, BaseIsPositive, PowerIsPositive, PowerStep
    <2>4. s \in 0 .. p - 1 /\ a \in 0 .. b - 1 /\ b \in Nat \ {0}
      BY <1>1, <2>1, BaseIsPositive DEF Limbs
    <2> HIDE DEF s, a, p, b
    <2>5. a * p \in Nat /\ a * p <= (b - 1) * p
      BY <2>3, <2>4, MulLe
    <2>6. (b - 1) * p = b * p - p
      BY <2>3, <2>4
    <2>7. b * p \in Int
      BY <2>3, <2>4
    <2>8. s + a * p \in 0 .. b * p - 1
      BY <2>3, <2>4, <2>5, <2>6, <2>7
    <2> QED BY <2>1, <2>2, <2>3, <2>8
  <1>2. 0 \in S
    <2>1. Value(First(x, 0)) = 0
      BY <1>0, ValueUnfolds
    <2>2. Power(LimbBase, 0) \in Nat \ {0}
      BY BaseIsPositive, PowerIsPositive
    <2> QED BY <2>1, <2>2
  <1>3. \A k \in 0 .. n : k \in S
    <2> HIDE DEF S
    <2> QED BY <1>1, <1>2, UpToInduction
  <1>4. Value(First(x, n)) \in 0 .. Power(LimbBase, n) - 1
    BY <1>3
  <1>5. First(x, n) = x
    BY <1>0, ValueUnfolds
  <1> QED BY <1>4, <1>5

\* The digits of a number: one digit more, and the remainder to the next power.
LEMMA NextDigit ==
    ASSUME NEW v \in Nat, NEW p \in Nat \ {0}, NEW b \in Nat \ {0}
    PROVE  v % (b * p) = (v % p) + ((v \div p) % b) * p
  <1> DEFINE q == v \div p  r == v % p  e == q \div b  d == q % b
  <1>1. q \in Nat /\ r \in 0 .. p - 1 /\ v = p * q + r
    BY DivModNat
  <1>2. e \in Nat /\ d \in 0 .. b - 1 /\ q = b * e + d
    <2> HIDE DEF q
    <2> QED BY <1>1, DivModNat
  <1> DEFINE m == b * p  s == v % m  h == v \div m
  <1>3. m \in Nat \ {0}
    OBVIOUS
  <1>4. h \in Nat /\ s \in 0 .. m - 1 /\ v = m * h + s
    <2> HIDE DEF m
    <2> QED BY <1>3, DivModNat
  <1> HIDE DEF q, r, e, d, s, h
  <1>5. m * e + (d * p + r) = v
    <2>1. p * (b * e + d) + r = (b * p) * e + (d * p + r)
      BY <1>1, <1>2
    <2> QED BY <1>1, <1>2, <2>1
  <1>6. d * p + r \in 0 .. m - 1
    <2>1. d * p \in Nat /\ d * p <= (b - 1) * p
      BY <1>2, MulLe
    <2>2. (b - 1) * p = b * p - p /\ b * p \in Int
      OBVIOUS
    <2> QED BY <1>1, <2>1, <2>2
  <1> HIDE DEF m
  <1>7. d * p + r = s
    <2> DEFINE t == d * p + r
    <2>1. t \in 0 .. m - 1 /\ m * e + t = m * h + s /\ e \in Int /\ h \in Int
      BY <1>2, <1>4, <1>5, <1>6
    <2> HIDE DEF t
    <2>2. t = s
      BY <1>3, <1>4, <2>1, OneRemainder
    <2> QED BY <2>2 DEF t
  <1>8. d * p + r = r + d * p
    BY <1>1, <1>2
  <1> QED BY <1>7, <1>8 DEF s, m, r, d, q

\* The limbs of a constant denote it.
LEMMA ValueOfConst ==
    ASSUME NEW v \in 0 .. R - 1
    PROVE  Const(v) \in Limbs(LIMBS) /\ Value(Const(v)) = v
  <1> DEFINE x == Const(v)
  <1>0. v \in Nat /\ R \in Nat \ {0}
    BY RIsPositive
  <1>1. \A k \in 0 .. LIMBS : Power(LimbBase, k) \in Nat \ {0}
    BY BaseIsPositive, PowerIsPositive
  <1>2. x \in Limbs(LIMBS)
    <2>1. ASSUME NEW k \in 1 .. LIMBS
          PROVE  (v \div Power(LimbBase, k - 1)) % LimbBase \in 0 .. LimbBase - 1
      <3>1. Power(LimbBase, k - 1) \in Nat \ {0}
        BY <1>1, BaseIsPositive
      <3>2. v \div Power(LimbBase, k - 1) \in Nat
        BY <1>0, <3>1, DivModNat
      <3> QED BY <3>2, BaseIsPositive, DivModNat
    <2> QED BY <2>1 DEF Const, Limbs
  <1>3. \A k \in 1 .. LIMBS : x[k] = (v \div Power(LimbBase, k - 1)) % LimbBase
    BY DEF Const
  <1> HIDE DEF x
  <1>4. x \in [1 .. LIMBS -> Int] /\ LIMBS \in Nat
    BY <1>2, BaseIsPositive DEF Limbs
  <1> DEFINE S == {k \in 0 .. LIMBS : Value(First(x, k)) = v % Power(LimbBase, k)}
  <1>5. 0 \in S
    <2>1. Value(First(x, 0)) = 0 /\ 0 \in 0 .. LIMBS
      BY <1>4, ValueUnfolds
    <2>2. Power(LimbBase, 0) = 1 /\ v % 1 = 0
      BY <1>0, BaseIsPositive, PowerStep
    <2> QED BY <2>1, <2>2
  <1>6. ASSUME NEW k \in 0 .. LIMBS - 1, k \in S PROVE k + 1 \in S
    <2>1. k \in Nat /\ k \in 0 .. LIMBS /\ k + 1 \in 1 .. LIMBS /\ (k + 1) - 1 = k /\ k + 1 \in 0 .. LIMBS
      BY <1>4
    <2> DEFINE p == Power(LimbBase, k)
    <2>2. Power(LimbBase, k + 1) = LimbBase * p /\ p \in Nat \ {0}
      BY <1>1, <2>1, BaseIsPositive, PowerStep
    <2>3. Value(First(x, k + 1)) = Value(First(x, k)) + x[k + 1] * p
      BY <1>4, ValueUnfolds
    <2>4. x[k + 1] = (v \div p) % LimbBase
      BY <1>3, <2>1
    <2>5. v % (LimbBase * p) = (v % p) + ((v \div p) % LimbBase) * p
      <3> HIDE DEF p
      <3> QED BY <1>0, <2>2, BaseIsPositive, NextDigit
    <2> QED BY <1>6, <2>1, <2>2, <2>3, <2>4, <2>5
  <1>7. \A k \in 0 .. LIMBS : k \in S
    <2> HIDE DEF S
    <2> QED BY <1>4, <1>5, <1>6, UpToInduction
  <1>8. Value(x) = v % R
    <2>1. LIMBS \in S
      <3> HIDE DEF S
      <3> QED BY <1>4, <1>7
    <2>2. First(x, LIMBS) = x
      BY <1>4, ValueUnfolds
    <2> QED BY <2>1, <2>2 DEF R
  <1>9. v % R = v
    BY <1>0
  <1> QED BY <1>2, <1>8, <1>9 DEF x

\* The limbs from place m on count by the power of the base.
LEMMA ValueSplits ==
    ASSUME NEW m \in Nat, NEW n \in Nat, NEW x \in [1 .. m + n -> Int]
    PROVE  Value(x) = Value(First(x, m)) + Power(LimbBase, m) * Value([k \in 1 .. n |-> x[m + k]])
  <1> DEFINE y == [k \in 1 .. n |-> x[m + k]]
             s == Value(First(x, m))
             p == Power(LimbBase, m)
             S == {k \in 0 .. n : Value(First(x, m + k)) = s + p * Value(First(y, k))}
  <1>1. y \in [1 .. n -> Int] /\ m + n \in Nat /\ \A k \in 1 .. n : y[k] = x[m + k]
    OBVIOUS
  <1>2. s \in Int /\ p \in Int
    <2>1. m \in 0 .. m + n
      OBVIOUS
    <2>2. s \in Int
      BY <1>1, <2>1, ValueUnfolds
    <2>3. p \in Int
      BY BaseIsPositive, PowerIsPositive
    <2> QED BY <2>2, <2>3
  <1> HIDE DEF y, s, p
  <1>3. 0 \in S
    <2>1. Value(First(y, 0)) = 0 /\ m + 0 = m /\ 0 \in 0 .. n
      BY <1>1, ValueUnfolds
    <2> QED BY <1>2, <2>1 DEF s
  <1>4. ASSUME NEW k \in 0 .. n - 1, k \in S PROVE k + 1 \in S
    <2>1. /\ k \in Nat /\ k \in 0 .. n /\ k + 1 \in 0 .. n /\ k + 1 \in 1 .. n
          /\ m + k \in 0 .. (m + n) - 1 /\ (m + k) + 1 = m + (k + 1) /\ m + k \in Nat
      OBVIOUS
    <2> DEFINE t == Value(First(y, k))  q == Power(LimbBase, k)  a == y[k + 1]
    <2>2. Value(First(x, m + (k + 1))) = Value(First(x, m + k)) + x[(m + k) + 1] * Power(LimbBase, m + k)
      BY <1>1, <2>1, ValueUnfolds
    <2>3. Power(LimbBase, m + k) = p * q /\ q \in Int
      <3>1. Power(LimbBase, m + k) = Power(LimbBase, m) * Power(LimbBase, k)
        BY <2>1, BaseIsPositive, PowerAdds
      <3>2. Power(LimbBase, k) \in Int
        BY <2>1, BaseIsPositive, PowerIsPositive
      <3> QED BY <3>1, <3>2 DEF p
    <2>4. x[(m + k) + 1] = a
      BY <1>1, <2>1
    <2>5. Value(First(y, k + 1)) = t + a * q
      BY <1>1, ValueUnfolds
    <2>6. t \in Int
      BY <1>1, <2>1, ValueUnfolds
    <2>7. a \in Int
      BY <1>1, <2>1
    <2>8. Value(First(x, m + k)) = s + p * t
      BY <1>4
    <2> HIDE DEF t, q, a
    <2>9. (s + p * t) + a * (p * q) = s + p * (t + a * q)
      BY <1>2, <2>3, <2>6, <2>7
    <2> QED BY <2>1, <2>2, <2>3, <2>4, <2>5, <2>8, <2>9
  <1>5. \A k \in 0 .. n : k \in S
    <2> HIDE DEF S
    <2> QED BY <1>3, <1>4, UpToInduction
  <1>6. Value(First(x, m + n)) = s + p * Value(First(y, n))
    BY <1>5
  <1>7. First(x, m + n) = x
    BY <1>1, ValueUnfolds
  <1>8. First(y, n) = y
    BY <1>1, ValueUnfolds
  <1> QED BY <1>6, <1>7, <1>8 DEF y, s, p

\* The low limbs are the remainder by 2^256, and the high ones the quotient.
LEMMA LowAndHigh ==
    ASSUME NEW n \in Nat, NEW x \in Limbs(LIMBS + n)
    PROVE  /\ Low(x) \in Limbs(LIMBS) /\ High(x) \in Limbs(n)
           /\ Low(x) = First(x, LIMBS) /\ High(x) = [k \in 1 .. n |-> x[LIMBS + k]]
           /\ Value(x) = Value(Low(x)) + R * Value(High(x))
           /\ Value(Low(x)) = Value(x) % R /\ Value(High(x)) = Value(x) \div R
           /\ Value(Low(x)) \in 0 .. R - 1
  <1>1. LIMBS \in Nat \ {0} /\ LIMBS + n \in Nat
    BY BaseIsPositive
  <1>2. x \in [1 .. LIMBS + n -> 0 .. LimbBase - 1] /\ x \in [1 .. LIMBS + n -> Int]
    BY DEF Limbs
  <1>3. Len(x) = LIMBS + n
    BY <1>1, <1>2, ByElements
  <1>4. Low(x) = First(x, LIMBS)
    BY <1>1, <1>2, <1>3 DEF Low, First
  <1>5. High(x) = [k \in 1 .. n |-> x[LIMBS + k]]
    BY <1>1, <1>2, <1>3 DEF High
  <1>6. Low(x) \in Limbs(LIMBS)
    BY <1>1, <1>2, <1>4 DEF First, Limbs
  <1>7. High(x) \in Limbs(n)
    BY <1>1, <1>2, <1>5 DEF Limbs
  <1>8. Value(x) = Value(Low(x)) + R * Value(High(x))
    <2>1. Value(x) = Value(First(x, LIMBS)) + Power(LimbBase, LIMBS) * Value([k \in 1 .. n |-> x[LIMBS + k]])
      BY <1>1, <1>2, ValueSplits
    <2> QED BY <1>4, <1>5, <2>1 DEF R
  <1>9. Value(Low(x)) \in 0 .. R - 1 /\ Value(High(x)) \in Nat /\ Value(x) \in Nat
    <2>1. Value(Low(x)) \in 0 .. R - 1
      BY <1>1, <1>6, ValueBounded DEF R
    <2>2. Value(High(x)) \in 0 .. Power(LimbBase, n) - 1
      BY <1>7, ValueBounded
    <2>3. Value(x) \in 0 .. Power(LimbBase, LIMBS + n) - 1
      BY <1>1, ValueBounded
    <2> QED BY <2>1, <2>2, <2>3
  <1>10. Value(Low(x)) = Value(x) % R /\ Value(High(x)) = Value(x) \div R
    <2> DEFINE v == Value(x)  lo == Value(Low(x))  hi == Value(High(x))
               q == v \div R  r == v % R
    <2>1. R \in Nat \ {0} /\ v \in Nat /\ lo \in 0 .. R - 1 /\ hi \in Nat /\ v = lo + R * hi
      BY <1>8, <1>9, RIsPositive
    <2>2. q \in Nat /\ r \in 0 .. R - 1 /\ v = R * q + r
      <3> HIDE DEF v
      <3> QED BY <2>1, DivModNat
    <2> HIDE DEF v, lo, hi, q, r
    <2>3. R * q + r = R * hi + lo /\ q \in Int /\ hi \in Int
      BY <2>1, <2>2
    <2>4. r = lo
      BY <2>1, <2>2, <2>3, OneRemainder
    <2>5. R * q = R * hi
      BY <2>1, <2>2, <2>3, <2>4
    <2>6. q <= hi /\ hi <= q
      <3>1. R * q <= R * hi /\ R * hi <= R * q
        BY <2>1, <2>2, <2>5
      <3> QED BY <2>1, <2>2, <3>1, CancelLe
    <2> QED BY <2>1, <2>2, <2>4, <2>6 DEF v, lo, hi, q, r
  <1> QED BY <1>4, <1>5, <1>6, <1>7, <1>8, <1>9, <1>10

---------------------------------------------------------------------------
\* Carries and borrows

\* A felt has room for the product of two limbs, as many times as there are limbs.
LEMMA RoomInFelt ==
    /\ FieldP \in Nat \ {0} /\ LimbBase * LimbBase <= FieldP
    /\ \A m \in 0 .. LIMBS : m * (LimbBase * LimbBase) <= FieldP
  <1> DEFINE bb == LimbBase * LimbBase
  <1>1. LIMBS \in Nat \ {0} /\ LimbBase \in Nat \ {0} /\ FieldP \in Nat
    BY LimbAssumption
  <1>2. bb \in Nat \ {0}
    BY <1>1
  <1>3. LIMBS * bb <= FieldP
    BY LimbAssumption
  <1> HIDE DEF bb
  <1>4. ASSUME NEW m \in 0 .. LIMBS PROVE m * bb <= FieldP
    <2>1. m \in Nat /\ m <= LIMBS /\ LIMBS * bb \in Nat /\ m * bb \in Nat
      BY <1>1, <1>2
    <2>2. m * bb <= LIMBS * bb
      BY <1>1, <1>2, <2>1, MulLe
    <2> QED BY <1>1, <1>3, <2>1, <2>2
  <1>5. bb <= FieldP
    <2>1. 1 * bb <= FieldP /\ 1 * bb = bb
      BY <1>1, <1>2, <1>4
    <2> QED BY <2>1
  <1> QED BY <1>1, <1>2, <1>4, <1>5 DEF bb

\* Felts below the modulus are not reduced.
LEMMA SmallFelt ==
    ASSUME NEW x \in 0 .. FieldP - 1
    PROVE  Felt(x) = x
  <1>1. FieldP \in Nat
    BY LimbAssumption
  <1> QED BY <1>1 DEF Felt

\* A sequence is a function on 1 .. its length.
LEMMA OfItsLength ==
    ASSUME NEW S, NEW n \in Nat, NEW s \in Seq(S), Len(s) = n
    PROVE  s \in [1 .. n -> S]
  OBVIOUS

\* A limb more.
LEMMA AppendLimb ==
    ASSUME NEW n \in Nat, NEW x \in Limbs(n), NEW a \in 0 .. LimbBase - 1
    PROVE  Append(x, a) \in Limbs(n + 1)
  <1> DEFINE L == 0 .. LimbBase - 1
  <1> HIDE DEF L
  <1>1. x \in [1 .. n -> L] /\ a \in L
    BY DEF Limbs, L
  <1>2. x \in Seq(L) /\ Len(x) = n
    BY <1>1, ByElements
  <1>3. Append(x, a) \in Seq(L) /\ Len(Append(x, a)) = n + 1
    BY <1>1, <1>2
  <1>4. Append(x, a) \in [1 .. n + 1 -> L]
    <2> DEFINE y == Append(x, a)
    <2>1. n + 1 \in Nat /\ y \in Seq(L) /\ Len(y) = n + 1
      BY <1>3
    <2> HIDE DEF y
    <2>2. y \in [1 .. n + 1 -> L]
      BY <2>1, OfItsLength
    <2> QED BY <2>2 DEF y
  <1> QED BY <1>4 DEF Limbs, L

\* No limbs yet.
LEMMA NoLimbs == <<>> \in Limbs(0) /\ Value(<<>>) = 0 /\ Power(LimbBase, 0) = 1
  <1>1. <<>> \in Limbs(0) /\ <<>> \in [1 .. 0 -> Int]
    BY DEF Limbs
  <1>2. Value(First(<<>>, 0)) = 0 /\ First(<<>>, 0) = <<>>
    BY <1>1, ValueUnfolds
  <1> QED BY <1>1, <1>2, BaseIsPositive, PowerStep

\* What a pass has done once it has taken k columns: limbs, and a carry up to m, which
\* denote the columns.
Carried(k, xs, carry_in, m, p) ==
    /\ p = [limbs |-> p.limbs, carry |-> p.carry]
    /\ p.limbs \in Limbs(k) /\ p.carry \in 0 .. m
    /\ Value(p.limbs) + p.carry * Power(LimbBase, k) = Value(First(xs, k)) + carry_in

\* Columns that leave room for the carry are split without loss.
LEMMA ColumnCarried ==
    ASSUME NEW n \in Nat, NEW xs \in [1 .. n -> Nat], NEW carry_in \in Nat, NEW m \in Nat,
           NEW k \in 0 .. n - 1, NEW p, Carried(k, xs, carry_in, m, p),
           xs[k + 1] + m < FieldP, xs[k + 1] + m < LimbBase * (m + 1)
    PROVE  Carried(k + 1, xs, carry_in, m, SplitColumn(p, xs[k + 1]))
  <1> DEFINE x == xs[k + 1]  a == p.carry  l == p.limbs  y == x + a
             lo == y % LimbBase  hi == y \div LimbBase  w == Power(LimbBase, k)  b == LimbBase
  <1>1. k \in Nat /\ k + 1 \in 1 .. n /\ x \in Nat /\ a \in 0 .. m /\ l \in Limbs(k)
    BY DEF Carried
  <1>2. y \in Nat /\ y <= x + m /\ y < FieldP /\ b \in Nat \ {0}
    BY <1>1, BaseIsPositive, LimbAssumption
  <1>3. Felt(y) = y
    <2>1. y \in 0 .. FieldP - 1
      BY <1>2, LimbAssumption
    <2> HIDE DEF y
    <2> QED BY <2>1, SmallFelt
  <1>4. hi \in Nat /\ lo \in 0 .. b - 1 /\ y = b * hi + lo
    <2> HIDE DEF y
    <2> QED BY <1>2, DivModNat
  <1>5. hi <= m
    <2>1. b * hi < b * (m + 1)
      <3> HIDE DEF x, a, hi, lo, b
      <3>1. b * (m + 1) \in Int /\ b * hi \in Int /\ b * hi <= y
        BY <1>2, <1>4
      <3>2. y < b * (m + 1)
        BY <1>2, <3>1 DEF x, b
      <3> QED BY <1>2, <3>1, <3>2
    <2> HIDE DEF hi, b
    <2>2. hi < m + 1
      BY <1>2, <1>4, <2>1, CancelLt
    <2> QED BY <1>4, <2>2
  <1>6. SplitColumn(p, x) = [limbs |-> Append(l, lo), carry |-> hi]
    BY <1>3 DEF SplitColumn
  <1>7. Append(l, lo) \in Limbs(k + 1)
    <2> HIDE DEF lo, l
    <2> QED BY <1>1, <1>4, AppendLimb
  <1>8. Value(Append(l, lo)) = Value(l) + lo * w
    <2>1. l \in [1 .. k -> Int] /\ lo \in Int
      BY <1>1, <1>4 DEF Limbs
    <2> HIDE DEF lo, l
    <2> QED BY <1>1, <2>1, ValueOfAppend
  <1>9. Power(LimbBase, k + 1) = b * w /\ w \in Nat
    BY <1>1, BaseIsPositive, PowerStep, PowerIsPositive
  <1>10. Value(First(xs, k + 1)) = Value(First(xs, k)) + x * w /\ Value(First(xs, k)) \in Int
    <2>1. xs \in [1 .. n -> Int] /\ k \in 0 .. n
      OBVIOUS
    <2> QED BY <2>1, ValueUnfolds
  <1>11. Value(l) + a * w = Value(First(xs, k)) + carry_in /\ Value(l) \in Int
    <2>1. Value(l) \in 0 .. Power(LimbBase, k) - 1
      BY <1>1, ValueBounded
    <2> QED BY <2>1 DEF Carried
  <1>12. Value(Append(l, lo)) + hi * (b * w) = Value(First(xs, k + 1)) + carry_in
    <2> DEFINE v == Value(l)  u == Value(First(xs, k))
    <2>1. v \in Int /\ u \in Int /\ v + a * w = u + carry_in
      BY <1>10, <1>11
    <2> HIDE DEF v, u, x, a, lo, hi, w, b
    <2>2. (v + lo * w) + hi * (b * w) = v + (b * hi + lo) * w
      BY <1>2, <1>4, <1>9, <2>1
    <2>3. v + (x + a) * w = (v + a * w) + x * w
      BY <1>1, <1>9, <2>1
    <2>4. (u + carry_in) + x * w = (u + x * w) + carry_in
      BY <1>1, <1>9, <2>1
    <2> QED BY <1>4, <1>8, <1>10, <2>1, <2>2, <2>3, <2>4 DEF v, u
  <1> HIDE DEF lo, hi, l, x, a, b, w
  <1>13. hi \in 0 .. m
    BY <1>4, <1>5
  <1> QED BY <1>6, <1>7, <1>9, <1>12, <1>13 DEF Carried, x

\* A carry pass keeps the value of the columns.
LEMMA CarryPassCarries ==
    ASSUME NEW n \in Nat, NEW xs \in [1 .. n -> Nat], NEW carry_in \in Nat, NEW m \in Nat,
           carry_in <= m,
           \A k \in 1 .. n : xs[k] + m < FieldP /\ xs[k] + m < LimbBase * (m + 1)
    PROVE  Carried(n, xs, carry_in, m, CarryPass(xs, carry_in))
  <1> DEFINE T == [limbs : Seq(Nat), carry : Nat]
             start == [limbs |-> <<>>, carry |-> carry_in]
             step == [k \in 1 .. n |-> [t \in T |-> SplitColumn(t, xs[k])]]
             Pass(f) == f = [k \in 0 .. n |-> IF k = 0 THEN start ELSE SplitColumn(f[k - 1], xs[k])]
             pass == CHOOSE f : Pass(f)
  <1>1. Len(xs) = n
    BY ByElements
  <1>2. \A t \in T, y \in Nat : SplitColumn(t, y) \in T
    <2>1. ASSUME NEW t \in T, NEW y \in Nat PROVE SplitColumn(t, y) \in T
      <3> DEFINE s == Felt(y + t.carry)
      <3>1. s \in Nat
        BY RoomInFelt DEF Felt
      <3>2. s % LimbBase \in Nat /\ s \div LimbBase \in Nat
        <4> HIDE DEF s
        <4> QED BY <3>1, BaseIsPositive, DivModNat
      <3> HIDE DEF s
      <3> QED BY <3>2 DEF SplitColumn, s
    <2> QED BY <2>1
  <1>3. start \in T
    OBVIOUS
  <1>4. step \in [1 .. n -> [T -> T]]
    <2> HIDE DEF T
    <2> QED BY <1>2
  <1>5. PICK f \in [0 .. n -> T] : Follows(f, n, start, step)
    <2> HIDE DEF step, T, start
    <2> QED BY <1>3, <1>4, UpToRecursion
  <1>6. f[0] = start /\ \A k \in 1 .. n : f[k] = SplitColumn(f[k - 1], xs[k])
    <2>1. \A k \in 1 .. n : k - 1 \in 0 .. n
      OBVIOUS
    <2> HIDE DEF T, start
    <2>2. \A k \in 1 .. n, t \in T : step[k][t] = SplitColumn(t, xs[k])
      OBVIOUS
    <2> HIDE DEF step
    <2>3. \A k \in 1 .. n : f[k] = step[k][f[k - 1]] /\ f[k - 1] \in T
      BY <1>5, <2>1 DEF Follows
    <2> QED BY <1>5, <2>2, <2>3 DEF Follows
  <1>7. Pass(pass)
    <2>1. \A k \in 0 .. n : f[k] = IF k = 0 THEN start ELSE SplitColumn(f[k - 1], xs[k])
      <3> HIDE DEF start
      <3> QED BY <1>6
    <2>2. Pass(f)
      <3> HIDE DEF start
      <3> QED BY <2>1
    <2> HIDE DEF Pass
    <2> QED BY <2>2
  <1>8. CarryPass(xs, carry_in) = pass[n]
    BY <1>1 DEF CarryPass
  <1> HIDE DEF pass
  <1>9. pass[0] = start /\ \A k \in 1 .. n : pass[k] = SplitColumn(pass[k - 1], xs[k])
    <2>1. \A k \in 0 .. n : pass[k] = IF k = 0 THEN start ELSE SplitColumn(pass[k - 1], xs[k])
      <3> HIDE DEF start
      <3> QED BY <1>7
    <2> HIDE DEF start, Pass
    <2>2. 0 \in 0 .. n /\ \A k \in 1 .. n : k \in 0 .. n /\ k # 0
      OBVIOUS
    <2> QED BY <2>1, <2>2
  <1> DEFINE S == {k \in 0 .. n : Carried(k, xs, carry_in, m, pass[k])}
  <1>10. 0 \in S
    <2>1. Value(First(xs, 0)) = 0
      <3>1. xs \in [1 .. n -> Int]
        OBVIOUS
      <3> QED BY <3>1, ValueUnfolds
    <2>2. Carried(0, xs, carry_in, m, start)
      BY <2>1, NoLimbs DEF Carried
    <2> HIDE DEF start
    <2> QED BY <1>9, <2>2
  <1>11. ASSUME NEW k \in 0 .. n - 1, k \in S PROVE k + 1 \in S
    <2>1. k + 1 \in 1 .. n /\ (k + 1) - 1 = k /\ k + 1 \in 0 .. n
      OBVIOUS
    <2>2. pass[k + 1] = SplitColumn(pass[k], xs[k + 1])
      BY <1>9, <2>1
    <2>3. Carried(k, xs, carry_in, m, pass[k])
      BY <1>11
    <2>4. xs[k + 1] + m < FieldP /\ xs[k + 1] + m < LimbBase * (m + 1)
      BY <2>1
    <2>5. Carried(k + 1, xs, carry_in, m, SplitColumn(pass[k], xs[k + 1]))
      BY <2>3, <2>4, ColumnCarried
    <2> QED BY <2>1, <2>2, <2>5
  <1>12. \A k \in 0 .. n : k \in S
    <2> HIDE DEF S
    <2> QED BY <1>10, <1>11, UpToInduction
  <1>13. Carried(n, xs, carry_in, m, pass[n])
    BY <1>12
  <1> QED BY <1>8, <1>13

\* What a subtraction has done once it has taken k limbs.
Borrowed(k, l, r, p) ==
    /\ p = [limbs |-> p.limbs, borrow |-> p.borrow]
    /\ p.limbs \in Limbs(k) /\ p.borrow \in {0, 1}
    /\ Value(p.limbs) = (Value(First(l, k)) - Value(First(r, k))) + p.borrow * Power(LimbBase, k)

\* A limb is subtracted without loss.
LEMMA LimbBorrowed ==
    ASSUME NEW n \in Nat, NEW l \in Limbs(n), NEW r \in Limbs(n), NEW k \in 0 .. n - 1, NEW p,
           Borrowed(k, l, r, p)
    PROVE  Borrowed(k + 1, l, r, SplitDifference(p, l[k + 1], r[k + 1]))
  <1> DEFINE x == l[k + 1]  y == r[k + 1]  a == p.borrow  b == LimbBase
             d == x + b - y - a  lo == d % b  hi == d \div b  w == Power(LimbBase, k)
             v == Value(First(l, k))  u == Value(First(r, k))  t == Value(p.limbs)
  <1>1. k \in Nat /\ k + 1 \in 1 .. n /\ x \in 0 .. b - 1 /\ y \in 0 .. b - 1 /\ a \in {0, 1}
    BY DEF Limbs, Borrowed
  <1>2. b \in Nat \ {0} /\ b >= 3 /\ d \in 0 .. 2 * b - 1
    BY <1>1, BaseIsPositive
  <1>3. Felt(d) = d
    <2>1. 2 * b <= b * b
      <3> HIDE DEF b
      <3>1. b * 2 <= b * b
        BY <1>2, ScaleLe
      <3> QED BY <1>2, <3>1
    <2>2. b * b <= FieldP /\ FieldP \in Nat
      BY RoomInFelt
    <2> HIDE DEF d, b
    <2>3. b * b \in Int
      BY <1>2
    <2>4. d \in 0 .. FieldP - 1
      BY <1>2, <2>1, <2>2, <2>3
    <2> QED BY <2>4, SmallFelt
  <1>4. hi \in Nat /\ lo \in 0 .. b - 1 /\ d = b * hi + lo
    <2> HIDE DEF d, b
    <2>1. d \in Nat
      BY <1>2
    <2> QED BY <1>2, <2>1, DivModNat
  <1>5. hi \in {0, 1}
    <2> HIDE DEF d, b, lo, hi
    <2>1. b * hi < b * 2
      BY <1>2, <1>4
    <2>2. hi < 2
      BY <1>2, <1>4, <2>1, CancelLt
    <2> QED BY <1>4, <2>2
  <1>6. Felt(1 - hi) = 1 - hi
    <2>1. FieldP >= 2 /\ FieldP \in Nat
      <3>1. b * b >= 9
        <4> HIDE DEF b
        <4>1. b * 3 <= b * b
          BY <1>2, ScaleLe
        <4> QED BY <1>2, <4>1
      <3> QED BY <1>2, <3>1, RoomInFelt
    <2> HIDE DEF hi
    <2>2. 1 - hi \in 0 .. FieldP - 1
      BY <1>5, <2>1
    <2> QED BY <2>2, SmallFelt
  <1>7. SplitDifference(p, x, y) = [limbs |-> Append(p.limbs, lo), borrow |-> 1 - hi]
    BY <1>3, <1>6 DEF SplitDifference
  <1>8. Append(p.limbs, lo) \in Limbs(k + 1)
    <2> HIDE DEF lo
    <2> QED BY <1>1, <1>4, AppendLimb DEF Borrowed
  <1>9. Value(Append(p.limbs, lo)) = t + lo * w
    <2>1. p.limbs \in [1 .. k -> Int] /\ lo \in Int
      BY <1>1, <1>4 DEF Limbs, Borrowed
    <2> HIDE DEF lo
    <2> QED BY <1>1, <2>1, ValueOfAppend
  <1>10. Power(LimbBase, k + 1) = b * w /\ w \in Nat
    BY <1>1, BaseIsPositive, PowerStep, PowerIsPositive
  <1>11. /\ Value(First(l, k + 1)) = v + x * w /\ v \in Int
         /\ Value(First(r, k + 1)) = u + y * w /\ u \in Int
    <2>1. l \in [1 .. n -> Int] /\ r \in [1 .. n -> Int] /\ k \in 0 .. n
      BY DEF Limbs
    <2> QED BY <2>1, ValueUnfolds
  <1>12. t = (v - u) + a * w
    BY DEF Borrowed
  <1>13. t + lo * w = ((v + x * w) - (u + y * w)) + (1 - hi) * (b * w)
    <2> HIDE DEF t, v, u, x, y, a, b, lo, hi, w
    <2>1. lo = (((x + b) - y) - a) - b * hi
      BY <1>1, <1>2, <1>4 DEF d
    <2>2. lo * w = ((x * w - y * w) - a * w) + (1 - hi) * (b * w)
      BY <1>1, <1>2, <1>4, <1>10, <2>1
    <2> HIDE DEF d
    <2> DEFINE e == (1 - hi) * (b * w)  xw == x * w  yw == y * w  aw == a * w
    <2>3. e \in Int /\ xw \in Int /\ yw \in Int /\ aw \in Int
      BY <1>1, <1>2, <1>4, <1>10
    <2>4. lo * w = ((xw - yw) - aw) + e /\ t = (v - u) + aw
      BY <1>12, <2>2
    <2> HIDE DEF e, xw, yw, aw
    <2>5. t + lo * w = ((v + xw) - (u + yw)) + e
      BY <1>11, <2>3, <2>4
    <2> QED BY <2>5 DEF e, xw, yw
  <1> HIDE DEF lo, hi, x, y, a, b, w, t, v, u
  <1>14. 1 - hi \in {0, 1}
    BY <1>5
  <1>15. Value(Append(p.limbs, lo))
           = (Value(First(l, k + 1)) - Value(First(r, k + 1))) + (1 - hi) * Power(LimbBase, k + 1)
    BY <1>9, <1>10, <1>11, <1>13
  <1> QED BY <1>7, <1>8, <1>14, <1>15 DEF Borrowed, x, y

\* What a split at 2^64 leaves.
LEMMA SplitsAtBase ==
    ASSUME NEW v \in Nat
    PROVE  v % LimbBase \in Nat /\ v \div LimbBase \in Nat
  <1>1. v % LimbBase \in 0 .. LimbBase - 1
    BY BaseIsPositive, DivModNat
  <1>2. v \div LimbBase \in Nat
    BY BaseIsPositive, DivModNat
  <1> QED BY <1>1, <1>2, BaseIsPositive

\* Subtraction of limb vectors is subtraction modulo the power of the base that they have
\* room for, and borrows when it has to.
LEMMA SubWithBorrowSubtracts ==
    ASSUME NEW n \in Nat, NEW l \in Limbs(n), NEW r \in Limbs(n)
    PROVE  LET p == SubWithBorrow(l, r, 0)
           IN  /\ p.limbs \in Limbs(n) /\ p.borrow \in {0, 1}
               /\ Value(p.limbs) = (Value(l) - Value(r)) + p.borrow * Power(LimbBase, n)
               /\ p.borrow = IF Value(l) < Value(r) THEN 1 ELSE 0
  <1> DEFINE T == [limbs : Seq(Nat), borrow : Nat]
             start == [limbs |-> <<>>, borrow |-> 0]
             step == [k \in 1 .. n |-> [t \in T |-> SplitDifference(t, l[k], r[k])]]
             Pass(f) == f = [k \in 0 .. n |-> IF k = 0 THEN start
                                              ELSE SplitDifference(f[k - 1], l[k], r[k])]
             pass == CHOOSE f : Pass(f)
  <1>0. \A k \in 1 .. n : l[k] \in Nat /\ r[k] \in Nat
    BY BaseIsPositive DEF Limbs
  <1>1. Len(l) = n
    BY ByElements DEF Limbs
  <1>2. \A t \in T, x \in Nat, y \in Nat : SplitDifference(t, x, y) \in T
    <2>1. ASSUME NEW t \in T, NEW x \in Nat, NEW y \in Nat PROVE SplitDifference(t, x, y) \in T
      <3> DEFINE s == Felt(x + LimbBase - y - t.borrow)  e == Felt(1 - s \div LimbBase)
      <3>1. s \in Nat /\ LimbBase \in Nat \ {0}
        BY RoomInFelt, BaseIsPositive DEF Felt
      <3>2. s % LimbBase \in Nat /\ s \div LimbBase \in Nat
        <4> HIDE DEF s
        <4> QED BY <3>1, SplitsAtBase
      <3>3. e \in Nat
        <4> HIDE DEF s
        <4> QED BY <3>2, RoomInFelt DEF Felt
      <3> HIDE DEF s, e
      <3> QED BY <3>2, <3>3 DEF SplitDifference, s, e
    <2> QED BY <2>1
  <1>3. start \in T
    OBVIOUS
  <1>4. step \in [1 .. n -> [T -> T]]
    <2> HIDE DEF T
    <2> QED BY <1>0, <1>2
  <1>5. PICK f \in [0 .. n -> T] : Follows(f, n, start, step)
    <2> HIDE DEF step, T, start
    <2> QED BY <1>3, <1>4, UpToRecursion
  <1>6. f[0] = start /\ \A k \in 1 .. n : f[k] = SplitDifference(f[k - 1], l[k], r[k])
    <2>1. \A k \in 1 .. n : k - 1 \in 0 .. n
      OBVIOUS
    <2> HIDE DEF T, start
    <2>2. \A k \in 1 .. n, t \in T : step[k][t] = SplitDifference(t, l[k], r[k])
      OBVIOUS
    <2> HIDE DEF step
    <2>3. \A k \in 1 .. n : f[k] = step[k][f[k - 1]] /\ f[k - 1] \in T
      BY <1>5, <2>1 DEF Follows
    <2> QED BY <1>5, <2>2, <2>3 DEF Follows
  <1>7. Pass(pass)
    <2>1. \A k \in 0 .. n : f[k] = IF k = 0 THEN start ELSE SplitDifference(f[k - 1], l[k], r[k])
      <3> HIDE DEF start
      <3> QED BY <1>6
    <2>2. Pass(f)
      <3> HIDE DEF start
      <3> QED BY <2>1
    <2> HIDE DEF Pass
    <2> QED BY <2>2
  <1>8. SubWithBorrow(l, r, 0) = pass[n]
    BY <1>1 DEF SubWithBorrow
  <1> HIDE DEF pass
  <1>9. pass[0] = start /\ \A k \in 1 .. n : pass[k] = SplitDifference(pass[k - 1], l[k], r[k])
    <2>1. \A k \in 0 .. n : pass[k] = IF k = 0 THEN start ELSE SplitDifference(pass[k - 1], l[k], r[k])
      <3> HIDE DEF start
      <3> QED BY <1>7
    <2> HIDE DEF start, Pass
    <2>2. 0 \in 0 .. n /\ \A k \in 1 .. n : k \in 0 .. n /\ k # 0
      OBVIOUS
    <2> QED BY <2>1, <2>2
  <1>10. l \in [1 .. n -> Int] /\ r \in [1 .. n -> Int]
    BY DEF Limbs
  <1> DEFINE S == {k \in 0 .. n : Borrowed(k, l, r, pass[k])}
  <1>11. 0 \in S
    <2>1. Value(First(l, 0)) = 0 /\ Value(First(r, 0)) = 0
      BY <1>10, ValueUnfolds
    <2>2. Borrowed(0, l, r, start)
      BY <2>1, NoLimbs DEF Borrowed
    <2> HIDE DEF start
    <2> QED BY <1>9, <2>2
  <1>12. ASSUME NEW k \in 0 .. n - 1, k \in S PROVE k + 1 \in S
    <2>1. k + 1 \in 1 .. n /\ (k + 1) - 1 = k /\ k + 1 \in 0 .. n
      OBVIOUS
    <2>2. pass[k + 1] = SplitDifference(pass[k], l[k + 1], r[k + 1])
      BY <1>9, <2>1
    <2>3. Borrowed(k, l, r, pass[k])
      BY <1>12
    <2>4. Borrowed(k + 1, l, r, SplitDifference(pass[k], l[k + 1], r[k + 1]))
      BY <2>3, LimbBorrowed
    <2> QED BY <2>1, <2>2, <2>4
  <1>13. \A k \in 0 .. n : k \in S
    <2> HIDE DEF S
    <2> QED BY <1>11, <1>12, UpToInduction
  <1>14. Borrowed(n, l, r, pass[n])
    BY <1>13
  <1>15. First(l, n) = l /\ First(r, n) = r
    BY <1>10, ValueUnfolds
  <1> DEFINE p == SubWithBorrow(l, r, 0)
  <1>16. /\ p.limbs \in Limbs(n) /\ p.borrow \in {0, 1}
         /\ Value(p.limbs) = (Value(l) - Value(r)) + p.borrow * Power(LimbBase, n)
    BY <1>8, <1>14, <1>15 DEF Borrowed
  <1>17. Value(l) \in 0 .. Power(LimbBase, n) - 1 /\ Value(r) \in 0 .. Power(LimbBase, n) - 1
    BY ValueBounded
  <1>18. Value(p.limbs) \in 0 .. Power(LimbBase, n) - 1
    BY <1>16, ValueBounded
  <1>19. Power(LimbBase, n) \in Nat
    BY BaseIsPositive, PowerIsPositive
  <1> HIDE DEF p
  <1>20. p.borrow = IF Value(l) < Value(r) THEN 1 ELSE 0
    <2>1. CASE p.borrow = 0
      BY <1>16, <1>17, <1>18, <1>19, <2>1
    <2>2. CASE p.borrow = 1
      BY <1>16, <1>17, <1>18, <1>19, <2>2
    <2> QED BY <1>16, <2>1, <2>2
  <1> QED BY <1>16, <1>20 DEF p

\* A felt has room for twice the base.
LEMMA RoomForTwo == 2 * LimbBase < FieldP
  <1> DEFINE b == LimbBase
  <1>1. b \in Nat \ {0} /\ b >= 3 /\ b * b <= FieldP /\ FieldP \in Nat
    BY BaseIsPositive, RoomInFelt
  <1> HIDE DEF b
  <1>2. b * 3 <= b * b
    BY <1>1, ScaleLe
  <1>3. b * b \in Int
    BY <1>1
  <1>4. 2 * b < FieldP
    BY <1>1, <1>2, <1>3
  <1> QED BY <1>4 DEF b

\* Values add up.
LEMMA ValueAdds ==
    ASSUME NEW n \in Nat, NEW xs \in [1 .. n -> Int], NEW ys \in [1 .. n -> Int],
           NEW zs \in [1 .. n -> Int], \A k \in 1 .. n : zs[k] = xs[k] + ys[k]
    PROVE  Value(zs) = Value(xs) + Value(ys)
  <1>1. PICK a \in Int : a = 1
    OBVIOUS
  <1>2. \A k \in 1 .. n : zs[k] = xs[k] + a * ys[k]
    BY <1>1
  <1>3. Value(zs) = Value(xs) + a * Value(ys)
    BY <1>2, ValueIsLinear
  <1> QED BY <1>1, <1>3, ValueIsInteger

\* Addition of limb vectors is addition, with a carry bit.
LEMMA AddWithCarryAdds ==
    ASSUME NEW l \in Limbs(LIMBS), NEW r \in Limbs(LIMBS)
    PROVE  LET p == AddWithCarry(l, r, 0)
           IN  /\ p.limbs \in Limbs(LIMBS) /\ p.carry \in {0, 1}
               /\ Value(p.limbs) + p.carry * R = Value(l) + Value(r)
  <1> DEFINE xs == [k \in 1 .. LIMBS |-> Felt(l[k] + r[k])]
             p == CarryPass(xs, 0)
  <1>1. LIMBS \in Nat /\ LimbBase \in Nat \ {0}
    BY BaseIsPositive
  <1>2. \A k \in 1 .. LIMBS : /\ l[k] \in 0 .. LimbBase - 1 /\ r[k] \in 0 .. LimbBase - 1
                              /\ xs[k] = l[k] + r[k]
    <2>1. ASSUME NEW k \in 1 .. LIMBS
          PROVE  /\ l[k] \in 0 .. LimbBase - 1 /\ r[k] \in 0 .. LimbBase - 1
                 /\ Felt(l[k] + r[k]) = l[k] + r[k]
      <3>1. l[k] \in 0 .. LimbBase - 1 /\ r[k] \in 0 .. LimbBase - 1
        BY DEF Limbs
      <3>2. l[k] + r[k] \in 0 .. FieldP - 1
        BY <1>1, <3>1, RoomForTwo, RoomInFelt
      <3> QED BY <3>1, <3>2, SmallFelt
    <2> QED BY <2>1
  <1>3. xs \in [1 .. LIMBS -> Nat]
    <2>1. \A k \in 1 .. LIMBS : Felt(l[k] + r[k]) \in Nat
      BY <1>1, <1>2
    <2> QED BY <2>1
  <1>4. \A k \in 1 .. LIMBS : xs[k] <= 2 * LimbBase - 2
    BY <1>1, <1>2
  <1>5. \A k \in 1 .. LIMBS : xs[k] = l[k] + r[k]
    BY <1>1, <1>2
  <1> HIDE DEF xs
  <1>6. \A k \in 1 .. LIMBS : xs[k] + 1 < FieldP /\ xs[k] + 1 < LimbBase * (1 + 1)
    BY <1>1, <1>3, <1>4, RoomForTwo, RoomInFelt
  <1>7. Carried(LIMBS, xs, 0, 1, p)
    <2>1. 0 \in Nat /\ 1 \in Nat /\ 0 <= 1
      OBVIOUS
    <2> HIDE DEF p
    <2> QED BY <1>1, <1>3, <1>6, <2>1, CarryPassCarries DEF p
  <1>8. AddWithCarry(l, r, 0) = p
    BY DEF AddWithCarry, xs
  <1>9. l \in [1 .. LIMBS -> Int] /\ r \in [1 .. LIMBS -> Int] /\ xs \in [1 .. LIMBS -> Int]
    BY <1>1, <1>3 DEF Limbs
  <1>10. Value(xs) = Value(l) + Value(r)
    BY <1>1, <1>5, <1>9, ValueAdds, ZenonT(60)
  <1>11. Value(l) \in Int /\ Value(r) \in Int /\ First(xs, LIMBS) = xs
    BY <1>1, <1>9, ValueIsInteger, ValueUnfolds
  <1> HIDE DEF p
  <1>12. /\ p.limbs \in Limbs(LIMBS) /\ p.carry \in {0, 1}
         /\ Value(p.limbs) + p.carry * R = Value(xs) + 0
    BY <1>7, <1>11 DEF Carried, R
  <1>13. Value(xs) + 0 = Value(l) + Value(r)
    BY <1>10, <1>11
  <1> QED BY <1>8, <1>12, <1>13

\* A total of limb products is bounded by what its summands are.
LEMMA TotalBounded ==
    ASSUME NEW n \in Nat, NEW top \in Nat, NEW xs \in [1 .. n -> 0 .. top]
    PROVE  Total(xs) \in 0 .. n * top
  <1>1. xs \in [1 .. n -> Int]
    OBVIOUS
  <1>2. PICK s \in [0 .. n -> Int] :
          Total(xs) = s[n] /\ s[0] = 0 /\ \A k \in 1 .. n : s[k] = s[k - 1] + xs[k]
    BY <1>1, TotalUnfolds
  <1> DEFINE S == {k \in 0 .. n : s[k] \in 0 .. k * top}
  <1>3. 0 \in S
    BY <1>2
  <1>4. ASSUME NEW k \in 0 .. n - 1, k \in S PROVE k + 1 \in S
    <2> DEFINE x == xs[k + 1]  y == k * top
    <2>1. k + 1 \in 1 .. n /\ (k + 1) - 1 = k /\ k + 1 \in 0 .. n
      OBVIOUS
    <2>2. s[k + 1] = s[k] + x /\ x \in 0 .. top /\ s[k] \in 0 .. y
      BY <1>2, <1>4, <2>1
    <2>3. (k + 1) * top = y + top /\ y \in Nat
      OBVIOUS
    <2> HIDE DEF x, y
    <2>4. s[k + 1] \in 0 .. y + top
      BY <2>2, <2>3, SMTT(40)
    <2> QED BY <2>1, <2>3, <2>4
  <1>5. \A k \in 0 .. n : k \in S
    <2> HIDE DEF S
    <2> QED BY <1>3, <1>4, UpToInduction
  <1>6. s[n] \in 0 .. n * top
    BY <1>5
  <1> QED BY <1>2, <1>6

---------------------------------------------------------------------------
\* Products of limb vectors

\* Limbs that are zero denote zero.
LEMMA ValueOfZeros ==
    ASSUME NEW n \in Nat, NEW x \in [1 .. n -> {0}]
    PROVE  Value(x) = 0
  <1>1. x \in [1 .. n -> Int] /\ \A k \in 1 .. n : x[k] = x[k] + x[k]
    OBVIOUS
  <1>2. Value(x) = Value(x) + Value(x)
    BY <1>1, ValueAdds
  <1> QED BY <1>1, <1>2, ValueIsInteger

\* What the product by one limb adds to the columns: the other factor, shifted up to it.
Shifted(x, m) == [k \in 1 .. 2 * LIMBS |-> IF k - m \in 1 .. LIMBS THEN x[k - m] ELSE 0]

\* It denotes as many times more.
LEMMA ValueOfShifted ==
    ASSUME NEW x \in Limbs(LIMBS), NEW m \in 0 .. LIMBS
    PROVE  /\ Shifted(x, m) \in [1 .. 2 * LIMBS -> Int]
           /\ Value(Shifted(x, m)) = Power(LimbBase, m) * Value(x)
  <1> DEFINE y == Shifted(x, m)
             n == 2 * LIMBS - m
             d == LIMBS - m
             u == [k \in 1 .. n |-> y[m + k]]
             w == [k \in 1 .. d |-> u[LIMBS + k]]
             b == LimbBase
  <1>1. LIMBS \in Nat /\ m \in Nat /\ n \in Nat /\ d \in Nat /\ m + n = 2 * LIMBS /\ LIMBS + d = n
    BY BaseIsPositive
  <1>2. x \in [1 .. LIMBS -> Int]
    BY DEF Limbs
  <1>3. y \in [1 .. 2 * LIMBS -> Int]
    BY <1>1, <1>2 DEF Shifted
  <1>4. \A k \in 1 .. 2 * LIMBS : y[k] = IF k - m \in 1 .. LIMBS THEN x[k - m] ELSE 0
    BY DEF Shifted
  <1> HIDE DEF y
  <1>5. Value(First(y, m)) = 0
    <2>1. \A k \in 1 .. m : k \in 1 .. 2 * LIMBS /\ ~ (k - m \in 1 .. LIMBS)
      BY <1>1
    <2>2. First(y, m) \in [1 .. m -> {0}]
      BY <1>4, <2>1 DEF First
    <2> QED BY <1>1, <2>2, ValueOfZeros
  <1>6. Value(y) = Value(First(y, m)) + Power(LimbBase, m) * Value(u)
    <2>1. y \in [1 .. m + n -> Int]
      BY <1>1, <1>3
    <2> HIDE DEF n
    <2> QED BY <1>1, <2>1, ValueSplits
  <1>7. \A k \in 1 .. n : u[k] = IF k \in 1 .. LIMBS THEN x[k] ELSE 0
    <2>1. \A k \in 1 .. n : m + k \in 1 .. 2 * LIMBS /\ (m + k) - m = k
      BY <1>1
    <2> HIDE DEF n
    <2>2. \A k \in 1 .. n : u[k] = y[m + k]
      OBVIOUS
    <2> HIDE DEF u
    <2> QED BY <1>4, <2>1, <2>2
  <1>8. u \in [1 .. n -> Int]
    <2>1. \A k \in 1 .. n : m + k \in 1 .. 2 * LIMBS
      BY <1>1
    <2> HIDE DEF n
    <2> QED BY <1>3, <2>1
  <1> HIDE DEF u
  <1>9. Value(u) = Value(First(u, LIMBS)) + Power(LimbBase, LIMBS) * Value(w)
    <2>1. u \in [1 .. LIMBS + d -> Int]
      BY <1>1, <1>8
    <2> HIDE DEF d, n
    <2> QED BY <1>1, <2>1, ValueSplits
  <1>10. First(u, LIMBS) = x
    <2>1. \A k \in 1 .. LIMBS : k \in 1 .. n
      BY <1>1
    <2> HIDE DEF n
    <2>2. \A k \in 1 .. LIMBS : u[k] = x[k]
      BY <1>7, <2>1
    <2> QED BY <1>2, <2>2 DEF First
  <1>11. Value(w) = 0
    <2>1. \A k \in 1 .. d : LIMBS + k \in 1 .. n /\ ~ (LIMBS + k \in 1 .. LIMBS)
      BY <1>1
    <2> HIDE DEF d, n
    <2>2. w \in [1 .. d -> {0}]
      BY <1>7, <2>1
    <2> HIDE DEF w
    <2> QED BY <1>1, <2>2, ValueOfZeros
  <1>12. Value(x) \in Int /\ Power(LimbBase, m) \in Int /\ Power(LimbBase, LIMBS) \in Int
    <2>1. Value(x) \in Int
      BY <1>1, <1>2, ValueIsInteger
    <2>2. Power(LimbBase, m) \in Int
      BY <1>1, BaseIsPositive, PowerIsPositive
    <2>3. Power(LimbBase, LIMBS) \in Int
      BY <1>1, BaseIsPositive, PowerIsPositive
    <2> QED BY <2>1, <2>2, <2>3
  <1>13. Value(u) = Value(x)
    BY <1>9, <1>10, <1>11, <1>12
  <1>14. Value(y) = Power(LimbBase, m) * Value(x)
    BY <1>5, <1>6, <1>12, <1>13
  <1> QED BY <1>3, <1>14 DEF y

\* The products that the first m limbs of lhs add to a column.
Products(l, r, m, k) == [i \in 1 .. m |-> IF k - i + 1 \in 1 .. LIMBS THEN l[i] * r[k - i + 1] ELSE 0]
Rows(l, r, m) == [k \in 1 .. 2 * LIMBS |-> Total(Products(l, r, m, k))]

\* Products of limbs.
LEMMA ProductsBounded ==
    ASSUME NEW l \in Limbs(LIMBS), NEW r \in Limbs(LIMBS), NEW m \in 0 .. LIMBS,
           NEW k \in 1 .. 2 * LIMBS
    PROVE  Products(l, r, m, k) \in [1 .. m -> 0 .. (LimbBase - 1) * (LimbBase - 1)]
  <1> DEFINE top == (LimbBase - 1) * (LimbBase - 1)
  <1>1. LIMBS \in Nat /\ LimbBase - 1 \in Nat
    BY BaseIsPositive
  <1>2. top \in Nat
    BY <1>1
  <1>3. ASSUME NEW i \in 1 .. m
        PROVE  (IF k - i + 1 \in 1 .. LIMBS THEN l[i] * r[k - i + 1] ELSE 0) \in 0 .. top
    <2>1. CASE k - i + 1 \in 1 .. LIMBS
      <3> DEFINE j == k - i + 1
      <3>1. i \in 1 .. LIMBS /\ j \in 1 .. LIMBS
        BY <1>1, <2>1
      <3> HIDE DEF j
      <3>2. l[i] \in 0 .. LimbBase - 1 /\ r[j] \in 0 .. LimbBase - 1
        BY <3>1 DEF Limbs
      <3>3. l[i] * r[j] \in Nat /\ l[i] * r[j] <= top
        BY <1>1, <3>2, MulLe
      <3> HIDE DEF top
      <3>4. l[i] * r[j] \in 0 .. top
        BY <1>2, <3>3
      <3> QED BY <2>1, <3>4 DEF j
    <2>2. CASE k - i + 1 \notin 1 .. LIMBS
      <3> HIDE DEF top
      <3> QED BY <1>2, <2>2
    <2> QED BY <2>1, <2>2
  <1> HIDE DEF top
  <1>4. Products(l, r, m, k) \in [1 .. m -> 0 .. top]
    BY <1>3 DEF Products
  <1> QED BY <1>4 DEF top

\* The rows of a product add up to the products of the factors.
LEMMA RowsMultiply ==
    ASSUME NEW l \in Limbs(LIMBS), NEW r \in Limbs(LIMBS)
    PROVE  \A m \in 0 .. LIMBS :
              /\ Rows(l, r, m) \in [1 .. 2 * LIMBS -> Int]
              /\ Value(Rows(l, r, m)) = Value(First(l, m)) * Value(r)
  <1> DEFINE n == 2 * LIMBS
             S == {m \in 0 .. LIMBS : Value(Rows(l, r, m)) = Value(First(l, m)) * Value(r)}
  <1>1. LIMBS \in Nat /\ n \in Nat
    BY BaseIsPositive
  <1>2. l \in [1 .. LIMBS -> Int] /\ r \in [1 .. LIMBS -> Int]
    BY DEF Limbs
  <1>3. ASSUME NEW m \in 0 .. LIMBS, NEW k \in 1 .. n
        PROVE  Products(l, r, m, k) \in [1 .. m -> Int]
    <2> DEFINE top == (LimbBase - 1) * (LimbBase - 1)
    <2>1. Products(l, r, m, k) \in [1 .. m -> 0 .. top]
      BY ProductsBounded
    <2> HIDE DEF top
    <2>2. \A f : f \in [1 .. m -> 0 .. top] => f \in [1 .. m -> Int]
      OBVIOUS
    <2> QED BY <2>1, <2>2
  <1>4. ASSUME NEW m \in 0 .. LIMBS PROVE Rows(l, r, m) \in [1 .. n -> Int]
    <2>1. \A k \in 1 .. n : Total(Products(l, r, m, k)) \in Int
      <3>1. m \in Nat
        OBVIOUS
      <3> HIDE DEF n
      <3> QED BY <1>3, <3>1, TotalIsInteger
    <2> QED BY <2>1 DEF Rows
  <1>5. 0 \in S
    <2>1. 0 \in 0 .. LIMBS /\ Value(First(l, 0)) = 0
      BY <1>1, <1>2, ValueUnfolds
    <2>2. \A k \in 1 .. n : Total(Products(l, r, 0, k)) = 0
      <3>1. \A k \in 1 .. n : Products(l, r, 0, k) \in [1 .. 0 -> Int]
        BY <1>3, <2>1
      <3> HIDE DEF n
      <3> QED BY <3>1, TotalOfNone
    <2>3. Rows(l, r, 0) \in [1 .. n -> {0}]
      BY <2>2 DEF Rows
    <2>4. Value(Rows(l, r, 0)) = 0
      <3> HIDE DEF n
      <3> QED BY <1>1, <2>3, ValueOfZeros
    <2>5. 0 * Value(r) = 0
      BY <1>1, <1>2, ValueIsInteger
    <2> QED BY <2>1, <2>4, <2>5
  <1>6. ASSUME NEW m \in 0 .. LIMBS - 1, m \in S PROVE m + 1 \in S
    <2> DEFINE a == l[m + 1]  xs == Rows(l, r, m)  ys == Shifted(r, m)  zs == Rows(l, r, m + 1)
    <2>1. m \in Nat /\ m + 1 \in 1 .. LIMBS /\ m + 1 \in 0 .. LIMBS /\ m \in 0 .. LIMBS
      BY <1>1
    <2>2. a \in Int
      BY <1>2, <2>1
    <2>3. /\ ys \in [1 .. n -> Int] /\ Value(ys) = Power(LimbBase, m) * Value(r)
          /\ xs \in [1 .. n -> Int] /\ zs \in [1 .. n -> Int]
      BY <1>4, <2>1, ValueOfShifted
    <2>4. ASSUME NEW k \in 1 .. n PROVE zs[k] = xs[k] + a * ys[k]
      <3> DEFINE ps == Products(l, r, m + 1, k)  qs == Products(l, r, m, k)
      <3>1. zs[k] = Total(ps) /\ xs[k] = Total(qs)
        BY DEF Rows
      <3>2. ps \in [1 .. m + 1 -> Int] /\ qs = [i \in 1 .. m |-> ps[i]]
        <4>1. ps \in [1 .. m + 1 -> Int]
          BY <1>3, <2>1
        <4>2. \A i \in 1 .. m : i \in 1 .. m + 1
          BY <2>1
        <4>3. qs = [i \in 1 .. m |-> ps[i]]
          BY <4>2 DEF Products
        <4> QED BY <4>1, <4>3
      <3>3. ps[m + 1] = a * ys[k]
        <4>1. m + 1 \in 1 .. m + 1 /\ k - (m + 1) + 1 = k - m
          BY <2>1
        <4>2. ps[m + 1] = IF k - m \in 1 .. LIMBS THEN a * r[k - m] ELSE 0
          BY <4>1 DEF Products
        <4>3. ys[k] = IF k - m \in 1 .. LIMBS THEN r[k - m] ELSE 0
          BY DEF Shifted
        <4> HIDE DEF ps, ys, a
        <4>4. a * 0 = 0
          BY <2>2
        <4> QED BY <4>2, <4>3, <4>4
      <3> HIDE DEF ps, qs
      <3>4. Total(ps) = Total([i \in 1 .. m |-> ps[i]]) + ps[m + 1]
        BY <2>1, <3>2, TotalOfMore
      <3> QED BY <3>1, <3>2, <3>3, <3>4
    <2>5. Value(zs) = Value(xs) + a * Value(ys)
      <3> HIDE DEF n, a, xs, ys, zs
      <3> QED BY <1>1, <2>2, <2>3, <2>4, ValueIsLinear
    <2> DEFINE p == Power(LimbBase, m)  v == Value(r)  u == Value(First(l, m))
    <2>6. Value(First(l, m + 1)) = u + a * p
      BY <1>1, <1>2, ValueUnfolds
    <2>7. p \in Int
      BY <2>1, BaseIsPositive, PowerIsPositive
    <2>8. u \in Int
      BY <1>1, <1>2, <2>1, ValueUnfolds
    <2>9. v \in Int
      BY <1>1, <1>2, ValueIsInteger
    <2>10. Value(xs) = u * v /\ Value(ys) = p * v
      BY <1>6, <2>3
    <2> HIDE DEF a, p, v, u
    <2>11. u * v + a * (p * v) = (u + a * p) * v
      BY <2>2, <2>7, <2>8, <2>9
    <2> QED BY <2>1, <2>5, <2>6, <2>10, <2>11 DEF v
  <1>7. \A m \in 0 .. LIMBS : m \in S
    <2> HIDE DEF S
    <2> QED BY <1>1, <1>5, <1>6, UpToInduction
  <1> QED BY <1>4, <1>7

\* Multiplication of limb vectors is multiplication.
LEMMA MulWideMultiplies ==
    ASSUME NEW l \in Limbs(LIMBS), NEW r \in Limbs(LIMBS)
    PROVE  /\ MulWide(l, r) \in Limbs(2 * LIMBS)
           /\ Value(MulWide(l, r)) = Value(l) * Value(r)
  <1> DEFINE n == 2 * LIMBS  b == LimbBase  top == (b - 1) * (b - 1)  m == LIMBS * (b - 1)
             xs == [k \in 1 .. n |-> ColumnSum(l, r, k)]
             p == CarryPass(xs, 0)
  <1>1. LIMBS \in Nat \ {0} /\ LIMBS \in 0 .. LIMBS /\ n \in Nat /\ b \in Nat /\ b >= 3
    BY BaseIsPositive
  <1>2. top \in Nat /\ m \in Nat /\ m + LIMBS * top = LIMBS * ((b - 1) * b)
    <2>1. b - 1 \in Nat
      BY <1>1
    <2> DEFINE e == b - 1
    <2>2. e \in Nat /\ b = e + 1
      BY <1>1
    <2> HIDE DEF e, b
    <2>3. e * e \in Nat /\ LIMBS * e \in Nat /\ LIMBS * e + LIMBS * (e * e) = LIMBS * (e * (e + 1))
      BY <1>1, <2>2
    <2> QED BY <2>2, <2>3 DEF e
  <1>3. LIMBS * ((b - 1) * b) < FieldP /\ LIMBS * ((b - 1) * b) < b * (m + 1)
    <2>1. LIMBS * (b * b) <= FieldP /\ FieldP \in Nat
      BY LimbAssumption
    <2> HIDE DEF b
    <2> DEFINE s == LIMBS * ((b - 1) * b)
    <2>2. s \in Int /\ LIMBS * (b * b) = s + LIMBS * b /\ LIMBS * b > 0 /\ LIMBS * b \in Int
      BY <1>1
    <2>3. b * (m + 1) = s + b
      BY <1>1
    <2> HIDE DEF s, m
    <2> QED BY <1>1, <2>1, <2>2, <2>3 DEF s
  <1>4. ASSUME NEW k \in 1 .. n
        PROVE  Total(Products(l, r, LIMBS, k)) \in 0 .. LIMBS * top
    <2>1. Products(l, r, LIMBS, k) \in [1 .. LIMBS -> 0 .. top]
      BY <1>1, ProductsBounded
    <2> HIDE DEF top, n
    <2> QED BY <1>1, <1>2, <2>1, TotalBounded
  <1>5. xs = Rows(l, r, LIMBS)
    <2>1. ASSUME NEW k \in 1 .. n
          PROVE  ColumnSum(l, r, k) = Total(Products(l, r, LIMBS, k))
      <3> DEFINE t == Total(Products(l, r, LIMBS, k))
      <3>1. t \in 0 .. LIMBS * top
        BY <1>4
      <3>2. t \in 0 .. FieldP - 1
        <4> DEFINE q == LIMBS * top  s == LIMBS * ((b - 1) * b)
        <4>1. m + q = s /\ s < FieldP /\ m \in Nat /\ t \in 0 .. q /\ FieldP \in Nat
          BY <1>2, <1>3, <3>1, RoomInFelt
        <4>2. q \in Int /\ s \in Int
          BY <1>1, <1>2
        <4> HIDE DEF q, s, m, t
        <4> QED BY <4>1, <4>2
      <3>3. ColumnSum(l, r, k) = Felt(t)
        BY DEF ColumnSum, Products
      <3> HIDE DEF t
      <3>4. Felt(t) = t
        BY <3>2, SmallFelt
      <3> QED BY <3>3, <3>4 DEF t
    <2> QED BY <2>1 DEF Rows
  <1>6. \A k \in 1 .. n : xs[k] \in 0 .. LIMBS * top
    <2>1. \A k \in 1 .. n : xs[k] = Total(Products(l, r, LIMBS, k))
      BY <1>5 DEF Rows
    <2> QED BY <1>4, <2>1
  <1>7. xs \in [1 .. n -> Nat] /\ \A k \in 1 .. n : xs[k] + m < FieldP /\ xs[k] + m < LimbBase * (m + 1)
    <2>1. xs = [k \in 1 .. n |-> xs[k]]
      OBVIOUS
    <2> DEFINE q == LIMBS * top  s == LIMBS * ((b - 1) * b)  w == b * (m + 1)
    <2>2. m + q = s /\ s < FieldP /\ s < w /\ m \in Nat
      BY <1>2, <1>3
    <2>3. q \in Int /\ s \in Int /\ w \in Int /\ FieldP \in Nat
      BY <1>1, <1>2, RoomInFelt
    <2>4. \A k \in 1 .. n : xs[k] \in 0 .. q
      BY <1>6
    <2> HIDE DEF q, s, w, m, xs
    <2>5. \A k \in 1 .. n : xs[k] \in Nat /\ xs[k] + m < FieldP /\ xs[k] + m < w
      BY <2>2, <2>3, <2>4
    <2>6. xs \in [1 .. n -> Nat]
      BY <2>1, <2>5
    <2> QED BY <2>5, <2>6 DEF w
  <1>8. Value(xs) = Value(l) * Value(r)
    <2>1. Value(Rows(l, r, LIMBS)) = Value(First(l, LIMBS)) * Value(r)
      BY <1>1, RowsMultiply
    <2>2. First(l, LIMBS) = l
      <3>1. l \in [1 .. LIMBS -> Int] /\ LIMBS \in Nat
        BY <1>1 DEF Limbs
      <3> QED BY <3>1, ValueUnfolds
    <2> QED BY <1>5, <2>1, <2>2
  <1> HIDE DEF xs
  <1>9. Carried(n, xs, 0, m, p)
    <2>1. 0 \in Nat /\ 0 <= m
      BY <1>2
    <2> HIDE DEF p, n, m
    <2> QED BY <1>1, <1>2, <1>7, <2>1, CarryPassCarries DEF p
  <1>10. MulWide(l, r) = p.limbs
    BY DEF MulWide, xs
  <1>11. xs \in [1 .. n -> Int]
    <2> HIDE DEF n
    <2> QED BY <1>7
  <1>12. First(xs, n) = xs
    <2> HIDE DEF n
    <2> QED BY <1>1, <1>11, ValueUnfolds
  <1> DEFINE v == Value(p.limbs)  a == p.carry  w == Power(LimbBase, n)  z1 == Value(l) * Value(r)
  <1>13. p.limbs \in Limbs(n) /\ a \in 0 .. m /\ v + a * w = z1 + 0
    BY <1>8, <1>9, <1>12 DEF Carried
  <1>14. v \in 0 .. w - 1 /\ w \in Nat
    <2>1. w \in Nat
      <3> HIDE DEF n
      <3> QED BY <1>1, BaseIsPositive, PowerIsPositive
    <2>2. v \in 0 .. w - 1
      <3> HIDE DEF n, p
      <3> QED BY <1>1, <1>13, ValueBounded
    <2> QED BY <2>1, <2>2
  <1>15. z1 \in 0 .. w - 1
    <2> DEFINE x == Value(l)  y == Value(r)  u == Power(LimbBase, LIMBS)
    <2>1. x \in 0 .. u - 1 /\ y \in 0 .. u - 1 /\ u \in Nat
      BY <1>1, BaseIsPositive, PowerIsPositive, ValueBounded
    <2>2. w = u * u
      <3>1. n = LIMBS + LIMBS
        BY <1>1
      <3> QED BY <1>1, <3>1, BaseIsPositive, PowerAdds
    <2> HIDE DEF x, y, u, w
    <2>3. x * y \in Nat /\ x * y <= x * u
      BY <2>1, MulLe
    <2>4. x * u <= u * u - u
      <3>1. x * u <= (u - 1) * u
        BY <2>1, MulLe
      <3> QED BY <2>1, <3>1
    <2>5. u * u \in Int /\ x * u \in Int /\ x * y \in Int /\ u > 0
      BY <2>1
    <2>6. x * y \in 0 .. u * u - 1
      BY <2>1, <2>3, <2>4, <2>5
    <2> QED BY <2>2, <2>6 DEF x, y
  <1> HIDE DEF v, a, w, z1, p, m
  <1>16. a = 0
    <2>1. CASE a >= 1
      <3>1. 1 * w <= a * w /\ a * w \in Nat
        BY <1>2, <1>13, <1>14, <2>1, MulLe
      <3> QED BY <1>13, <1>14, <1>15, <3>1
    <2> QED BY <1>2, <1>13, <2>1
  <1>17. v = z1
    BY <1>13, <1>14, <1>15, <1>16
  <1> QED BY <1>10, <1>13, <1>17 DEF v, z1

---------------------------------------------------------------------------
\* Bits and selections

\* A bit is negated, and bits are joined.
LEMMA BitOperations ==
    /\ \A a \in {0, 1} : NotBit(a) = 1 - a /\ NotBit(a) \in {0, 1}
    /\ \A a \in {0, 1}, b \in {0, 1} : OrBit(a, b) = IF a = 1 \/ b = 1 THEN 1 ELSE 0
  <1>1. Felt(0) = 0 /\ Felt(1) = 1
    BY RoomForTwo, RoomInFelt, BaseIsPositive, SmallFelt
  <1>2. 1 - 0 = 1 /\ 1 - 1 = 0
    OBVIOUS
  <1>3. NotBit(0) = 1 /\ NotBit(1) = 0
    BY <1>1, <1>2 DEF NotBit
  <1>4. 0 + 0 - 0 * 0 = 0 /\ 0 + 1 - 0 * 1 = 1 /\ 1 + 0 - 1 * 0 = 1 /\ 1 + 1 - 1 * 1 = 1
    OBVIOUS
  <1>5. OrBit(0, 0) = 0 /\ OrBit(0, 1) = 1 /\ OrBit(1, 0) = 1 /\ OrBit(1, 1) = 1
    BY <1>1, <1>4 DEF OrBit
  <1> QED BY <1>2, <1>3, <1>5

\* A bit selects one of two felts; the other one may be any number.
LEMMA Selects ==
    ASSUME NEW bit \in {0, 1}, NEW x \in Nat, NEW y \in Nat,
           bit = 1 => x < FieldP, bit = 0 => y < FieldP
    PROVE  Select(bit, x, y) = IF bit = 1 THEN x ELSE y
  <1>1. NotBit(0) = 1 /\ NotBit(1) = 0
    BY BitOperations
  <1>2. 0 * x + 1 * y = y /\ 1 * x + 0 * y = x
    OBVIOUS
  <1>3. CASE bit = 0
    <2>1. Select(bit, x, y) = Felt(y)
      BY <1>1, <1>2, <1>3 DEF Select
    <2>2. y \in 0 .. FieldP - 1
      BY <1>3, RoomInFelt
    <2> QED BY <1>3, <2>1, <2>2, SmallFelt
  <1>4. CASE bit = 1
    <2>1. Select(bit, x, y) = Felt(x)
      BY <1>1, <1>2, <1>4 DEF Select
    <2>2. x \in 0 .. FieldP - 1
      BY <1>4, RoomInFelt
    <2> QED BY <1>4, <2>1, <2>2, SmallFelt
  <1> QED BY <1>3, <1>4

\* A limb is a felt.
LEMMA LimbIsFelt ==
    ASSUME NEW n \in Nat, NEW x \in Limbs(n), NEW k \in 1 .. n
    PROVE  x[k] \in Nat /\ x[k] < FieldP /\ x[k] \in 0 .. LimbBase - 1
  BY RoomForTwo, RoomInFelt, BaseIsPositive DEF Limbs

\* A bit selects one of two limb vectors.
LEMMA SelectsLimbs ==
    ASSUME NEW bit \in {0, 1}, NEW xs \in Limbs(LIMBS), NEW ys \in Limbs(LIMBS)
    PROVE  SelectLimbs(bit, xs, ys) = IF bit = 1 THEN xs ELSE ys
  <1>1. LIMBS \in Nat
    BY BaseIsPositive
  <1>2. \A k \in 1 .. LIMBS : Select(bit, xs[k], ys[k]) = IF bit = 1 THEN xs[k] ELSE ys[k]
    BY <1>1, LimbIsFelt, Selects
  <1>3. CASE bit = 1
    BY <1>2, <1>3 DEF SelectLimbs, Limbs
  <1>4. CASE bit = 0
    BY <1>2, <1>4 DEF SelectLimbs, Limbs
  <1> QED BY <1>3, <1>4

\* The comparison of limb vectors compares what they denote.
LEMMA LtBoolCompares ==
    ASSUME NEW n \in Nat, NEW l \in Limbs(n), NEW r \in Limbs(n)
    PROVE  LtBool(l, r) = IF Value(l) < Value(r) THEN 1 ELSE 0
  BY SubWithBorrowSubtracts DEF LtBool

\* Limb vectors with one limb of headroom: the limbs below it, and the limb.
LEMMA TopLimb ==
    ASSUME NEW x \in Limbs(LIMBS + 1)
    PROVE  /\ Low(x) \in Limbs(LIMBS) /\ Value(Low(x)) \in 0 .. R - 1
           /\ x[LIMBS + 1] \in 0 .. LimbBase - 1
           /\ Value(x) = Value(Low(x)) + R * x[LIMBS + 1]
  <1>1. LIMBS \in Nat /\ 1 \in Nat /\ LIMBS + 1 \in 1 .. LIMBS + 1 /\ R \in Nat
    BY BaseIsPositive, RIsPositive
  <1>2. /\ Low(x) \in Limbs(LIMBS) /\ Value(Low(x)) \in 0 .. R - 1 /\ Low(x) = First(x, LIMBS)
    BY <1>1, LowAndHigh
  <1>3. x[LIMBS + 1] \in 0 .. LimbBase - 1 /\ x \in [1 .. LIMBS + 1 -> Int]
    BY <1>1 DEF Limbs
  <1>4. Value(First(x, LIMBS + 1)) = Value(First(x, LIMBS)) + x[LIMBS + 1] * Power(LimbBase, LIMBS)
    <2>1. LIMBS + 1 \in Nat /\ LIMBS \in 0 .. (LIMBS + 1) - 1
      BY <1>1
    <2> QED BY <1>3, <2>1, ValueUnfolds
  <1>5. First(x, LIMBS + 1) = x
    <2>1. LIMBS + 1 \in Nat
      BY <1>1
    <2> QED BY <1>3, <2>1, ValueUnfolds
  <1>6. x[LIMBS + 1] * R = R * x[LIMBS + 1]
    BY <1>1, <1>3, BaseIsPositive
  <1> QED BY <1>2, <1>3, <1>4, <1>5, <1>6 DEF R

\* A limb put on top of others.
LEMMA PutOnTop ==
    ASSUME NEW x \in Limbs(LIMBS), NEW a \in 0 .. LimbBase - 1
    PROVE  /\ Append(x, a) \in Limbs(LIMBS + 1)
           /\ Value(Append(x, a)) = Value(x) + R * a
  <1>1. LIMBS \in Nat /\ R \in Nat /\ LimbBase \in Nat
    BY BaseIsPositive, RIsPositive
  <1>2. x \in [1 .. LIMBS -> Int] /\ a \in Int
    BY <1>1 DEF Limbs
  <1>3. Value(Append(x, a)) = Value(x) + a * R
    BY <1>1, <1>2, ValueOfAppend DEF R
  <1>4. a * R = R * a
    BY <1>1, <1>2
  <1> QED BY <1>1, <1>3, <1>4, AppendLimb

\* The conditional subtraction subtracts the modulus from what is not below it.
LEMMA ConditionalSubSettles ==
    ASSUME NEW r \in Limbs(LIMBS + 1), NEW n \in 0 .. R - 1
    PROVE  /\ ConditionalSub(r, n) \in Limbs(LIMBS + 1)
           /\ Value(ConditionalSub(r, n)) = SubIfGe(Value(r), n)
  <1> DEFINE lo == Low(r)  top == r[LIMBS + 1]  s == SubWithBorrow(lo, Const(n), 0)
             low == NotBit(LtBool(lo, Const(n)))
             high == IF top = 0 THEN 0 ELSE 1
             need == OrBit(high, low)
             v == Value(r)  vl == Value(lo)
             t == Felt(top - s.borrow)
             top2 == Select(need, t, top)
             x == SelectLimbs(need, s.limbs, lo)
  <1>1. LIMBS \in Nat /\ LimbBase \in Nat /\ R \in Nat \ {0} /\ n \in Nat
    BY BaseIsPositive, RIsPositive
  <1>2. lo \in Limbs(LIMBS) /\ vl \in 0 .. R - 1 /\ top \in 0 .. LimbBase - 1 /\ v = vl + R * top
    BY TopLimb
  <1>3. Const(n) \in Limbs(LIMBS) /\ Value(Const(n)) = n
    BY ValueOfConst
  <1>4. /\ s.limbs \in Limbs(LIMBS) /\ s.borrow \in {0, 1}
        /\ Value(s.limbs) = (vl - n) + s.borrow * R
        /\ s.borrow = IF vl < n THEN 1 ELSE 0
    <2> HIDE DEF lo
    <2> QED BY <1>1, <1>2, <1>3, SubWithBorrowSubtracts DEF R
  <1>5. low = (IF vl < n THEN 0 ELSE 1) /\ low \in {0, 1}
    <2>1. LtBool(lo, Const(n)) = IF vl < n THEN 1 ELSE 0
      <3> HIDE DEF lo
      <3> QED BY <1>1, <1>2, <1>3, LtBoolCompares
    <2>2. NotBit(1) = 0 /\ NotBit(0) = 1
      BY BitOperations
    <2> HIDE DEF vl, lo
    <2> QED BY <2>1, <2>2
  <1>6. need \in {0, 1} /\ (need = 1 <=> (top # 0 \/ vl >= n))
    <2>1. high \in {0, 1} /\ (high = 1 <=> top # 0)
      OBVIOUS
    <2>2. low = 1 <=> vl >= n
      <3> HIDE DEF vl, low
      <3> QED BY <1>1, <1>2, <1>5
    <2>3. need = IF high = 1 \/ low = 1 THEN 1 ELSE 0
      <3> HIDE DEF high, low
      <3> QED BY <1>5, <2>1, BitOperations
    <2> HIDE DEF high, low, need, top, vl
    <2> QED BY <2>1, <2>2, <2>3
  <1>7. ConditionalSub(r, n) = Append(x, top2)
    BY DEF ConditionalSub, SubtractIf
  <1> HIDE DEF need, low, high
  <1>8. x = IF need = 1 THEN s.limbs ELSE lo
    <2> HIDE DEF s, lo
    <2> QED BY <1>2, <1>4, <1>6, SelectsLimbs
  <1>9. v >= n <=> need = 1
    <2>1. CASE top = 0
      <3>1. R * top = 0
        BY <1>1, <2>1
      <3> HIDE DEF v, vl, top
      <3> QED BY <1>1, <1>2, <1>6, <2>1, <3>1
    <2>2. CASE top >= 1
      <3>1. R * 1 <= R * top
        BY <1>1, <1>2, <2>2, MulLe
      <3>2. R * top \in Int
        BY <1>1, <1>2
      <3> HIDE DEF v, vl, top
      <3> QED BY <1>1, <1>2, <1>6, <2>2, <3>1, <3>2
    <2> HIDE DEF top
    <2> QED BY <1>1, <1>2, <2>1, <2>2
  <1>10. CASE need = 1
    <2>1. top - s.borrow \in 0 .. LimbBase - 1
      <3> HIDE DEF top, vl, s
      <3> QED BY <1>1, <1>2, <1>4, <1>6, <1>10
    <2>2. t = top - s.borrow
      <3>1. top - s.borrow \in 0 .. FieldP - 1
        BY <2>1, RoomForTwo, RoomInFelt, <1>1
      <3> HIDE DEF top, s
      <3> QED BY <3>1, SmallFelt
    <2>3. top2 = top - s.borrow
      <3>1. t \in Nat /\ t < FieldP /\ top \in Nat
        BY <1>1, <1>2, <2>1, <2>2, RoomForTwo, RoomInFelt
      <3> HIDE DEF t, top
      <3>2. Select(need, t, top) = t
        BY <1>6, <1>10, <3>1, Selects
      <3> QED BY <2>2, <3>2
    <2>4. x = s.limbs
      BY <1>8, <1>10
    <2>5. /\ Append(x, top2) \in Limbs(LIMBS + 1)
          /\ Value(Append(x, top2)) = Value(s.limbs) + R * (top - s.borrow)
      <3> HIDE DEF x, top2, top, s
      <3> QED BY <1>4, <2>1, <2>3, <2>4, PutOnTop
    <2>6. Value(s.limbs) + R * (top - s.borrow) = v - n
      <3> DEFINE a == s.borrow
      <3>1. a \in Int /\ Value(s.limbs) = (vl - n) + a * R /\ top \in Int /\ vl \in Int
        BY <1>1, <1>2, <1>4
      <3> HIDE DEF a, v, vl, top, s
      <3>2. ((vl - n) + a * R) + R * (top - a) = (vl + R * top) - n
        BY <1>1, <3>1
      <3> QED BY <1>2, <3>1, <3>2 DEF a
    <2> HIDE DEF v, x, top2
    <2> QED BY <1>7, <1>9, <1>10, <2>5, <2>6 DEF SubIfGe, v
  <1>11. CASE need = 0
    <2>1. top = 0 /\ x = lo
      BY <1>6, <1>8, <1>11
    <2>2. top2 = 0
      <3>1. t \in Nat
        <4>1. top - s.borrow \in Int
          BY <1>4, <2>1
        <4> HIDE DEF top, s
        <4> QED BY <4>1, RoomInFelt DEF Felt
      <3>2. 0 < FieldP /\ 0 \in Nat
        BY RoomInFelt
      <3> HIDE DEF t, top
      <3>3. Select(need, t, top) = top
        BY <1>6, <1>11, <2>1, <3>1, <3>2, Selects
      <3> QED BY <2>1, <3>3
    <2>3. 0 \in 0 .. LimbBase - 1
      BY <1>1, BaseIsPositive
    <2>4. Append(x, top2) \in Limbs(LIMBS + 1) /\ Value(Append(x, top2)) = vl + R * 0
      <3> HIDE DEF x, top2, lo
      <3> QED BY <1>2, <2>1, <2>2, <2>3, PutOnTop
    <2>5. vl + R * 0 = v
      BY <1>2, <2>1
    <2>6. ~ (v >= n)
      BY <1>9, <1>11
    <2> HIDE DEF v, x, top2, vl
    <2> QED BY <1>7, <2>4, <2>5, <2>6 DEF SubIfGe, v
  <1> HIDE DEF v, x, top2
  <1> QED BY <1>6, <1>10, <1>11

---------------------------------------------------------------------------
\* The Barrett reduction, limb by limb

\* The quotient is estimated as BarrettSettles estimates it, when the estimate fits its limbs.
LEMMA EstimateByLimbs ==
    ASSUME NEW p \in Limbs(LIMBS + LIMBS), NEW n, BarrettModulus(n),
           Estimate(Value(p), n) \in 0 .. R - 1
    PROVE  /\ BarrettEstimate(p, n) \in Limbs(LIMBS)
           /\ Value(BarrettEstimate(p, n)) = Estimate(Value(p), n)
  <1> DEFINE hi == High(p)  ml == BarrettMuLow(n)  w == MulWide(hi, Const(ml))
             s == AddWithCarry(hi, High(w), 0)  rr == R
  <1>1. LIMBS \in Nat /\ rr \in Nat \ {0} /\ n \in Nat /\ n < rr /\ rr < 2 * n
    BY BaseIsPositive, RIsPositive DEF BarrettModulus
  <1>2. hi \in Limbs(LIMBS) /\ Value(hi) = Value(p) \div R
    BY <1>1, LowAndHigh
  <1>3. ml \in 0 .. rr - 1
    <2> DEFINE q == (rr * rr) \div n  e == (rr * rr) % n
    <2>1. rr * rr \in Nat /\ n \in Nat \ {0}
      BY <1>1
    <2>2. q \in Nat /\ e \in 0 .. n - 1 /\ rr * rr = n * q + e
      BY <2>1, DivModNat
    <2>3. ml = q - rr
      BY DEF BarrettMuLow
    <2> HIDE DEF q, e, rr, ml
    <2>4. q < 2 * rr
      <3>1. n * q <= rr * rr
        BY <2>1, <2>2
      <3>2. rr * rr < (2 * n) * rr
        BY <1>1
      <3>3. (2 * n) * rr = n * (2 * rr)
        BY <1>1
      <3>4. n * q < n * (2 * rr)
        <4>1. n * q \in Int /\ n * (2 * rr) \in Int
          BY <1>1, <2>2
        <4> QED BY <2>1, <3>1, <3>2, <3>3, <4>1
      <3>5. q \in Int /\ 2 * rr \in Int
        BY <1>1, <2>2
      <3> QED BY <2>1, <3>4, <3>5, CancelLt
    <2>5. q >= rr
      <3>1. n * rr <= (rr - 1) * rr
        BY <1>1, MulLe
      <3>2. (rr - 1) * rr = rr * rr - rr
        BY <1>1
      <3>3. n * (q + 1) = n * q + n
        BY <1>1, <2>2
      <3>4. n * rr < n * (q + 1)
        <4>1. n * q \in Int /\ n * rr \in Int
          BY <1>1, <2>2
        <4> QED BY <1>1, <2>1, <2>2, <3>1, <3>2, <3>3, <4>1
      <3>5. rr \in Int /\ q + 1 \in Int
        BY <1>1, <2>2
      <3> DEFINE q1 == q + 1
      <3> HIDE DEF q1
      <3>6. rr < q1
        BY <2>1, <3>4, <3>5, CancelLt DEF q1
      <3> QED BY <1>1, <2>2, <3>6 DEF q1
    <2> QED BY <1>1, <2>2, <2>3, <2>4, <2>5
  <1>4. Const(ml) \in Limbs(LIMBS) /\ Value(Const(ml)) = ml
    <2> HIDE DEF ml
    <2> QED BY <1>3, ValueOfConst
  <1>5. w \in Limbs(LIMBS + LIMBS) /\ Value(w) = Value(hi) * ml
    <2> HIDE DEF hi, ml
    <2>1. w \in Limbs(2 * LIMBS) /\ Value(w) = Value(hi) * ml
      BY <1>2, <1>4, MulWideMultiplies
    <2>2. 2 * LIMBS = LIMBS + LIMBS
      BY <1>1
    <2> QED BY <2>1, <2>2
  <1>6. High(w) \in Limbs(LIMBS) /\ Value(High(w)) = Value(w) \div R
    <2> HIDE DEF w
    <2> QED BY <1>1, <1>5, LowAndHigh
  <1>7. /\ s.limbs \in Limbs(LIMBS) /\ s.carry \in {0, 1}
        /\ Value(s.limbs) + s.carry * R = Value(hi) + Value(High(w))
    <2> HIDE DEF w, hi
    <2> QED BY <1>2, <1>6, AddWithCarryAdds
  <1>8. Value(hi) + Value(High(w)) = Estimate(Value(p), n)
    BY <1>2, <1>5, <1>6 DEF Estimate
  <1>9. Value(s.limbs) \in Nat
    <2> HIDE DEF s
    <2> QED BY <1>1, <1>7, ValueBounded
  <1>10. s.carry = 0
    <2> DEFINE v == Value(s.limbs)  q == Estimate(Value(p), n)
    <2>1. v + s.carry * rr = q /\ q \in 0 .. rr - 1
      BY <1>7, <1>8
    <2>2. CASE s.carry = 1
      <3> HIDE DEF v, s, q, rr
      <3> QED BY <1>1, <1>9, <2>1, <2>2 DEF v
    <2> HIDE DEF s
    <2> QED BY <1>7, <2>2
  <1>11. Value(s.limbs) = Estimate(Value(p), n)
    <2>1. 0 * R = 0
      BY <1>1
    <2> HIDE DEF s
    <2> QED BY <1>7, <1>8, <1>9, <1>10, <2>1
  <1>12. BarrettEstimate(p, n) = s.limbs
    BY DEF BarrettEstimate
  <1> HIDE DEF s
  <1> QED BY <1>7, <1>11, <1>12

\* The low limbs of a number that they have room for denote it.
LEMMA FirstLimbs ==
    ASSUME NEW m \in Nat, NEW n \in Nat, NEW x \in Limbs(m + n), Value(x) < Power(LimbBase, m)
    PROVE  /\ SubSeq(x, 1, m) \in Limbs(m) /\ Value(SubSeq(x, 1, m)) = Value(x)
  <1> DEFINE y == [k \in 1 .. n |-> x[m + k]]  s == Value(First(x, m))  t == Value(y)
             w == Power(LimbBase, m)
  <1>1. x \in [1 .. m + n -> 0 .. LimbBase - 1] /\ x \in [1 .. m + n -> Int] /\ m + n \in Nat
    BY DEF Limbs
  <1>2. Len(x) = m + n
    BY <1>1, ByElements
  <1>3. SubSeq(x, 1, m) = First(x, m)
    BY <1>1, <1>2 DEF First
  <1>4. First(x, m) \in Limbs(m)
    BY <1>1 DEF First, Limbs
  <1>5. y \in Limbs(n)
    BY <1>1 DEF Limbs
  <1>6. Value(x) = s + w * t
    BY <1>1, ValueSplits
  <1>7. s \in Nat
    BY <1>4, ValueBounded
  <1>8. t \in Nat
    <2> HIDE DEF y
    <2> QED BY <1>5, ValueBounded
  <1>9. w \in Nat \ {0} /\ s + w * t < w
    BY <1>6, BaseIsPositive, PowerIsPositive
  <1> HIDE DEF s, t, w
  <1>10. t = 0
    <2>1. CASE t >= 1
      <3>1. w * 1 <= w * t /\ w * t \in Int
        BY <1>8, <1>9, <2>1, ScaleLe
      <3> QED BY <1>7, <1>9, <3>1
    <2> QED BY <1>8, <2>1
  <1>11. Value(x) = s
    BY <1>6, <1>7, <1>9, <1>10
  <1> QED BY <1>3, <1>4, <1>11 DEF s

\* What the estimate leaves is computed on one limb more than the modulus has.
LEMMA RemainderByLimbs ==
    ASSUME NEW p \in Limbs(LIMBS + LIMBS), NEW n, BarrettModulus(n),
           Estimate(Value(p), n) \in 0 .. R - 1,
           Value(p) - Estimate(Value(p), n) * n \in 0 .. 3 * n - 1
    PROVE  /\ Barrett5(p, n) \in Limbs(LIMBS + 1)
           /\ Value(Barrett5(p, n)) = Value(p) - Estimate(Value(p), n) * n
  <1> DEFINE est == BarrettEstimate(p, n)  q == Estimate(Value(p), n)  w == MulWide(est, Const(n))
             s == SubWithBorrow(p, w, 0)  v == Value(p)  x == q * n  rr == R  b == LimbBase
  <1>1. /\ LIMBS \in Nat \ {0} /\ LIMBS + LIMBS \in Nat /\ rr \in Nat \ {0} /\ b \in Nat /\ b >= 3
        /\ n \in 0 .. rr - 1 /\ n \in Nat
    BY BaseIsPositive, RIsPositive DEF BarrettModulus
  <1>2. est \in Limbs(LIMBS) /\ Value(est) = q
    BY EstimateByLimbs
  <1>3. Const(n) \in Limbs(LIMBS) /\ Value(Const(n)) = n
    BY <1>1, ValueOfConst
  <1>4. w \in Limbs(LIMBS + LIMBS) /\ Value(w) = x
    <2> HIDE DEF est, q
    <2>1. w \in Limbs(2 * LIMBS) /\ Value(w) = x
      BY <1>2, <1>3, MulWideMultiplies
    <2>2. 2 * LIMBS = LIMBS + LIMBS
      BY <1>1
    <2> HIDE DEF w
    <2> QED BY <2>1, <2>2
  <1>5. v - x \in 0 .. 3 * n - 1
    OBVIOUS
  <1>6. v \in Int
    BY <1>1, ValueBounded
  <1>7. x \in Int
    <2>1. q \in Int
      BY <1>1
    <2> HIDE DEF q
    <2> QED BY <1>1, <2>1
  <1>8. s.limbs \in Limbs(LIMBS + LIMBS) /\ Value(s.limbs) = v - x
    <2>1. /\ s.limbs \in Limbs(LIMBS + LIMBS)
          /\ Value(s.limbs) = (v - x) + s.borrow * Power(LimbBase, LIMBS + LIMBS)
          /\ s.borrow = IF v < x THEN 1 ELSE 0
      <3> HIDE DEF w
      <3> QED BY <1>1, <1>4, SubWithBorrowSubtracts
    <2>2. s.borrow = 0
      <3> HIDE DEF v, x, s
      <3> QED BY <1>5, <1>6, <1>7, <2>1
    <2>3. Power(LimbBase, LIMBS + LIMBS) \in Nat
      BY <1>1, BaseIsPositive, PowerIsPositive
    <2> HIDE DEF v, x, s
    <2> QED BY <1>6, <1>7, <2>1, <2>2, <2>3
  <1>9. Power(LimbBase, LIMBS + 1) = b * rr
    BY <1>1, BaseIsPositive, PowerStep DEF R
  <1>10. v - x < b * rr
    <2> HIDE DEF b, rr, v, x
    <2>1. 3 * rr <= b * rr
      BY <1>1, MulLe
    <2>2. b * rr \in Int
      BY <1>1
    <2> QED BY <1>1, <1>5, <1>6, <1>7, <2>1, <2>2
  <1>11. /\ SubSeq(s.limbs, 1, LIMBS + 1) \in Limbs(LIMBS + 1)
         /\ Value(SubSeq(s.limbs, 1, LIMBS + 1)) = v - x
    <2> DEFINE d == LIMBS - 1  m == LIMBS + 1
    <2>1. d \in Nat /\ m \in Nat /\ m + d = LIMBS + LIMBS
      BY <1>1
    <2>2. s.limbs \in Limbs(m + d)
      BY <1>8, <2>1
    <2>3. Value(s.limbs) < Power(LimbBase, m)
      BY <1>8, <1>9, <1>10
    <2> HIDE DEF s, d, m, v, x
    <2>4. SubSeq(s.limbs, 1, m) \in Limbs(m) /\ Value(SubSeq(s.limbs, 1, m)) = v - x
      BY <1>8, <2>1, <2>2, <2>3, FirstLimbs
    <2> QED BY <2>4 DEF m
  <1>12. Barrett5(p, n) = SubSeq(s.limbs, 1, LIMBS + 1)
    BY DEF Barrett5
  <1> QED BY <1>11, <1>12

\* Low limbs of what fits them.
LEMMA LowOfSmall ==
    ASSUME NEW x \in Limbs(LIMBS + 1), Value(x) < R
    PROVE  Low(x) \in Limbs(LIMBS) /\ Value(Low(x)) = Value(x)
  BY BaseIsPositive, FirstLimbs DEF Low, R

\* ecdsa_<curve>_mul_mod, by Barrett: one reduced operand is enough.
LEMMA MulBarrettExact ==
    ASSUME NEW l \in Limbs(LIMBS), NEW r \in Limbs(LIMBS), NEW n, BarrettModulus(n),
           Value(l) < n \/ Value(r) < n
    PROVE  /\ MulBarrett(l, r, n) \in Limbs(LIMBS)
           /\ Value(MulBarrett(l, r, n)) = (Value(l) * Value(r)) % n
  <1> DEFINE w == MulWide(l, r)  a == Value(l)  b == Value(r)  q == Estimate(a * b, n)
             x == Barrett5(w, n)  y == ConditionalSub(x, n)  u == ConditionalSub(y, n)
             v == a * b - q * n
  <1>1. LIMBS \in Nat /\ R \in Nat \ {0} /\ n \in Nat \ {0} /\ n \in 0 .. R - 1
    BY BaseIsPositive, RIsPositive DEF BarrettModulus
  <1>2. a \in 0 .. R - 1 /\ b \in 0 .. R - 1
    BY <1>1, ValueBounded DEF R
  <1>3. q \in 0 .. R - 1 /\ v \in 0 .. 3 * n - 1 /\ SubIfGe(SubIfGe(v, n), n) = (a * b) % n
    <2>1. n <= R /\ SmallResidue(n)
      BY <1>1 DEF BarrettModulus
    <2> HIDE DEF a, b
    <2>2. a < n \/ b < n
      BY DEF a, b
    <2> QED BY <1>1, <1>2, <2>1, <2>2, BarrettSettles
  <1>4. w \in Limbs(LIMBS + LIMBS) /\ Value(w) = a * b
    <2>1. w \in Limbs(2 * LIMBS) /\ Value(w) = a * b
      BY MulWideMultiplies
    <2>2. 2 * LIMBS = LIMBS + LIMBS
      BY <1>1
    <2> HIDE DEF w
    <2> QED BY <2>1, <2>2
  <1>5. x \in Limbs(LIMBS + 1) /\ Value(x) = v
    <2> HIDE DEF w
    <2> QED BY <1>3, <1>4, RemainderByLimbs
  <1>6. y \in Limbs(LIMBS + 1) /\ Value(y) = SubIfGe(v, n)
    <2> HIDE DEF x, v
    <2> QED BY <1>1, <1>5, ConditionalSubSettles
  <1>7. u \in Limbs(LIMBS + 1) /\ Value(u) = (a * b) % n
    <2> HIDE DEF y, v
    <2>1. u \in Limbs(LIMBS + 1) /\ Value(u) = SubIfGe(Value(y), n)
      BY <1>1, <1>6, ConditionalSubSettles
    <2> HIDE DEF u
    <2> QED BY <1>3, <1>6, <2>1
  <1>8. (a * b) % n \in 0 .. n - 1
    <2> DEFINE ab == a * b
    <2>1. ab \in Nat
      <3> HIDE DEF a, b
      <3> QED BY <1>1, <1>2
    <2> HIDE DEF ab
    <2>2. ab % n \in 0 .. n - 1
      BY <1>1, <2>1, DivModNat
    <2> QED BY <2>2 DEF ab
  <1>9. Low(u) \in Limbs(LIMBS) /\ Value(Low(u)) = Value(u)
    <2>1. Value(u) < R
      <3> HIDE DEF u
      <3> QED BY <1>1, <1>7, <1>8
    <2> HIDE DEF u
    <2> QED BY <1>7, <2>1, LowOfSmall
  <1>10. MulBarrett(l, r, n) = Low(u)
    BY DEF MulBarrett, ReduceBarrett
  <1> HIDE DEF u
  <1> QED BY <1>7, <1>9, <1>10

---------------------------------------------------------------------------
\* The Solinas rounds, limb by limb

\* Zeros above the limbs do not change what they denote.
LEMMA PadKeeps ==
    ASSUME NEW n \in Nat, NEW m \in Nat, n <= m, NEW x \in Limbs(n)
    PROVE  /\ [k \in 1 .. m |-> Pad(x, k)] \in Limbs(m)
           /\ Value([k \in 1 .. m |-> Pad(x, k)]) = Value(x)
  <1> DEFINE y == [k \in 1 .. m |-> Pad(x, k)]  d == m - n
             u == [k \in 1 .. d |-> y[n + k]]
  <1>1. LimbBase \in Nat /\ LimbBase >= 3 /\ d \in Nat /\ n + d = m
    BY BaseIsPositive
  <1>2. x \in [1 .. n -> 0 .. LimbBase - 1] /\ x \in [1 .. n -> Int] /\ Len(x) = n
    <2>1. x \in [1 .. n -> 0 .. LimbBase - 1]
      BY DEF Limbs
    <2> QED BY <2>1, ByElements
  <1>3. \A k \in 1 .. m : y[k] = IF k <= n THEN x[k] ELSE 0
    BY <1>2 DEF Pad
  <1>4. y \in [1 .. m -> 0 .. LimbBase - 1]
    <2>1. \A k \in 1 .. m : Pad(x, k) \in 0 .. LimbBase - 1
      BY <1>1, <1>2 DEF Pad
    <2> QED BY <2>1
  <1> HIDE DEF y
  <1>5. y \in [1 .. n + d -> Int]
    <2> HIDE DEF d
    <2> QED BY <1>1, <1>4
  <1>6. First(y, n) = x
    <2>1. \A k \in 1 .. n : y[k] = x[k]
      BY <1>3
    <2> QED BY <1>2, <2>1 DEF First
  <1>7. Value(u) = 0
    <2>1. \A k \in 1 .. d : n + k \in 1 .. m /\ ~ (n + k <= n)
      BY <1>1
    <2> HIDE DEF d
    <2>2. u \in [1 .. d -> {0}]
      BY <1>3, <2>1
    <2> HIDE DEF u
    <2> QED BY <1>1, <2>2, ValueOfZeros
  <1>8. Value(y) = Value(First(y, n)) + Power(LimbBase, n) * Value(u)
    <2> HIDE DEF d
    <2> QED BY <1>1, <1>5, ValueSplits
  <1>9. Value(x) \in Int /\ Power(LimbBase, n) \in Int
    <2>1. Value(x) \in Int
      BY <1>2, ValueIsInteger
    <2> QED BY <2>1, BaseIsPositive, PowerIsPositive
  <1> HIDE DEF u
  <1>10. Value(y) = Value(x)
    BY <1>6, <1>7, <1>8, <1>9
  <1> QED BY <1>4, <1>10 DEF Limbs, y

\* A pass whose result fits the limbs leaves no carry.
LEMMA NoCarryLeft ==
    ASSUME NEW n \in Nat, NEW xs \in [1 .. n -> Nat], NEW m \in Nat,
           \A k \in 1 .. n : xs[k] + m < FieldP /\ xs[k] + m < LimbBase * (m + 1),
           Value(xs) \in 0 .. Power(LimbBase, n) - 1
    PROVE  /\ CarryPass(xs, 0).limbs \in Limbs(n)
           /\ Value(CarryPass(xs, 0).limbs) = Value(xs)
  <1> DEFINE p == CarryPass(xs, 0)  v == Value(p.limbs)  a == p.carry  w == Power(LimbBase, n)
             t == Value(xs)
  <1>1. Carried(n, xs, 0, m, p)
    <2>1. 0 \in Nat /\ 0 <= m
      OBVIOUS
    <2> HIDE DEF p
    <2> QED BY <2>1, CarryPassCarries DEF p
  <1>2. First(xs, n) = xs
    <2>1. xs \in [1 .. n -> Int]
      OBVIOUS
    <2> QED BY <2>1, ValueUnfolds
  <1>3. p.limbs \in Limbs(n) /\ a \in 0 .. m /\ v + a * w = t + 0
    BY <1>1, <1>2 DEF Carried
  <1>4. v \in Nat
    <2> HIDE DEF p
    <2> QED BY <1>3, ValueBounded
  <1>5. w \in Nat /\ t \in 0 .. w - 1
    BY BaseIsPositive, PowerIsPositive
  <1> HIDE DEF p, v, a, w, t
  <1>6. a = 0
    <2>1. CASE a >= 1
      <3> DEFINE aw == a * w
      <3>1. w <= aw /\ aw \in Nat /\ v + aw = t
        <4>1. 1 * w <= a * w /\ a * w \in Nat /\ 1 * w = w
          BY <1>3, <1>5, <2>1, MulLe
        <4> QED BY <1>3, <1>5, <4>1
      <3> HIDE DEF aw
      <3> QED BY <1>4, <1>5, <3>1
    <2> QED BY <1>3, <2>1
  <1>7. v = t
    BY <1>3, <1>4, <1>5, <1>6
  <1> QED BY <1>3, <1>7 DEF p, v, t

\* The product of the high limbs by c, with one limb of headroom.
LEMMA TimesSmall ==
    ASSUME NEW h \in 0 .. LIMBS, NEW x \in Limbs(h), NEW c_ \in 1 .. LimbBase - 1
    PROVE  LET y == CarryPass([k \in 1 .. LIMBS + 1 |-> Felt(Pad(x, k) * c_)], 0).limbs
           IN  y \in Limbs(LIMBS + 1) /\ Value(y) = c_ * Value(x)
  <1> DEFINE n == LIMBS + 1  b == LimbBase
             xs == [k \in 1 .. n |-> Felt(Pad(x, k) * c_)]
             ys == [k \in 1 .. n |-> Pad(x, k)]  zs == [k \in 1 .. n |-> 0]
  <1>1. LIMBS \in Nat /\ n \in Nat /\ h \in Nat /\ h <= n /\ b \in Nat /\ b >= 3 /\ c_ \in 1 .. b - 1
    BY BaseIsPositive
  <1>2. ys \in Limbs(n) /\ Value(ys) = Value(x)
    <2> HIDE DEF n
    <2> QED BY <1>1, PadKeeps
  <1>3. \A k \in 1 .. n : xs[k] = Felt(ys[k] * c_) /\ ys[k] \in 0 .. b - 1 /\ zs[k] = 0
    BY <1>2 DEF Limbs
  <1>4. xs = [k \in 1 .. n |-> xs[k]]
    OBVIOUS
  <1>5. \A a \in 0 .. b - 1 : /\ a * c_ \in Nat /\ a * c_ + c_ < FieldP
                              /\ a * c_ + c_ < b * (c_ + 1) /\ Felt(a * c_) = a * c_
    <2>1. ASSUME NEW a \in 0 .. b - 1
          PROVE  /\ a * c_ \in Nat /\ a * c_ + c_ < FieldP
                 /\ a * c_ + c_ < b * (c_ + 1) /\ Felt(a * c_) = a * c_
      <3>1. b * b <= FieldP /\ FieldP \in Nat
        BY RoomInFelt
      <3> HIDE DEF b
      <3> DEFINE s == a * c_  bc == b * c_  bb == b * b
      <3>2. s \in Nat /\ s <= (b - 1) * c_
        BY <1>1, MulLe
      <3>3. (b - 1) * c_ = bc - c_ /\ b * (c_ + 1) = bc + b /\ bc \in Nat
        BY <1>1
      <3>4. bc <= b * (b - 1)
        BY <1>1, MulLe
      <3>5. b * (b - 1) = bb - b /\ bb \in Nat
        BY <1>1
      <3> HIDE DEF s, bc, bb
      <3>6. s \in Nat /\ s + c_ < FieldP /\ s + c_ < b * (c_ + 1)
        BY <1>1, <3>1, <3>2, <3>3, <3>4, <3>5 DEF bb
      <3>7. s \in 0 .. FieldP - 1
        BY <1>1, <3>1, <3>6
      <3> QED BY <3>6, <3>7, SmallFelt DEF s
    <2> QED BY <2>1
  <1>6. \A k \in 1 .. n : xs[k] \in Nat /\ xs[k] + c_ < FieldP /\ xs[k] + c_ < LimbBase * (c_ + 1)
    <2> HIDE DEF xs, ys, zs, n
    <2> QED BY <1>3, <1>5 DEF b
  <1>7. xs \in [1 .. n -> Nat]
    <2> HIDE DEF xs, n
    <2> QED BY <1>4, <1>6
  <1>8. \A k \in 1 .. n : xs[k] = zs[k] + c_ * ys[k]
    <2>1. \A a \in 0 .. b - 1 : a * c_ = 0 + c_ * a
      BY <1>1
    <2> HIDE DEF xs, ys, zs, n
    <2> QED BY <1>3, <1>5, <2>1
  <1>9. zs \in [1 .. n -> {0}]
    OBVIOUS
  <1> HIDE DEF xs, ys, zs
  <1>10. Value(xs) = c_ * Value(x)
    <2>1. xs \in [1 .. n -> Int] /\ ys \in [1 .. n -> Int] /\ zs \in [1 .. n -> Int] /\ c_ \in Int
      <3> HIDE DEF n
      <3> QED BY <1>2, <1>7, <1>9 DEF Limbs
    <2>2. Value(xs) = Value(zs) + c_ * Value(ys)
      <3> HIDE DEF n
      <3> QED BY <1>1, <1>8, <2>1, ValueIsLinear
    <2>3. Value(zs) = 0
      <3> HIDE DEF n
      <3> QED BY <1>1, <1>9, ValueOfZeros
    <2>4. Value(x) \in Int
      BY <1>1, ValueBounded
    <2> QED BY <1>1, <1>2, <2>2, <2>3, <2>4
  <1>11. Value(xs) \in 0 .. Power(LimbBase, n) - 1
    <2> DEFINE v == Value(x)  w == Power(LimbBase, LIMBS)
    <2>1. v \in 0 .. w - 1 /\ w \in Nat \ {0}
      <3>1. v \in 0 .. Power(LimbBase, h) - 1
        BY <1>1, ValueBounded
      <3>2. Power(LimbBase, h) <= w /\ w \in Nat \ {0}
        <4> DEFINE d == LIMBS - h
        <4>1. d \in Nat /\ h + d = LIMBS
          BY <1>1
        <4> HIDE DEF d
        <4>2. w = Power(LimbBase, h) * Power(LimbBase, d)
          BY <1>1, <4>1, BaseIsPositive, PowerAdds
        <4>3. Power(LimbBase, h) \in Nat \ {0} /\ Power(LimbBase, d) \in Nat \ {0}
          BY <1>1, <4>1, BaseIsPositive, PowerIsPositive
        <4> DEFINE s == Power(LimbBase, h)  t == Power(LimbBase, d)
        <4> HIDE DEF s, t, w
        <4>4. s * 1 <= s * t /\ s * t \in Nat \ {0}
          BY <4>3, ScaleLe DEF s, t
        <4> QED BY <4>2, <4>3, <4>4 DEF s, t
      <3>3. Power(LimbBase, h) \in Nat
        BY <1>1, BaseIsPositive, PowerIsPositive
      <3> HIDE DEF v, w
      <3> QED BY <3>1, <3>2, <3>3
    <2>2. Power(LimbBase, n) = b * w
      BY <1>1, BaseIsPositive, PowerStep
    <2> HIDE DEF v, w, b
    <2>3. c_ * v \in Nat /\ c_ * v <= b * (w - 1)
      BY <1>1, <2>1, MulLe
    <2>4. b * (w - 1) = b * w - b /\ b * w \in Int
      BY <1>1, <2>1
    <2>5. c_ * v \in 0 .. b * w - 1
      BY <1>1, <2>3, <2>4
    <2> QED BY <1>10, <2>2, <2>5 DEF v
  <1>12. CarryPass(xs, 0).limbs \in Limbs(n) /\ Value(CarryPass(xs, 0).limbs) = Value(xs)
    <2>1. c_ \in Nat
      BY <1>1
    <2> HIDE DEF n
    <2> QED BY <1>1, <1>6, <1>7, <1>11, <2>1, NoCarryLeft
  <1> QED BY <1>10, <1>12 DEF xs

\* A sum that fits one limb of headroom.
LEMMA AddPlusNAdds ==
    ASSUME NEW lo \in Limbs(LIMBS), NEW hi \in Limbs(LIMBS + 1),
           Value(lo) + Value(hi) < Power(LimbBase, LIMBS + 1)
    PROVE  AddPlusN(lo, hi) \in Limbs(LIMBS + 1) /\ Value(AddPlusN(lo, hi)) = Value(lo) + Value(hi)
  <1> DEFINE n == LIMBS + 1  b == LimbBase
             xs == [k \in 1 .. n |-> Felt(Pad(lo, k) + Pad(hi, k))]
             ys == [k \in 1 .. n |-> Pad(lo, k)]  zs == [k \in 1 .. n |-> Pad(hi, k)]
  <1>1. LIMBS \in Nat /\ n \in Nat /\ LIMBS <= n /\ n <= n /\ b \in Nat /\ b >= 3
    BY BaseIsPositive
  <1>2. ys \in Limbs(n) /\ Value(ys) = Value(lo) /\ zs \in Limbs(n) /\ Value(zs) = Value(hi)
    <2>1. hi \in Limbs(n)
      OBVIOUS
    <2> HIDE DEF n
    <2>2. ys \in Limbs(n) /\ Value(ys) = Value(lo)
      BY <1>1, PadKeeps
    <2>3. zs \in Limbs(n) /\ Value(zs) = Value(hi)
      BY <1>1, <2>1, PadKeeps
    <2> QED BY <2>2, <2>3
  <1>3. \A k \in 1 .. n : xs[k] = Felt(ys[k] + zs[k]) /\ ys[k] \in 0 .. b - 1 /\ zs[k] \in 0 .. b - 1
    BY <1>2 DEF Limbs
  <1>4. xs = [k \in 1 .. n |-> xs[k]]
    OBVIOUS
  <1> HIDE DEF xs, ys, zs
  <1>5. \A k \in 1 .. n : /\ xs[k] = ys[k] + zs[k] /\ xs[k] \in Nat
                          /\ xs[k] + 1 < FieldP /\ xs[k] + 1 < LimbBase * (1 + 1)
    <2>1. ASSUME NEW k \in 1 .. n
          PROVE  /\ xs[k] = ys[k] + zs[k] /\ xs[k] \in Nat
                 /\ xs[k] + 1 < FieldP /\ xs[k] + 1 < LimbBase * (1 + 1)
      <3> DEFINE s == ys[k] + zs[k]
      <3>1. s \in Nat /\ s <= 2 * LimbBase - 2
        BY <1>1, <1>3
      <3>2. xs[k] = Felt(s)
        BY <1>3
      <3> HIDE DEF s
      <3>3. s \in 0 .. FieldP - 1
        BY <1>1, <3>1, RoomForTwo, RoomInFelt
      <3>4. xs[k] = s
        BY <3>2, <3>3, SmallFelt
      <3> QED BY <1>1, <3>1, <3>4, RoomForTwo, RoomInFelt DEF s
    <2> HIDE DEF n
    <2> QED BY <2>1
  <1>6. xs \in [1 .. n -> Nat]
    <2> HIDE DEF n
    <2> QED BY <1>4, <1>5
  <1>7. Value(xs) = Value(lo) + Value(hi)
    <2>1. xs \in [1 .. n -> Int] /\ ys \in [1 .. n -> Int] /\ zs \in [1 .. n -> Int]
      <3> HIDE DEF n
      <3> QED BY <1>2, <1>6 DEF Limbs
    <2>2. \A k \in 1 .. n : xs[k] = ys[k] + zs[k]
      BY <1>5
    <2> HIDE DEF n
    <2>3. Value(xs) = Value(ys) + Value(zs)
      BY <1>1, <2>1, <2>2, ValueAdds
    <2> QED BY <1>2, <2>3
  <1>8. Value(xs) \in 0 .. Power(LimbBase, n) - 1
    <2>1. Value(lo) \in Nat
      BY <1>1, ValueBounded
    <2>2. Value(hi) \in Nat
      BY <1>1, ValueBounded
    <2>3. Power(LimbBase, n) \in Nat
      <3> HIDE DEF n
      <3> QED BY <1>1, BaseIsPositive, PowerIsPositive
    <2>4. Value(lo) + Value(hi) < Power(LimbBase, n)
      OBVIOUS
    <2> HIDE DEF n
    <2> QED BY <1>7, <2>1, <2>2, <2>3, <2>4
  <1>9. CarryPass(xs, 0).limbs \in Limbs(n) /\ Value(CarryPass(xs, 0).limbs) = Value(xs)
    <2>1. 1 \in Nat /\ \A k \in 1 .. n : xs[k] + 1 < FieldP /\ xs[k] + 1 < LimbBase * (1 + 1)
      BY <1>5
    <2> HIDE DEF n
    <2> QED BY <1>1, <1>6, <1>8, <2>1, NoCarryLeft
  <1>10. AddPlusN(lo, hi) = CarryPass(xs, 0).limbs
    BY DEF AddPlusN, xs
  <1> QED BY <1>7, <1>9, <1>10

\* A Solinas round adds c times the quotient by 2^256 to the remainder.
LEMMA RoundByLimbs ==
    ASSUME NEW h \in 0 .. LIMBS, NEW x \in Limbs(LIMBS + h), NEW c_ \in 1 .. LimbBase - 1
    PROVE  /\ SolinasRound(x, c_) \in Limbs(LIMBS + 1)
           /\ Value(SolinasRound(x, c_)) = (Value(x) % R) + c_ * (Value(x) \div R)
  <1> DEFINE lo == Low(x)  hi == High(x)  b == LimbBase
             y == CarryPass([k \in 1 .. LIMBS + 1 |-> Felt(Pad(hi, k) * c_)], 0).limbs
             v == Value(lo)  u == Value(hi)
  <1>1. LIMBS \in Nat /\ h \in Nat /\ h <= LIMBS /\ b \in Nat /\ b >= 3 /\ R \in Nat \ {0}
    BY BaseIsPositive, RIsPositive
  <1>2. /\ lo \in Limbs(LIMBS) /\ hi \in Limbs(h) /\ v = Value(x) % R /\ u = Value(x) \div R
        /\ v \in 0 .. R - 1
    BY <1>1, LowAndHigh
  <1>3. y \in Limbs(LIMBS + 1) /\ Value(y) = c_ * u
    <2> HIDE DEF hi
    <2> QED BY <1>2, TimesSmall
  <1>4. u \in 0 .. R - 1
    <2> DEFINE z1 == [k \in 1 .. LIMBS |-> Pad(hi, k)]
    <2>1. z1 \in Limbs(LIMBS) /\ Value(z1) = u
      <3> HIDE DEF hi
      <3> QED BY <1>1, <1>2, PadKeeps
    <2> HIDE DEF z1, u
    <2>2. Value(z1) \in 0 .. R - 1
      BY <1>1, <2>1, ValueBounded DEF R
    <2> QED BY <2>1, <2>2
  <1>5. Power(LimbBase, LIMBS + 1) = b * R
    BY <1>1, BaseIsPositive, PowerStep DEF R
  <1>6. v + c_ * u < b * R
    <2>0. c_ \in 0 .. b - 1
      OBVIOUS
    <2> DEFINE rr == R  cu == c_ * u  br == b * R
    <2> HIDE DEF v, u, b
    <2>1. c_ * u \in Nat /\ c_ * u <= (b - 1) * (R - 1)
      BY <1>1, <1>4, <2>0, MulLe
    <2>2. (b - 1) * (R - 1) = ((b * R - R) - b) + 1 /\ b * R \in Int
      BY <1>1
    <2>3. cu \in Nat /\ br \in Int /\ cu <= ((br - R) - b) + 1
      BY <2>1, <2>2
    <2> HIDE DEF cu, br
    <2>4. v + cu < br
      BY <1>1, <1>2, <2>3
    <2> QED BY <2>4 DEF cu, br
  <1>7. AddPlusN(lo, y) \in Limbs(LIMBS + 1) /\ Value(AddPlusN(lo, y)) = v + Value(y)
    <2>1. Value(lo) + Value(y) < Power(LimbBase, LIMBS + 1)
      BY <1>3, <1>5, <1>6
    <2> HIDE DEF lo, y
    <2> QED BY <1>2, <1>3, <2>1, AddPlusNAdds
  <1>8. SolinasRound(x, c_) = AddPlusN(lo, y)
    BY DEF SolinasRound
  <1> HIDE DEF y, lo, v, u
  <1> QED BY <1>2, <1>3, <1>7, <1>8

\* A round, on values.
Folded(v, rr, c_) == (v % rr) + c_ * (v \div rr)

\* It keeps the residue modulo rr - c, and gets smaller.
LEMMA FoldKeeps ==
    ASSUME NEW rr \in Nat \ {0}, NEW c_ \in Nat, NEW v \in Nat
    PROVE  /\ v \div rr \in Nat /\ v % rr \in 0 .. rr - 1
           /\ v = rr * (v \div rr) + (v % rr)
           /\ v = Folded(v, rr, c_) + (rr - c_) * (v \div rr) /\ Folded(v, rr, c_) \in Nat
  <1> DEFINE h == v \div rr  l == v % rr
  <1>1. h \in Nat /\ l \in 0 .. rr - 1 /\ v = rr * h + l
    BY DivModNat
  <1>2. Folded(v, rr, c_) = l + c_ * h
    BY DEF Folded
  <1> HIDE DEF h, l
  <1>3. l + c_ * h \in Nat /\ rr * h + l = (l + c_ * h) + (rr - c_) * h
    BY <1>1
  <1> QED BY <1>1, <1>2, <1>3 DEF h, l

\* A quotient is below every bound of the number.
LEMMA QuotientBelow ==
    ASSUME NEW rr \in Nat \ {0}, NEW h \in Nat, NEW l \in Nat, NEW t \in Nat, rr * h + l < rr * t
    PROVE  h < t
  <1>1. rr * h \in Int /\ rr * t \in Int
    OBVIOUS
  <1>2. rr * h < rr * t
    BY <1>1
  <1> QED BY <1>2, CancelLt

\* A modulus and its distance from rr.
Near(rr, c_, p) == rr = p + c_ /\ c_ * c_ + c_ <= rr

\* Three rounds leave less than 2^256, and one subtraction the residue.
LEMMA RoundsSettle ==
    ASSUME NEW rr \in Nat \ {0}, NEW c_ \in Nat \ {0}, NEW p \in Nat, Near(rr, c_, p),
           NEW v \in 0 .. rr * rr - 1
    PROVE  LET r3 == Folded(Folded(Folded(v, rr, c_), rr, c_), rr, c_)
           IN  r3 \in 0 .. rr - 1 /\ SubIfGe(r3, p) = v % p /\ v % p \in 0 .. p - 1
  <1> DEFINE r1 == Folded(v, rr, c_)  r2 == Folded(r1, rr, c_)  r3 == Folded(r2, rr, c_)
             cc == c_ * c_
             h == v \div rr  h1 == r1 \div rr  h2 == r2 \div rr
             l == v % rr  l1 == r1 % rr  l2 == r2 % rr
  <1>0. v \in Nat /\ v < rr * rr /\ c_ \in Nat /\ rr - c_ = p
    <2>1. rr * rr \in Nat
      OBVIOUS
    <2> QED BY <2>1 DEF Near
  <1>1. /\ h \in Nat /\ l \in 0 .. rr - 1
        /\ v = rr * h + l /\ r1 = l + c_ * h /\ v = r1 + p * h /\ r1 \in Nat
    <2>0. v \in Nat /\ c_ \in Nat
      BY <1>0
    <2>1. /\ h \in Nat /\ l \in 0 .. rr - 1 /\ v = rr * h + l
          /\ v = r1 + (rr - c_) * h /\ r1 \in Nat
      BY <2>0, FoldKeeps
    <2>2. r1 = l + c_ * h
      BY DEF Folded
    <2> QED BY <1>0, <2>1, <2>2
  <1> HIDE DEF h, l, r1
  <1>2. /\ h1 \in Nat /\ l1 \in 0 .. rr - 1
        /\ r1 = rr * h1 + l1 /\ r2 = l1 + c_ * h1 /\ r1 = r2 + p * h1 /\ r2 \in Nat
    <2>0. r1 \in Nat /\ c_ \in Nat
      BY <1>0, <1>1
    <2>1. /\ h1 \in Nat /\ l1 \in 0 .. rr - 1 /\ r1 = rr * h1 + l1
          /\ r1 = r2 + (rr - c_) * h1 /\ r2 \in Nat
      BY <2>0, FoldKeeps
    <2>2. r2 = l1 + c_ * h1
      BY DEF Folded
    <2> QED BY <1>0, <2>1, <2>2
  <1> HIDE DEF h1, l1, r2
  <1>3. /\ h2 \in Nat /\ l2 \in 0 .. rr - 1
        /\ r2 = rr * h2 + l2 /\ r3 = l2 + c_ * h2 /\ r2 = r3 + p * h2 /\ r3 \in Nat
    <2>0. r2 \in Nat /\ c_ \in Nat
      BY <1>0, <1>2
    <2>1. /\ h2 \in Nat /\ l2 \in 0 .. rr - 1 /\ r2 = rr * h2 + l2
          /\ r2 = r3 + (rr - c_) * h2 /\ r3 \in Nat
      BY <2>0, FoldKeeps
    <2>2. r3 = l2 + c_ * h2
      BY DEF Folded
    <2> QED BY <1>0, <2>1, <2>2
  <1> HIDE DEF h2, l2, r3
  <1>4. cc \in Nat /\ c_ <= cc /\ cc + c_ <= rr
    <2>1. c_ * 1 <= c_ * c_
      BY ScaleLe
    <2> QED BY <2>1 DEF Near
  <1>5. h < rr
    <2>1. rr * h + l < rr * rr
      BY <1>0, <1>1
    <2> QED BY <1>1, <2>1, QuotientBelow
  <1>6. h1 <= c_
    <2>1. c_ * h <= c_ * (rr - 1)
      BY <1>0, <1>1, <1>5, ScaleLe
    <2>2. c_ * (rr - 1) = rr * c_ - c_ /\ rr * (c_ + 1) = rr * c_ + rr /\ rr * c_ \in Int
      OBVIOUS
    <2>3. c_ * h \in Int
      BY <1>1
    <2> DEFINE w == rr * (c_ + 1)  ch == c_ * h  rc == rr * c_
    <2>4. w = rc + rr /\ ch <= rc - c_ /\ rc \in Int /\ ch \in Int /\ r1 = l + ch
      BY <1>1, <2>1, <2>2, <2>3
    <2> HIDE DEF w, ch, rc
    <2>5. r1 < w
      BY <1>1, <2>4
    <2>6. rr * h1 + l1 < rr * (c_ + 1)
      BY <1>2, <2>5 DEF w
    <2>7. h1 < c_ + 1
      <3> DEFINE t == c_ + 1
      <3>1. t \in Nat /\ rr * h1 + l1 < rr * t /\ l1 \in Nat
        BY <1>2, <2>6
      <3> HIDE DEF t
      <3>2. h1 < t
        BY <1>2, <3>1, QuotientBelow
      <3> QED BY <3>2 DEF t
    <2> QED BY <1>2, <2>7
  <1>7. r2 <= (rr - 1) + cc
    <2>1. c_ * h1 <= c_ * c_ /\ c_ * h1 \in Int
      BY <1>0, <1>2, <1>6, ScaleLe
    <2> DEFINE ch == c_ * h1
    <2>2. ch <= cc /\ ch \in Int /\ r2 = l1 + ch
      BY <1>2, <2>1
    <2> HIDE DEF ch, cc
    <2> QED BY <1>2, <1>4, <2>2
  <1> HIDE DEF cc
  <1>8. h2 \in {0, 1}
    <2>1. r2 < rr * 2
      BY <1>2, <1>4, <1>7
    <2>2. rr * h2 + l2 < rr * 2 /\ l2 \in Nat /\ 2 \in Nat
      BY <1>3, <2>1
    <2>3. h2 < 2
      BY <1>3, <2>2, QuotientBelow
    <2> QED BY <1>3, <2>3
  <1>9. r3 < rr
    <2>1. CASE h2 = 0
      <3>1. c_ * h2 = 0
        BY <2>1
      <3> QED BY <1>3, <3>1
    <2>2. CASE h2 = 1
      <3>1. c_ * h2 = c_ /\ rr * h2 = rr
        BY <2>2
      <3>2. l2 <= cc - 1
        BY <1>3, <1>4, <1>7, <3>1
      <3> QED BY <1>3, <1>4, <3>1, <3>2
    <2> QED BY <1>8, <2>1, <2>2
  <1>10. c_ <= p /\ p \in Nat \ {0} /\ r3 < 2 * p
    BY <1>0, <1>3, <1>4, <1>9
  <1>11. \E k \in Int : v = k * p + r3
    <2> DEFINE k == h + (h1 + h2)
    <2>1. v = ((r3 + p * h2) + p * h1) + p * h
      BY <1>1, <1>2, <1>3
    <2>2. ((r3 + p * h2) + p * h1) + p * h = k * p + r3
      BY <1>1, <1>2, <1>3
    <2>3. k \in Int
      BY <1>1, <1>2, <1>3
    <2> HIDE DEF k
    <2> QED BY <2>1, <2>2, <2>3
  <1>12. PICK k \in Int : v = k * p + r3
    BY <1>11
  <1>13. SubIfGe(r3, p) = v % p
    <2>1. CASE r3 < p
      <3>1. r3 \in 0 .. p - 1 /\ v \in Nat
        BY <1>0, <1>3, <1>10, <2>1
      <3>2. v % p = r3
        BY <1>10, <1>12, <3>1, ModUnique
      <3> QED BY <1>10, <2>1, <3>1, <3>2 DEF SubIfGe
    <2>2. CASE r3 >= p
      <3> DEFINE j == k + 1  y == r3 - p
      <3>1. v = j * p + y
        BY <1>3, <1>12
      <3>2. j \in Int /\ y \in 0 .. p - 1
        BY <1>3, <1>10, <2>2
      <3> HIDE DEF j, y
      <3>3. v % p = y
        BY <1>0, <1>10, <3>1, <3>2, ModUnique
      <3> QED BY <2>2, <3>3 DEF SubIfGe, y
    <2> QED BY <1>3, <2>1, <2>2
  <1>14. v % p \in 0 .. p - 1
    BY <1>0, <1>10, DivModNat
  <1> QED BY <1>3, <1>9, <1>13, <1>14 DEF r3, r2, r1

\* The subtraction after the rounds.
LEMMA SubtractPSettles ==
    ASSUME NEW x \in Limbs(LIMBS + 1), NEW p \in 0 .. R - 1, Value(x) < R
    PROVE  /\ SubtractP(x, p) \in Limbs(LIMBS)
           /\ Value(SubtractP(x, p)) = SubIfGe(Value(x), p)
  <1> DEFINE lo == Low(x)  top == x[LIMBS + 1]  s == SubWithBorrow(lo, Const(p), 0)
             low == NotBit(LtBool(lo, Const(p)))  need == OrBit(top, low)  v == Value(lo)
  <1>1. LIMBS \in Nat /\ R \in Nat \ {0} /\ p \in Nat /\ LimbBase \in Nat
    BY BaseIsPositive, RIsPositive
  <1>2. lo \in Limbs(LIMBS) /\ v \in 0 .. R - 1 /\ top \in 0 .. LimbBase - 1 /\ Value(x) = v + R * top
    BY TopLimb
  <1>3. top = 0 /\ Value(x) = v
    <2>0. v + R * top < R
      BY <1>2
    <2> HIDE DEF top, v
    <2>1. CASE top >= 1
      <3>1. R * 1 <= R * top /\ R * top \in Int
        BY <1>1, <1>2, <2>1, ScaleLe
      <3> DEFINE rt == R * top
      <3>2. R <= rt /\ rt \in Int /\ v + rt < R
        BY <1>1, <2>0, <3>1
      <3> HIDE DEF rt
      <3> QED BY <1>1, <1>2, <3>2
    <2>2. top = 0
      BY <1>1, <1>2, <2>1
    <2> QED BY <1>1, <1>2, <2>2
  <1>4. Const(p) \in Limbs(LIMBS) /\ Value(Const(p)) = p
    BY ValueOfConst
  <1>5. /\ s.limbs \in Limbs(LIMBS) /\ s.borrow \in {0, 1}
        /\ Value(s.limbs) = (v - p) + s.borrow * R
        /\ s.borrow = IF v < p THEN 1 ELSE 0
    <2> HIDE DEF lo
    <2> QED BY <1>1, <1>2, <1>4, SubWithBorrowSubtracts DEF R
  <1>6. low = (IF v < p THEN 0 ELSE 1) /\ low \in {0, 1}
    <2>1. LtBool(lo, Const(p)) = IF v < p THEN 1 ELSE 0
      <3> HIDE DEF lo
      <3> QED BY <1>1, <1>2, <1>4, LtBoolCompares
    <2>2. NotBit(1) = 0 /\ NotBit(0) = 1
      BY BitOperations
    <2> HIDE DEF v, lo
    <2> QED BY <2>1, <2>2
  <1>7. need = low
    <2>1. 0 \in {0, 1}
      OBVIOUS
    <2> HIDE DEF low, top
    <2>2. OrBit(0, low) = IF low = 1 THEN 1 ELSE 0
      BY <1>6, <2>1, BitOperations
    <2> QED BY <1>3, <1>6, <2>2
  <1>8. SubtractP(x, p) = SelectLimbs(need, s.limbs, lo)
    BY DEF SubtractP
  <1> HIDE DEF need, low
  <1>9. SubtractP(x, p) = IF low = 1 THEN s.limbs ELSE lo
    <2> HIDE DEF s, lo
    <2> QED BY <1>2, <1>5, <1>6, <1>7, <1>8, SelectsLimbs
  <1> HIDE DEF s, lo, top, v
  <1>10. CASE v < p
    <2>1. SubtractP(x, p) = lo
      BY <1>6, <1>9, <1>10
    <2>2. Value(x) = Value(lo) /\ ~ (Value(x) >= p)
      BY <1>1, <1>2, <1>3, <1>10 DEF v
    <2> QED BY <1>2, <2>1, <2>2 DEF SubIfGe
  <1>11. CASE ~ (v < p)
    <2>1. SubtractP(x, p) = s.limbs
      BY <1>6, <1>9, <1>11
    <2>2. Value(s.limbs) = v - p
      BY <1>1, <1>2, <1>5, <1>11
    <2>3. Value(x) >= p
      BY <1>1, <1>2, <1>3, <1>11
    <2> QED BY <1>3, <1>5, <2>1, <2>2, <2>3 DEF SubIfGe
  <1> QED BY <1>10, <1>11

\* ecdsa_secp256k1_mul_mod_p, by Solinas: the operands need not be reduced.
LEMMA MulSolinasExact ==
    ASSUME NEW l \in Limbs(LIMBS), NEW r \in Limbs(LIMBS), NEW p, SolinasModulus(p)
    PROVE  /\ MulSolinas(l, r, p) \in Limbs(LIMBS)
           /\ Value(MulSolinas(l, r, p)) = (Value(l) * Value(r)) % p
  <1> DEFINE w == MulWide(l, r)  a == Value(l)  b == Value(r)  d == R - p
             x1 == SolinasRound(w, d)  x2 == SolinasRound(x1, d)  x3 == SolinasRound(x2, d)
             v == a * b  r1 == Folded(v, R, d)  r2 == Folded(r1, R, d)  r3 == Folded(r2, R, d)
  <1>1. /\ LIMBS \in Nat /\ LIMBS \in 0 .. LIMBS /\ 1 \in 0 .. LIMBS /\ R \in Nat \ {0}
        /\ p \in Nat /\ d \in 1 .. LimbBase - 1 /\ LimbBase \in Nat
    BY BaseIsPositive, RIsPositive DEF SolinasModulus
  <1>2. d \in Nat \ {0} /\ Near(R, d, p) /\ p \in 0 .. R - 1
    <2>1. d * d + d <= R
      BY DEF SolinasModulus
    <2>2. d \in Nat \ {0} /\ R = p + d
      BY <1>1
    <2>3. Near(R, d, p)
      <3> HIDE DEF d
      <3> QED BY <2>1, <2>2 DEF Near
    <2>4. p \in 0 .. R - 1
      <3> HIDE DEF d
      <3> QED BY <1>1, <2>2
    <2> QED BY <2>2, <2>3, <2>4
  <1>3. a \in 0 .. R - 1 /\ b \in 0 .. R - 1
    BY <1>1, ValueBounded DEF R
  <1>4. v \in 0 .. R * R - 1
    <2> HIDE DEF a, b
    <2>1. a * b \in Nat /\ a * b <= (R - 1) * (R - 1)
      BY <1>1, <1>3, MulLe
    <2>2. (R - 1) * (R - 1) <= R * R - 1 /\ R * R \in Int
      BY <1>1
    <2>3. (R - 1) * (R - 1) \in Int
      BY <1>1
    <2> QED BY <2>1, <2>2, <2>3
  <1>5. w \in Limbs(LIMBS + LIMBS) /\ Value(w) = v
    <2>1. w \in Limbs(2 * LIMBS) /\ Value(w) = v
      BY MulWideMultiplies
    <2>2. 2 * LIMBS = LIMBS + LIMBS
      BY <1>1
    <2> HIDE DEF w, v
    <2> QED BY <2>1, <2>2
  <1> HIDE DEF d, w, v
  <1>6. x1 \in Limbs(LIMBS + 1) /\ Value(x1) = r1
    BY <1>1, <1>5, RoundByLimbs DEF Folded
  <1> HIDE DEF x1, r1
  <1>7. x2 \in Limbs(LIMBS + 1) /\ Value(x2) = r2
    BY <1>1, <1>6, RoundByLimbs DEF Folded
  <1> HIDE DEF x2, r2
  <1>8. x3 \in Limbs(LIMBS + 1) /\ Value(x3) = r3
    BY <1>1, <1>7, RoundByLimbs DEF Folded
  <1>9. r3 \in 0 .. R - 1 /\ SubIfGe(r3, p) = v % p
    BY <1>1, <1>2, <1>4, RoundsSettle DEF r1, r2
  <1> HIDE DEF x3, r3
  <1>10. SubtractP(x3, p) \in Limbs(LIMBS) /\ Value(SubtractP(x3, p)) = SubIfGe(r3, p)
    <2>1. Value(x3) < R
      BY <1>1, <1>8, <1>9
    <2> QED BY <1>2, <1>8, <2>1, SubtractPSettles
  <1>11. MulSolinas(l, r, p) = SubtractP(x3, p)
    BY DEF MulSolinas, ReduceSolinas, x1, x2, x3, w, d
  <1> QED BY <1>9, <1>10, <1>11 DEF v

---------------------------------------------------------------------------
\* The multiplication helpers

\* Every modulus is reduced by the reduction made for it.
LEMMA MulModExact ==
    ASSUME call \in Calls, NEW m \in {"p", "n"}, NEW l \in Limbs(LIMBS), NEW r \in Limbs(LIMBS),
           Value(l) < Modulus(m) \/ Value(r) < Modulus(m)
    PROVE  /\ MulMod(m, l, r) \in Limbs(LIMBS)
           /\ Value(MulMod(m, l, r)) = (Value(l) * Value(r)) % Modulus(m)
  <1>1. /\ BarrettModulus(c.n)
        /\ IF c.a = 0 THEN SolinasModulus(c.p) ELSE BarrettModulus(c.p)
    BY CurvesAssumption DEF c, Curves
  <1>2. CASE m = "p" /\ c.a = 0
    <2>1. MulMod(m, l, r) = MulSolinas(l, r, c.p) /\ Modulus(m) = c.p
      BY <1>2 DEF MulMod, MulP, Modulus
    <2>2. SolinasModulus(c.p)
      BY <1>1, <1>2
    <2> QED BY <2>1, <2>2, MulSolinasExact
  <1>3. CASE m = "p" /\ c.a # 0
    <2>1. MulMod(m, l, r) = MulBarrett(l, r, c.p) /\ Modulus(m) = c.p
      BY <1>3 DEF MulMod, MulP, Modulus
    <2>2. BarrettModulus(c.p)
      BY <1>1, <1>3
    <2> QED BY <2>1, <2>2, MulBarrettExact
  <1>4. CASE m = "n"
    <2>1. MulMod(m, l, r) = MulBarrett(l, r, c.n) /\ Modulus(m) = c.n
      BY <1>4 DEF MulMod, MulN, Modulus
    <2> QED BY <1>1, <2>1, MulBarrettExact
  <1> QED BY <1>2, <1>3, <1>4

\* A call of a multiplication helper takes one step, and returns what MulExact says.
MulInv ==
    /\ call \in Calls
    /\ call.fn = "mul_mod" => pc \in {"mul_mod", "done"}
    /\ MulExact

\* It holds of every call that starts.
LEMMA MulInitially == Init => MulInv
  <1> SUFFICES ASSUME Init PROVE MulInv
    OBVIOUS
  <1>1. call \in Calls /\ pc = call.fn
    BY DEF Init
  <1> QED BY <1>1 DEF MulInv, MulExact

\* It is kept by every step.
LEMMA MulStep == MulInv /\ [Next]_vars => MulInv'
  <1> SUFFICES ASSUME MulInv, [Next]_vars PROVE MulInv'
    OBVIOUS
  <1> DEFINE mul == call.fn = "mul_mod"
  <1>1. call' = call
    BY DEF Next, MulModHelper, Skip, StartVerify, InverseBit, SInverted, GpInverted, Joint,
           NextLimb, JointDone, RInverted, Done, vars
  <1>2. CASE ~ mul
    BY <1>1, <1>2 DEF MulInv, MulExact
  <1>3. CASE mul /\ MulModHelper
    <2>1. pc' = "done" /\ result' = MulMod(call.modulus, call.a, call.b)
      BY <1>3 DEF MulModHelper
    <2>2. call.modulus \in {"p", "n"} /\ call.a \in Limbs(LIMBS) /\ call.b \in Limbs(LIMBS)
      BY <1>3, CallsAssumption DEF MulInv
    <2>3. MulExact'
      <3> DEFINE l == call.a  r == call.b  m == call.modulus
      <3>1. m' = m /\ l' = l /\ r' = r /\ Modulus(m)' = Modulus(m)
        BY <1>1 DEF Modulus, c
      <3>2. (Value(l) < Modulus(m) \/ Value(r) < Modulus(m))
              => Value(MulMod(m, l, r)) = (Value(l) * Value(r)) % Modulus(m)
        <4> HIDE DEF l, r, m
        <4> QED BY <2>2, MulModExact DEF l, r, m, MulInv
      <3>3. MulExact' = ((call'.fn = "mul_mod" /\ pc' = "done") =>
                           ((Value(l') < Modulus(m)' \/ Value(r') < Modulus(m)')
                              => Value(result') = (Value(l') * Value(r')) % Modulus(m)'))
        BY DEF MulExact
      <3> QED BY <2>1, <3>1, <3>2, <3>3
    <2> QED BY <1>1, <2>1, <2>3 DEF MulInv
  <1>4. CASE mul /\ ~ MulModHelper
    <2>1. pc \in {"mul_mod", "done"}
      BY <1>4 DEF MulInv
    <2>2. Done \/ UNCHANGED vars
      BY <1>4, <2>1 DEF Next, Skip, StartVerify, InverseBit, Inverted, SInverted, GpInverted, Joint,
                        NextLimb, JointDone, RInverted, Done, vars
    <2>3. pc' = pc /\ result' = result
      BY <2>2 DEF Done, vars
    <2> QED BY <1>1, <2>3 DEF MulInv, MulExact, Modulus, c
  <1> QED BY <1>2, <1>3, <1>4

\* The multiplication helpers are exact whenever one operand is reduced, for every number of
\* limbs, base and field with room for a column, and for all moduli that the reductions are
\* made for: no pass over the limbs loses a carry, the estimate of the quotient fits, and
\* the subtractions settle what is left.
THEOREM MultiplicationExact == Spec => []MulExact
  <1>1. Init => MulInv
    BY MulInitially
  <1>2. MulInv /\ [Next]_vars => MulInv'
    BY MulStep
  <1>3. MulInv => MulExact
    BY DEF MulInv
  <1> QED BY <1>1, <1>2, <1>3, PTL DEF Spec
===========================================================================

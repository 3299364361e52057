----------------------------- MODULE PrimeField -----------------------------
(* The field of the circuits: the integers modulo a prime.  In the program   *)
(* this is BN254's scalar field (acir::FieldElement and LLZK's !felt.type);  *)
(* the code uses nothing of it but the operations below.                     *)
EXTENDS Integers, SequencesExt

CONSTANT P  \* the modulus

ASSUME PrimeAssumption ==
    P \in Nat \ {0, 1} /\ \A a, b \in 1..(P - 1) : (a * b) % P # 0

F == 0..(P - 1)

Plus(a, b)  == (a + b) % P
Minus(a, b) == (a - b) % P
Times(a, b) == (a * b) % P
Neg(a)      == (-a) % P

\* felt.div; the code divides by runtime values, and zero has no inverse.
Div(a, b)   == CHOOSE q \in F : Times(q, b) = a

\* A chain of felt.add, from zero.
Sum(xs) ==
    LET sum[k \in 0..Len(xs)] == IF k = 0 THEN 0 ELSE Plus(sum[k - 1], xs[k])
    IN  sum[Len(xs)]

\* The integer 2^n, and the felt.
TwoTo(n) ==
    LET power[k \in 0..n] == IF k = 0 THEN 1 ELSE 2 * power[k - 1]
    IN  power[n]
Pow2(n) == TwoTo(n) % P

\* AcirField::num_bits and AcirField::max_num_bits.
NumBits(a) == CHOOSE n \in 0..P : a < TwoTo(n) /\ \A m \in 0..(n - 1) : a >= TwoTo(m)
MaxBits    == NumBits(P - 1)
=============================================================================

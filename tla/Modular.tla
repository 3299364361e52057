------------------------------ MODULE Modular ------------------------------
(***************************************************************************)
(* Modular arithmetic on limb vectors, blackboxes/ecdsa/modular.rs.        *)
(* Multiplication is emitted once per modulus as a helper function:        *)
(* secp256k1's base field is reduced by Solinas rounds (p = 2^256 - c),    *)
(* the other three moduli by a simplified Barrett reduction.               *)
(***************************************************************************)
EXTENDS Limbs

R == Power(LimbBase, LIMBS)  \* 2^256

\* What append_mul_mod_n_barrett relies on: mu has one bit above its LIMBS limbs, and
\* R^2 mod n is small enough for two subtractions.  The second is said nowhere; it fails
\* for n = 41 and R = 64.
SmallResidue(n)   == ((R * R) % n) + R <= 2 * n
BarrettModulus(n) == n \in Nat /\ n < R /\ R < 2 * n /\ SmallResidue(n)

\* What append_reduce_mod_p_secp256k1 relies on: p = R - c, and c is small enough for
\* three rounds.
SolinasModulus(p) ==
    LET c == R - p
    IN  p \in Nat /\ c \in 1 .. LimbBase - 1 /\ c * c + c <= R

Pad(limbs, k) == IF k <= Len(limbs) THEN limbs[k] ELSE 0

\* lo + hi with one limb of headroom (append_add_4_plus_n).
AddPlusN(lo, hi) ==
    CarryPass([k \in 1 .. LIMBS + 1 |-> Felt(Pad(lo, k) + Pad(hi, k))], 0).limbs

\* lo + hi * c, for the value lo + hi * 2^256.
SolinasRound(x, c) ==
    AddPlusN(Low(x), CarryPass([k \in 1 .. LIMBS + 1 |-> Felt(Pad(High(x), k) * c)], 0).limbs)

\* The one conditional subtraction of p after the rounds.
SubtractP(r3, p) ==
    SelectLimbs(OrBit(r3[LIMBS + 1], NotBit(LtBool(Low(r3), Const(p)))),
                SubWithBorrow(Low(r3), Const(p), 0).limbs, Low(r3))

\* Three rounds, then the subtraction (append_reduce_mod_p_secp256k1).
ReduceSolinas(x, p) ==
    LET c == R - p
    IN  SubtractP(SolinasRound(SolinasRound(SolinasRound(x, c), c), c), p)

MulSolinas(lhs, rhs, p) == ReduceSolinas(MulWide(lhs, rhs), p)

SubtractIf(need_sub, r, sub) ==
    Append(SelectLimbs(need_sub, sub.limbs, Low(r)),
           Select(need_sub, Felt(r[LIMBS + 1] - sub.borrow), r[LIMBS + 1]))

\* Mutant of ConditionalSub: the top limb does not ask for the subtraction.
ConditionalSubLow(r, n) ==
    SubtractIf(NotBit(LtBool(Low(r), Const(n))), r, SubWithBorrow(Low(r), Const(n), 0))

\* r >= n ? r - n : r on LIMBS + 1 limbs (append_conditional_sub_n_5).
ConditionalSub(r, n) ==
    LET r4_is_nonzero == IF r[LIMBS + 1] = 0 THEN 0 ELSE 1
    IN  SubtractIf(OrBit(r4_is_nonzero, NotBit(LtBool(Low(r), Const(n)))), r,
                   SubWithBorrow(Low(r), Const(n), 0))

\* mu = floor(2^512 / n) = 2^256 + mu_low.
BarrettMuLow(n) == (R * R) \div n - R

BarrettEstimate(p, n) ==
    AddWithCarry(High(p), High(MulWide(High(p), Const(BarrettMuLow(n)))), 0).limbs

Barrett5(p, n) ==
    SubSeq(SubWithBorrow(p, MulWide(BarrettEstimate(p, n), Const(n)), 0).limbs, 1, LIMBS + 1)

\* LIMBS + 1 limbs of p - q_est * n, then two conditional subtractions.
ReduceBarrett(p, n) == Low(ConditionalSub(ConditionalSub(Barrett5(p, n), n), n))

MulBarrett(lhs, rhs, n) == ReduceBarrett(MulWide(lhs, rhs), n)

ReduceSum(sum, n) == Low(ConditionalSub(Append(sum.limbs, sum.carry), n))
AddMod(a, b, n) == ReduceSum(AddWithCarry(a, b, 0), n)

AddBack(diff, n) ==
    SelectLimbs(diff.borrow, AddWithCarry(diff.limbs, Const(n), 0).limbs, diff.limbs)
SubMod(a, b, n) == AddBack(SubWithBorrow(a, b, 0), n)
=============================================================================

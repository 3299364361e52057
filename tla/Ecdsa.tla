------------------------------- MODULE Ecdsa -------------------------------
(***************************************************************************)
(* The ECDSA helper functions of @compute: ecdsa_<curve>_mul_mod_p/n,      *)
(* _inv_mod_p/n and _compute (blackboxes/ecdsa).  A behaviour is one call. *)
(* The straight-line parts are one step each; the square-and-multiply loop *)
(* of the inverses and the loop over the bits of the two scalars advance   *)
(* by one bit per step, the limbs high to low.                             *)
(***************************************************************************)
EXTENDS Point

CONSTANTS ByteBase,      \* 2^8
          BytesPerLimb,  \* 8
          Calls          \* the calls to explore

ASSUME ByteAssumption ==
    /\ ByteBase \in Nat \ {0} /\ BytesPerLimb \in Nat \ {0}
    /\ LimbBase = Power(ByteBase, BytesPerLimb)
    /\ \E k \in 1 .. LimbBase : LimbBase = Power(2, k)

\* The moduli of the curves are odd primes of the shape that the reductions rely on.
Curves == {k.curve : k \in Calls}
ASSUME CurvesAssumption ==
    \A curve \in Curves :
        /\ BarrettModulus(curve.n) /\ curve.n > 2
        /\ curve.a \in {0, -3} /\ curve.p \in Nat /\ curve.p > 2
        /\ IF curve.a = 0 THEN SolinasModulus(curve.p) ELSE BarrettModulus(curve.p)
        /\ {curve.b, curve.gx, curve.gy} \subseteq 0 .. curve.p - 1

\* The operands of the multiplication helpers are limb vectors, those of the verification
\* arrays of bytes.
ArrayOfBytes == [1 .. LIMBS * BytesPerLimb -> 0 .. ByteBase - 1]
ASSUME CallsAssumption ==
    \A k \in Calls :
        /\ k.fn \in {"mul_mod", "compute"}
        /\ k.fn = "mul_mod" => /\ k.modulus \in {"p", "n"}
                                /\ k.a \in Limbs(LIMBS) /\ k.b \in Limbs(LIMBS)
        /\ k.fn = "compute" => {k.pk_x, k.pk_y, k.sig_r, k.sig_s, k.z} \subseteq ArrayOfBytes

VARIABLES call,    \* the call: its function, curve and operands
          pc,      \* what the helper does next
          inv,     \* the inversion under way: base, modulus, value, next bit, caller
          u1, u2,  \* the two scalars
          gp,      \* the Jacobian point G + P, affine once it has been inverted
          acc,     \* the accumulator of the joint scalar multiplication
          limb,    \* the limb of the scalars being consumed (LIMBS .. 1)
          mask,    \* the bit of that limb consumed next, 0 after the last
          result   \* what the helper returns

vars == <<call, pc, inv, u1, u2, gp, acc, limb, mask, result>>

c == call.curve
g == <<Const(c.gx), Const(c.gy)>>

\* Big-endian bytes into little-endian limbs (append_pack_args_be_to_le_limbs).
Pack(bytes) ==
    [k \in 1 .. LIMBS |->
        LET start == (LIMBS - k) * BytesPerLimb
            sum[i \in 0 .. BytesPerLimb] ==
                IF i = 0 THEN 0
                ELSE Felt(sum[i - 1] + bytes[start + i] * Power(ByteBase, BytesPerLimb - i))
        IN  sum[BytesPerLimb]]

pk_x  == Pack(call.pk_x)
pk_y  == Pack(call.pk_y)
sig_r == Pack(call.sig_r)
sig_s == Pack(call.sig_s)
z     == Pack(call.z)

\* A modulus is named, so that the dispatch on its value in mul_mod_helper_name_for is
\* the choice of the helper.
Modulus(m) == IF m = "p" THEN c.p ELSE c.n
MulMod(m, a, b) == IF m = "p" THEN MulP(c, a, b) ELSE MulN(c, a, b)

\* Mutant of Exponent: off by one.
ExponentLess1(m) == Modulus(m) - 1

\* a^(m - 2) mod m, the bits of the exponent high to low.
Exponent(m) == Modulus(m) - 2
ExponentBit(m, bit) == (Exponent(m) \div Power(2, bit)) % 2
HighBit(m) == CHOOSE b \in 0 .. Exponent(m) :
                 Power(2, b) <= Exponent(m) /\ Exponent(m) < Power(2, b + 1)

Inverting(a, m, caller) ==
    [base |-> a, modulus |-> m, value |-> One, bit |-> HighBit(m), caller |-> caller]

Init == /\ call \in Calls
        /\ pc = call.fn
        /\ inv = Inverting(Zero, "n", "none")
        /\ u1 = Zero /\ u2 = Zero
        /\ gp = Infinity
        /\ acc = Infinity
        /\ limb = LIMBS /\ mask = LimbBase \div 2
        /\ result = <<>>

\* ecdsa_<curve>_mul_mod_<m>
MulModHelper ==
    /\ pc = "mul_mod"
    /\ result' = MulMod(call.modulus, call.a, call.b)
    /\ pc' = "done"
    /\ UNCHANGED <<call, inv, u1, u2, gp, acc, limb, mask>>

\* ecdsa_<curve>_compute, predicate other than one: the verification does not run.
Skip ==
    /\ pc = "compute" /\ call.predicate # 1
    /\ result' = 1
    /\ pc' = "done"
    /\ UNCHANGED <<call, inv, u1, u2, gp, acc, limb, mask>>

\* Mutant of InputFlags: a high s is accepted.
InputFlagsHighS ==
    <<LtBool(pk_x, Const(c.p)), LtBool(pk_y, Const(c.p)),
      LtBool(sig_r, Const(c.n)), LtBool(sig_s, Const(c.n)), NotBit(EqBool(sig_r, Zero)),
      EqBool(SquareP(c, pk_y), CurveRhs(c, pk_x))>>

\* The flags of append_verify_result that depend on the inputs only.
InputFlags ==
    <<LtBool(pk_x, Const(c.p)), LtBool(pk_y, Const(c.p)),
      LtBool(sig_r, Const(c.n)), LtBool(sig_s, Const(c.n)),
      LtBool(sig_s, Const(c.n \div 2 + 1)), NotBit(EqBool(sig_r, Zero)),
      EqBool(SquareP(c, pk_y), CurveRhs(c, pk_x))>>

StartVerify ==
    /\ pc = "compute" /\ call.predicate = 1
    /\ result' = InputFlags
    /\ inv' = Inverting(sig_s, "n", "s_inv")
    /\ pc' = "inverse"
    /\ UNCHANGED <<call, u1, u2, gp, acc, limb, mask>>

\* One iteration of append_inv_mod_n_barrett.
InverseBit ==
    /\ pc = "inverse" /\ inv.bit >= 0
    /\ LET square == MulMod(inv.modulus, inv.value, inv.value)
       IN  inv' = [inv EXCEPT !.bit = @ - 1,
                              !.value = IF ExponentBit(inv.modulus, inv.bit) = 1
                                        THEN MulMod(inv.modulus, square, inv.base)
                                        ELSE square]
    /\ UNCHANGED <<call, pc, u1, u2, gp, acc, limb, mask, result>>

Inverted(caller) == pc = "inverse" /\ inv.bit = -1 /\ inv.caller = caller

\* The scalars, and G + P as a Jacobian point whose Z is inverted next.
SInverted ==
    /\ Inverted("s_inv")
    /\ u1' = MulN(c, z, inv.value)
    /\ u2' = MulN(c, sig_r, inv.value)
    /\ gp' = AddComplete(c, <<g[1], g[2], One>>, <<pk_x, pk_y>>, 0)
    /\ inv' = Inverting(SafeZ(gp'), "p", "gp")
    /\ UNCHANGED <<call, pc, acc, limb, mask, result>>

GpInverted ==
    /\ Inverted("gp")
    /\ gp' = ToAffine(c, gp, inv.value) \o <<EqBool(gp[3], Zero)>>
    /\ pc' = "joint"
    /\ UNCHANGED <<call, inv, u1, u2, acc, limb, mask, result>>

\* An iteration of the scf.while of one limb.
Joint ==
    /\ pc = "joint" /\ mask > 0
    /\ acc' = JointBit(c, acc, g, <<pk_x, pk_y>>, <<gp[1], gp[2]>>, gp[3],
                       MaskedBit(u1[limb], mask), MaskedBit(u2[limb], mask))
    /\ mask' = mask \div 2
    /\ UNCHANGED <<call, pc, inv, u1, u2, gp, limb, result>>

NextLimb ==
    /\ pc = "joint" /\ mask = 0 /\ limb > 1
    /\ limb' = limb - 1 /\ mask' = LimbBase \div 2
    /\ UNCHANGED <<call, pc, inv, u1, u2, gp, acc, result>>

JointDone ==
    /\ pc = "joint" /\ mask = 0 /\ limb = 1
    /\ inv' = Inverting(SafeZ(acc), "p", "r")
    /\ pc' = "inverse"
    /\ UNCHANGED <<call, u1, u2, gp, acc, limb, mask, result>>

\* R.x against r: no reduction modulo n, ACVM rejects R.x >= n.
RInverted ==
    /\ Inverted("r")
    /\ LET rx == ToAffine(c, acc, inv.value)[1]
           valid == result \o <<NotBit(EqBool(acc[3], Zero)),
                                LtBool(rx, Const(c.n)), EqBool(rx, sig_r)>>
       IN  result' = IF \E k \in 1 .. Len(valid) : valid[k] = 0 THEN 0 ELSE 1
    /\ pc' = "done"
    /\ UNCHANGED <<call, inv, u1, u2, gp, acc, limb, mask>>

Done == pc = "done" /\ UNCHANGED vars

Next == \/ MulModHelper \/ Skip \/ StartVerify \/ InverseBit
        \/ SInverted \/ GpInverted \/ Joint \/ NextLimb \/ JointDone \/ RInverted \/ Done

Spec == Init /\ [][Next]_vars

---------------------------------------------------------------------------
\* Reference: the group of the curve, whose points are the multiples of G (its order n
\* is prime); the point at infinity is <<>>.

\* The moduli are primes, as far as it matters: Fermat's little theorem.
ModularPower(a, e, m) ==
    LET power[k \in 0 .. e] ==
            IF k = 0 THEN 1
            ELSE LET half == power[k \div 2]
                     even == (half * half) % m
                 IN  IF k % 2 = 0 THEN even ELSE (a * even) % m
    IN  power[e]
ASSUME FermatAssumption ==
    \A curve \in Curves : \A m \in {curve.p, curve.n} :
        \A a \in 1 .. m - 1 : ModularPower(a, m - 1, m) = 1

SmallestInverse(a, m) == CHOOSE w \in 1 .. m - 1 : (a * w) % m = 1

\* The mirror image of the third point of the curve on the line through P and Q.
ThirdOf(curve, slope, P, Q) ==
    LET p == curve.p
        x == ((slope % p) * (slope % p) - P[1] - Q[1]) % p
    IN  <<x, ((slope % p) * (P[1] - x) - P[2]) % p>>

AffineAdd(curve, P, Q) ==
    LET p == curve.p
        slope == IF P = Q
                 THEN (3 * P[1] * P[1] + curve.a) * SmallestInverse((2 * P[2]) % p, p)
                 ELSE (Q[2] - P[2]) * SmallestInverse((Q[1] - P[1]) % p, p)
    IN  IF P = <<>> THEN Q
        ELSE IF Q = <<>> THEN P
        ELSE IF P[1] = Q[1] /\ (P[2] + Q[2]) % p = 0 THEN <<>>
        ELSE ThirdOf(curve, slope, P, Q)

\* k G, for k in 0 .. n - 1
MultiplesOf(curve) ==
    LET G == <<curve.gx, curve.gy>>
        times[k \in 0 .. curve.n - 1] ==
            IF k = 0 THEN <<>>
            ELSE LET half == times[k \div 2]
                     even == AffineAdd(curve, half, half)
                 IN  IF k % 2 = 0 THEN even ELSE AffineAdd(curve, even, G)
    IN  [k \in 0 .. curve.n - 1 |-> times[k]]
Multiples == [curve \in Curves |-> MultiplesOf(curve)]
Multiple(k) == Multiples[c][k % c.n]

\* The multiples of G are a group of order n, and all of the curve.
CurvePoints(curve) ==
    {P \in (0 .. curve.p - 1) \X (0 .. curve.p - 1) :
        (P[2] * P[2] - (P[1] * P[1] * P[1] + curve.a * P[1] + curve.b)) % curve.p = 0}
ASSUME GroupAssumption ==
    \A curve \in Curves :
        LET M == Multiples[curve]
        IN  /\ M[0] = <<>> /\ M[1] = <<curve.gx, curve.gy>>
            /\ {M[k] : k \in 1 .. curve.n - 1} = CurvePoints(curve)
            /\ \A j \in 0 .. curve.n - 1, k \in 0 .. curve.n - 1 :
                  AffineAdd(curve, M[j], M[k]) = M[(j + k) % curve.n]

BigEndian(bytes) ==
    LET sum[i \in 0 .. Len(bytes)] ==
            IF i = 0 THEN 0 ELSE sum[i - 1] * ByteBase + bytes[i]
    IN  sum[Len(bytes)]
PublicKey == <<BigEndian(call.pk_x), BigEndian(call.pk_y)>>
OnCurve == \E k \in 1 .. c.n - 1 : Multiple(k) = PublicKey
SecretKey == CHOOSE k \in 1 .. c.n - 1 : Multiple(k) = PublicKey

\* What ACVM answers: the equation of ECDSA with low s, R.x not reduced modulo n.
Accepted ==
    LET r == BigEndian(call.sig_r)
        s == BigEndian(call.sig_s)
        w == SmallestInverse(s, c.n)
        point == Multiple(BigEndian(call.z) * w + ((r * w) % c.n) * SecretKey)
    IN  /\ OnCurve
        /\ r \in 1 .. c.n - 1 /\ s \in 1 .. c.n \div 2
        /\ point # <<>>
        /\ point[1] = r

Represents(jacobian, point) ==
    LET X == Value(jacobian[1])  Y == Value(jacobian[2])  Z == Value(jacobian[3])
    IN  IF point = <<>> THEN Z = 0
        ELSE /\ Z # 0
             /\ (point[1] * ((Z * Z) % c.p)) % c.p = X
             /\ (point[2] * ((Z * Z * Z) % c.p)) % c.p = Y

---------------------------------------------------------------------------
\* Properties

\* The registers hold what the emitted code keeps in them: limbs are split at 2^64, flags
\* are bits.
TypeOK ==
    /\ pc \in {"mul_mod", "compute", "inverse", "joint", "done"}
    /\ inv.value \in Limbs(LIMBS) /\ inv.base \in Limbs(LIMBS) /\ inv.bit >= -1
    /\ u1 \in Limbs(LIMBS) /\ u2 \in Limbs(LIMBS)
    /\ \A k \in 1 .. 3 : acc[k] \in Limbs(LIMBS)
    /\ pc = "joint" => gp[3] \in {0, 1}
    /\ limb \in 1 .. LIMBS /\ mask \in 0 .. LimbBase \div 2

\* A multiplication helper returns the reduced product whenever one operand is reduced:
\* the q_est of Barrett then fits its limbs and two conditional subtractions settle it,
\* and three Solinas rounds leave at most one p to subtract.
MulExact ==
    (call.fn = "mul_mod" /\ pc = "done") =>
        LET a == Value(call.a)  b == Value(call.b)  m == Modulus(call.modulus)
        IN  (a < m \/ b < m) => Value(result) = (a * b) % m

\* The square-and-multiply loop ends with the inverse, and with zero for zero: the
\* callers rely on the second where the doc of append_jacobian_to_affine says it panics.
InverseExact ==
    (pc = "inverse" /\ inv.bit = -1) =>
        LET m == Modulus(inv.modulus)  a == Value(inv.base) % m
        IN  (Value(inv.value) * a) % m = IF a = 0 THEN 0 ELSE 1

\* The bits of u1 and u2 consumed so far.
Weight == (IF mask = 0 THEN 1 ELSE 2 * mask) * Power(LimbBase, limb - 1)
Prefix == Multiple((Value(u1) \div Weight) + (Value(u2) \div Weight) * SecretKey)

\* Adding G + P = O to an accumulator at infinity leaves (0, 0, 1) in it.
StandIn == gp[3] = 1 /\ acc = <<Zero, Zero, One>>

\* After every bit the accumulator is the joint multiple of the prefixes of the scalars.
\* When P = -G it may hold (0, 0, 1) for the point at infinity; the next doubling
\* makes it a point at infinity again.
JointPrefix ==
    (pc = "joint" /\ OnCurve) =>
        Represents(acc, Prefix) \/ (StandIn /\ Prefix = <<>>)

\* The helper's bit is ACVM's verdict on every input: key off the curve or not reduced,
\* r or s out of range, high s, R at infinity, R.x of n or more.
VerifyAgrees ==
    (call.fn = "compute" /\ pc = "done") =>
        result = IF call.predicate # 1 \/ Accepted THEN 1 ELSE 0
=============================================================================

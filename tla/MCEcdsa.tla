------------------------------ MODULE MCEcdsa ------------------------------
(* Two small curves with the shape of the program's: two limbs of four bits,   *)
(* p close below 2^8, prime order n < p and n close below 2^8.                 *)
EXTENDS Ecdsa

\* 241 = 2^8 - 15 is a Solinas prime; 251 goes through Barrett.
K1 == [name |-> "k1", p |-> 241, n |-> 211, a |-> 0, b |-> 13, gx |-> 3, gy |-> 47]
R1 == [name |-> "r1", p |-> 251, n |-> 229, a |-> -3, b |-> 54, gx |-> 1, gy |-> 110]

Bytes(v) == LET n == LIMBS * BytesPerLimb
            IN  [i \in 1 .. n |-> ((v \div ByteBase ^ (n - i)) % ByteBase)]

\* Small factors, the limits of a limb, and the values next to the moduli and to 2^8.
Factors == {0, 1, 2, 3, 15, 16, 17, 127, 128, 208, 209, 210, 211, 212, 213, 227, 228, 229,
            239, 240, 241, 249, 250, 251, 254, 255}

Muls == [fn : {"mul_mod"}, curve : {K1, R1}, modulus : {"p", "n"}, a : Limbs(LIMBS),
         b : {Const(v) : v \in Factors}]

Verify(cv, pk, z_, r, s, pred) ==
    [fn |-> "compute", curve |-> cv, predicate |-> pred, pk_x |-> Bytes(pk[1]),
     pk_y |-> Bytes(pk[2]), z |-> Bytes(z_), sig_r |-> Bytes(r), sig_s |-> Bytes(s)]

Points == [cv \in {K1, R1} |-> MultiplesOf(cv)]
KG(cv, k) == Points[cv][k % cv.n]

SignS(cv, d, k, z_) ==
    LET r == KG(cv, k)[1]
    IN  ((z_ + r * d) * SmallestInverse(k, cv.n)) % cv.n

Keys(cv) == {1, cv.n - 1, 77}
Messages(cv) == {9, cv.n, 255}
\* Two small nonces, one in the middle, and one whose R.x is n or more.
Nonces(cv) == {1, 2, 100, CHOOSE k \in 1 .. cv.n - 1 : KG(cv, k)[1] >= cv.n}

\* A signature with its low s, with its high s, and with a wrong r.
Signed(cv) ==
    UNION {LET r == KG(cv, k)[1]  s == SignS(cv, d, k, m)
           IN  {Verify(cv, KG(cv, d), m, r, s, 1),
                Verify(cv, KG(cv, d), m, r, cv.n - s, 1),
                Verify(cv, KG(cv, d), m, (r + 1) % 256, s, 1)} :
           d \in Keys(cv), k \in Nonces(cv), m \in Messages(cv)}

\* Operands at their limits, for a key that signs.
Limits(cv) ==
    LET pk == KG(cv, 77)
    IN  {Verify(cv, pk, 9, r, s, 1) :
           r \in {0, 1, cv.n - 1, cv.n, 255},
           s \in {0, 1, cv.n \div 2, cv.n \div 2 + 1, cv.n - 1, cv.n, cv.n + 1, 255}}

\* P = -G with u1 = u2, so that every prefix is the point at infinity; other scalars reach
\* it only for some prefixes.
Opposite(cv) ==
    {Verify(cv, KG(cv, cv.n - 1), m, r, s, 1) : m \in {5, 37}, r \in {5, 37, 6}, s \in {1, 2, 7, 50}}

\* Keys that are not points: off the curve, or the coordinates of a point plus p.
WrongKeys(cv) ==
    LET signed(pk, d) == LET r == KG(cv, 2)[1] IN Verify(cv, pk, 9, r, SignS(cv, d, 2, 9), 1)
        aliased(i) == {d \in 1 .. cv.n - 1 : KG(cv, d)[i] + cv.p < 256}
    IN  {signed(<<KG(cv, 2)[1], (KG(cv, 2)[2] + 1) % cv.p>>, 2), signed(<<0, 0>>, 2),
         signed(<<255, 255>>, 2), signed(<<cv.p, 0>>, 2)}
        \union {signed(<<KG(cv, d)[1] + cv.p, KG(cv, d)[2]>>, d) : d \in aliased(1)}
        \union {signed(<<KG(cv, d)[1], KG(cv, d)[2] + cv.p>>, d) : d \in aliased(2)}

Skipped(cv) == {Verify(cv, pk, 9, 0, 0, pred) : pk \in {<<0, 0>>, KG(cv, 2)}, pred \in {0, 2}}

AllCalls ==
    Muls \union UNION {Signed(cv) \union Limits(cv) \union Opposite(cv) \union WrongKeys(cv)
                         \union Skipped(cv) : cv \in {K1, R1}}
===========================================================================

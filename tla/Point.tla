------------------------------- MODULE Point -------------------------------
(***************************************************************************)
(* Short-Weierstrass points on limb vectors: blackboxes/ecdsa/curve.rs and *)
(* point.rs.  A curve c is a record of its constants (trait Curve); the    *)
(* two implementations differ in how they multiply modulo p and double:    *)
(* secp256k1 has a = 0 and a Solinas prime, secp256r1 has a = -3 and uses  *)
(* Barrett.  A Jacobian point <<X, Y, Z>> denotes (X/Z^2, Y/Z^3), and the  *)
(* point at infinity when Z = 0; an affine point is <<x, y>>.              *)
(***************************************************************************)
EXTENDS Modular

Zero == Const(0)
One  == Const(1)
Infinity == <<Zero, Zero, Zero>>

MulN(c, a, b) == MulBarrett(a, b, c.n)
MulP(c, a, b) ==
    IF c.a = 0 THEN MulSolinas(a, b, c.p) ELSE MulBarrett(a, b, c.p)
AddP(c, a, b) == AddMod(a, b, c.p)
SubP(c, a, b) == SubMod(a, b, c.p)
DblP(c, a)    == AddMod(a, a, c.p)
SquareP(c, a) == MulP(c, a, a)

\* x^3 + a x + b, for a = 0 and a = -3 (append_curve_rhs).
CurveRhs(c, x) ==
    LET x_cu == MulP(c, SquareP(c, x), x)
    IN  AddP(c, IF c.a = 0 THEN x_cu ELSE SubP(c, x_cu, MulP(c, Const(3), x)), Const(c.b))

\* The way both doublings end: x3 = m^2 - 2 s, y3 = m (s - x3) - t.
DoubledPoint(c, m, s, t, z3) ==
    LET x3 == SubP(c, SquareP(c, m), DblP(c, s))
    IN  <<x3, SubP(c, MulP(c, m, SubP(c, s, x3)), t), z3>>

\* append_point_double_a_zero
DoubleAZero(c, pt) ==
    LET x1 == pt[1]  y1 == pt[2]  z1 == pt[3]
        A  == SquareP(c, y1)
        B  == DblP(c, DblP(c, MulP(c, x1, A)))
        CC == DblP(c, DblP(c, DblP(c, SquareP(c, A))))
        D  == AddP(c, DblP(c, SquareP(c, x1)), SquareP(c, x1))
    IN  DoubledPoint(c, D, B, CC, DblP(c, MulP(c, y1, z1)))

\* append_point_double_a_neg_3
DoubleANeg3(c, pt) ==
    LET x1 == pt[1]  y1 == pt[2]  z1 == pt[3]
        delta == SquareP(c, z1)
        gamma == SquareP(c, y1)
        beta_4 == DblP(c, DblP(c, MulP(c, x1, gamma)))
        diff_prod == MulP(c, SubP(c, x1, delta), AddP(c, x1, delta))
        alpha == AddP(c, DblP(c, diff_prod), diff_prod)
        gamma_sq_8 == DblP(c, DblP(c, DblP(c, SquareP(c, gamma))))
    IN  DoubledPoint(c, alpha, beta_4, gamma_sq_8,
                     SubP(c, SubP(c, SquareP(c, AddP(c, y1, z1)), gamma), delta))

Double(c, pt) == IF c.a = 0 THEN DoubleAZero(c, pt) ELSE DoubleANeg3(c, pt)

\* The result of the regular formula, from the quantities it is built of.
RegularPoint(c, y1_j, r, v, j, z3) ==
    LET x3 == SubP(c, SubP(c, SquareP(c, r), j), DblP(c, v))
    IN  <<x3, SubP(c, MulP(c, r, SubP(c, v, x3)), DblP(c, y1_j)), z3>>

RegularFrom(c, p1, z1z1, h, hh, i, s2_minus_y1) ==
    LET j == MulP(c, h, i)
    IN  [point  |-> RegularPoint(c, MulP(c, p1[2], j), DblP(c, s2_minus_y1), MulP(c, p1[1], i), j,
                                 SubP(c, SubP(c, SquareP(c, AddP(c, p1[3], h)), z1z1), hh)),
         same_x |-> EqBool(h, Zero),
         same_y |-> EqBool(s2_minus_y1, Zero)]

\* The regular formula for a Jacobian plus an affine point, with the two flags that say
\* whether it is degenerate (append_point_add_mixed_regular_with_flags).
AddRegular(c, p1, q) ==
    LET z1z1 == SquareP(c, p1[3])
        h    == SubP(c, MulP(c, q[1], z1z1), p1[1])
        hh   == SquareP(c, h)
    IN  RegularFrom(c, p1, z1z1, h, hh, DblP(c, DblP(c, hh)),
                    SubP(c, MulP(c, MulP(c, q[2], p1[3]), z1z1), p1[2]))

SelectPoint(bit, if_one, if_zero) ==
    [k \in DOMAIN if_one |-> SelectLimbs(bit, if_one[k], if_zero[k])]

\* Mutant of CompleteCases: equal points are not told from other points.
CasesWithoutDoubling(c, p1, q, q_is_infinity, regular) ==
    SelectPoint(EqBool(p1[3], Zero),
        SelectPoint(q_is_infinity, Infinity, <<q[1], q[2], One>>),
        SelectPoint(q_is_infinity, p1,
            SelectPoint(Felt(regular.same_x * NotBit(regular.same_y)),
                Infinity, regular.point)))

\* The selections, the outermost the last one emitted: p1 at infinity, q at infinity,
\* equal points, opposite points.
CompleteCases(c, p1, q, q_is_infinity, regular) ==
    SelectPoint(EqBool(p1[3], Zero),
        SelectPoint(q_is_infinity, Infinity, <<q[1], q[2], One>>),
        SelectPoint(q_is_infinity, p1,
            SelectPoint(Felt(regular.same_x * regular.same_y), Double(c, p1),
                SelectPoint(Felt(regular.same_x * NotBit(regular.same_y)),
                    Infinity, regular.point))))

AddComplete(c, p1, q, q_is_infinity) ==
    CompleteCases(c, p1, q, q_is_infinity, AddRegular(c, p1, q))

\* (X, Y, Z) to (x, y), given the inverse of Z that the helper returned.
ToAffine(c, pt, z_inv) ==
    LET z_inv_sq == SquareP(c, z_inv)
    IN  <<MulP(c, pt[1], z_inv_sq), MulP(c, pt[2], MulP(c, z_inv_sq, z_inv))>>

\* Z, or 1 for the point at infinity, so that it can be inverted.
SafeZ(pt) == SelectLimbs(EqBool(pt[3], Zero), One, pt[3])

MaskedBit(limb, mask) == (limb \div mask) % 2

\* The addend for the two bits; for bits 0, 0 it is not used (append_select_affine_2x2).
SelectAffine(b1, b2, t_00, t_10, t_01, t_11) ==
    SelectPoint(b2, SelectPoint(b1, t_11, t_01), SelectPoint(b1, t_10, t_00))

\* The addition of t to the doubled accumulator, unless both bits are 0.
AddSelected(c, doubled, t, t_is_infinity, skip_add) ==
    SelectPoint(skip_add, doubled,
        SelectPoint(EqBool(doubled[3], Zero), <<t[1], t[2], One>>,
            AddComplete(c, doubled, t, t_is_infinity)))

\* One bit of the joint scalar multiplication: double, then add G, P or G + P.
JointBit(c, acc, g, p, g_plus_p, g_plus_p_is_infinity, b1, b2) ==
    AddSelected(c, Double(c, acc), SelectAffine(b1, b2, g, g, p, g_plus_p),
                Felt(b1 * b2 * g_plus_p_is_infinity), Felt(NotBit(b1) * NotBit(b2)))
=============================================================================

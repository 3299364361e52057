------------------------------- MODULE Limbs -------------------------------
(***************************************************************************)
(* The limb vectors of blackboxes/ecdsa/limbs.rs: a 256-bit integer is     *)
(* four little-endian 64-bit limbs, each held in a felt of the native      *)
(* field, and every operation is a pass over the limbs that splits felts   *)
(* at 2^64 with felt.umod and felt.uintdiv.  A limb vector is a sequence   *)
(* of felts, the low limb first; a flag is a felt that is 0 or 1.          *)
(***************************************************************************)
EXTENDS Integers, Sequences

CONSTANTS LIMBS,     \* limbs of an integer (4 in multiprec.rs)
          LimbBase,  \* 2^64 in the program
          FieldP     \* the modulus of the native field

ASSUME LimbAssumption ==
    /\ LIMBS \in Nat \ {0} /\ LimbBase \in Nat \ {0, 1, 2} /\ FieldP \in Nat
    /\ LIMBS * (LimbBase * LimbBase) <= FieldP  \* a column of products fits a felt

Felt(x) == x % FieldP

Limbs(n) == [1 .. n -> 0 .. LimbBase - 1]

\* A chain of felt.add that does not reach the modulus, and a power.
Total(xs) ==
    LET sum[k \in 0 .. Len(xs)] == IF k = 0 THEN 0 ELSE sum[k - 1] + xs[k]
    IN  sum[Len(xs)]
Power(b, n) ==
    LET power[k \in 0 .. n] == IF k = 0 THEN 1 ELSE b * power[k - 1]
    IN  power[n]

\* The integer a limb vector denotes, and the limbs of a constant.
Value(limbs) == Total([k \in 1 .. Len(limbs) |-> limbs[k] * Power(LimbBase, k - 1)])

Const(v) == [k \in 1 .. LIMBS |-> (v \div Power(LimbBase, k - 1)) % LimbBase]

Low(limbs)  == SubSeq(limbs, 1, LIMBS)
High(limbs) == SubSeq(limbs, LIMBS + 1, Len(limbs))

SplitColumn(before, column) ==
    LET sum == Felt(column + before.carry)
    IN  [limbs |-> Append(before.limbs, sum % LimbBase), carry |-> sum \div LimbBase]

\* One carry pass over the columns: each column is split into the limb that stays and
\* the carry into the next column.
CarryPass(columns, carry_in) ==
    LET pass[k \in 0 .. Len(columns)] ==
            IF k = 0 THEN [limbs |-> <<>>, carry |-> carry_in]
            ELSE SplitColumn(pass[k - 1], columns[k])
    IN  pass[Len(columns)]

AddWithCarry(lhs, rhs, carry_in) ==
    CarryPass([k \in 1 .. LIMBS |-> Felt(lhs[k] + rhs[k])], carry_in)

\* 2^64 is added before the subtraction, so that the high part of the split is 1 exactly
\* when nothing has to be borrowed.
SplitDifference(before, l, r) ==
    LET diff == Felt(l + LimbBase - r - before.borrow)
    IN  [limbs  |-> Append(before.limbs, diff % LimbBase),
         borrow |-> Felt(1 - diff \div LimbBase)]

SubWithBorrow(lhs, rhs, borrow_in) ==
    LET pass[k \in 0 .. Len(lhs)] ==
            IF k = 0 THEN [limbs |-> <<>>, borrow |-> borrow_in]
            ELSE SplitDifference(pass[k - 1], lhs[k], rhs[k])
    IN  pass[Len(lhs)]

LtBool(lhs, rhs) == SubWithBorrow(lhs, rhs, 0).borrow

\* Equality is decided on the sum of the squared differences.
EqBool(lhs, rhs) ==
    LET sum_sq[k \in 0 .. LIMBS] ==
            IF k = 0 THEN 0
            ELSE LET diff == Felt(lhs[k] - rhs[k]) IN Felt(sum_sq[k - 1] + diff * diff)
    IN  IF sum_sq[LIMBS] = 0 THEN 1 ELSE 0

\* The products whose limbs are k - 1 places above the lowest.
ColumnSum(lhs, rhs, k) ==
    Felt(Total([i \in 1 .. LIMBS |->
                   IF k - i + 1 \in 1 .. LIMBS THEN lhs[i] * rhs[k - i + 1] ELSE 0]))

\* Every product is added to its column before the one carry pass.
MulWide(lhs, rhs) ==
    CarryPass([k \in 1 .. 2 * LIMBS |-> ColumnSum(lhs, rhs, k)], 0).limbs

NotBit(x) == Felt(1 - x)
OrBit(a, b) == Felt(a + b - a * b)

\* Mutant of Select: the operand for zero is not masked out.
SelectSum(bit, if_one, if_zero) == Felt(bit * if_one + if_zero)

Select(bit, if_one, if_zero) == Felt(bit * if_one + NotBit(bit) * if_zero)
SelectLimbs(bit, if_one, if_zero) ==
    [k \in 1 .. LIMBS |-> Select(bit, if_one[k], if_zero[k])]
=============================================================================

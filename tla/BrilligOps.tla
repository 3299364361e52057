----------------------------- MODULE BrilligOps -----------------------------
(***************************************************************************)
(* The arithmetic of Brillig bytecode: what the felt operations emitted by  *)
(* brillig/translator.rs compute, and what the Brillig VM computes.  A width *)
(* of n bits is given by its modulus 2^n; the width of a field is Field.     *)
(***************************************************************************)
EXTENDS PrimeField

CONSTANT Half  \* 2^64: the widest integers have two halves

ASSUME HalfAssumption == Half \in Nat \ {0, 1} /\ 2 * Half * Half * Half + Half * Half <= P

Field == 0
Wide == Half * Half  \* IntegerBitSize::U128

BoolFelt(b) == IF b THEN 1 ELSE 0

---------------------------------------------------------------------------
\* The emitted operations

\* felt.bit_and with 2^n - 1
Mask(v, width) == v % width

emit_cast(v, width) == IF width = Field THEN v ELSE Mask(v, width)

\* Mutant of emit_u128_mul: the product of the high halves stands for a cross product.
emit_u128_mul_high(x, y) ==
    LET cross == Plus(Times(x \div Half, y \div Half), Times(x % Half, y \div Half))
    IN  Mask(Plus(Times(x % Half, y % Half), Times(cross, Half)), Wide)

\* The product of the high halves is a multiple of 2^128 and is left out.
emit_u128_mul(x, y) ==
    LET cross == Plus(Times(x \div Half, y % Half), Times(x % Half, y \div Half))
    IN  Mask(Plus(Times(x % Half, y % Half), Times(cross, Half)), Wide)

emit_add(width, x, y) == Mask(Plus(x, y), width)

\* 2^n is added first, for the difference not to wrap around the field.
emit_sub(width, x, y) == Mask(Minus(Plus(x, width), y), width)

emit_mul(width, x, y) == IF width = Wide THEN emit_u128_mul(x, y) ELSE Mask(Times(x, y), width)

\* felt.shl wraps around the field before the mask applies.
emit_shl(width, x, y) == Mask((x * 2 ^ y) % P, width)

\* emit_binary_int_op, without the bitwise operations.  Division by zero has no result.
emit_binary_int_op(fn, width, x, y) ==
    CASE fn = "Add" -> emit_add(width, x, y)
      [] fn = "Sub" -> emit_sub(width, x, y)
      [] fn = "Mul" -> emit_mul(width, x, y)
      [] fn = "Div" -> x \div y
      [] fn = "Equals" -> BoolFelt(x = y)
      [] fn = "LessThan" -> BoolFelt(x < y)
      [] fn = "LessThanEquals" -> BoolFelt(x <= y)
      [] fn = "Shl" -> emit_shl(width, x, y)
      [] fn = "Shr" -> x \div 2 ^ y

emit_binary_field_op(fn, x, y) ==
    CASE fn = "Add" -> Plus(x, y)
      [] fn = "Sub" -> Minus(x, y)
      [] fn = "Mul" -> Times(x, y)
      [] fn = "Div" -> Div(x, y)
      [] fn = "Equals" -> BoolFelt(x = y)
      [] fn = "LessThan" -> BoolFelt(x < y)
      [] fn = "LessThanEquals" -> BoolFelt(x <= y)
      [] fn = "IntegerDiv" -> x \div y

---------------------------------------------------------------------------
\* The VM's: integers modulo 2^n

Comparisons == {"Equals", "LessThan", "LessThanEquals"}
Divisions == {"Div", "IntegerDiv"}

VmIntOp(fn, width, x, y) ==
    CASE fn = "Add" -> (x + y) % width
      [] fn = "Sub" -> (x - y) % width
      [] fn = "Mul" -> (x * y) % width
      [] fn = "Shl" -> (x * 2 ^ y) % width
      [] OTHER -> emit_binary_int_op(fn, width, x, y)

\* A shift of the widest integers may exceed the field.
ShlOverflows(fn, x, y) == fn = "Shl" /\ x * 2 ^ y >= P
=============================================================================

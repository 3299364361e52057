----------------------------- MODULE FieldProofs -----------------------------
(* The arithmetic of the field, for every prime: its operations, chains of   *)
(* additions, powers of two and the widths of felts.  The sums, powers and   *)
(* passes of the model are recursive functions on 0 .. n: what it takes to   *)
(* unfold them, induction and recursion over such a segment, comes first.    *)
EXTENDS PrimeField, FiniteSetTheorems, WellFoundedInduction, TLAPS

\* A nonempty set of naturals has a least element.
LEMMA LeastNat ==
    ASSUME NEW T \in SUBSET Nat, T # {}
    PROVE  \E x \in T : \A y \in T : ~(y < x)
<1>1. IsWellFoundedOn(OpToRel(<, Nat), Nat)
  BY NatLessThanWellFounded
<1>2. \E x \in T : \A y \in T : ~(<<y, x>> \in OpToRel(<, Nat))
  BY <1>1, WFMin
<1>3. \A x, y \in Nat : y < x => <<y, x>> \in OpToRel(<, Nat)
  BY DEF OpToRel
<1> QED BY <1>2, <1>3

\* A set that holds 0 and, with a number below n, its successor, holds 0 .. n.
LEMMA UpToInduction ==
    ASSUME NEW n \in Nat, NEW S, 0 \in S,
           \A k \in 0 .. n - 1 : k \in S => k + 1 \in S
    PROVE  \A k \in 0 .. n : k \in S
<1> DEFINE T == {k \in 0 .. n : k \notin S}
<1>1. SUFFICES ASSUME T # {} PROVE FALSE
  OBVIOUS
<1>2. T \in SUBSET Nat
  OBVIOUS
<1>3. PICK x \in T : \A y \in T : ~(y < x)
  <2> HIDE DEF T
  <2> QED BY <1>1, <1>2, LeastNat
<1>4. x # 0 /\ x \in 1 .. n
  BY <1>3
<1>5. x - 1 \in 0 .. n - 1 /\ x - 1 \notin T
  BY <1>3, <1>4
<1> QED BY <1>3, <1>4, <1>5

\* f starts with base and goes on with step, up to m.
Follows(f, m, base, step) ==
    /\ f[0] = base
    /\ \A k \in 1 .. m : f[k] = step[k][f[k - 1]]

\* Such functions exist: one value at a time can be added.
LEMMA UpToRecursion ==
    ASSUME NEW n \in Nat, NEW T, NEW base \in T, NEW step \in [1 .. n -> [T -> T]]
    PROVE  \E f \in [0 .. n -> T] : Follows(f, n, base, step)
<1> DEFINE S == {m \in 0 .. n : \E f \in [0 .. m -> T] : Follows(f, m, base, step)}
<1>1. 0 \in S
  <2> DEFINE g == [k \in 0 .. 0 |-> base]
  <2>1. g \in [0 .. 0 -> T] /\ g[0] = base
    OBVIOUS
  <2>2. Follows(g, 0, base, step)
    BY <2>1 DEF Follows
  <2> QED BY <2>1, <2>2
<1>2. ASSUME NEW m \in 0 .. n - 1, m \in S PROVE m + 1 \in S
  <2>1. PICK f \in [0 .. m -> T] : Follows(f, m, base, step)
    BY <1>2
  <2> DEFINE new == step[m + 1][f[m]]
             g == [k \in 0 .. m + 1 |-> IF k = m + 1 THEN new ELSE f[k]]
  <2>2. m + 1 \in 1 .. n /\ m \in 0 .. m
    OBVIOUS
  <2>3. step[m + 1] \in [T -> T] /\ f[m] \in T
    BY <2>2
  <2>4. new \in T
    BY <2>3
  <2> HIDE DEF new
  <2>5. g \in [0 .. m + 1 -> T]
    BY <2>4
  <2>6. \A k \in 0 .. m : g[k] = f[k]
    OBVIOUS
  <2>7. g[m + 1] = step[m + 1][g[m]]
    BY <2>2, <2>6 DEF new
  <2>8. Follows(g, m + 1, base, step)
    BY <2>1, <2>6, <2>7 DEF Follows
  <2> HIDE DEF g
  <2> QED BY <2>2, <2>5, <2>8
<1> HIDE DEF S
<1>3. \A m \in 0 .. n : m \in S
  BY <1>1, <1>2, UpToInduction
<1>4. n \in S
  BY <1>3
<1> QED BY <1>4 DEF S

\* Two functions that follow the same steps agree as far as both go.
LEMMA FollowsUnique ==
    ASSUME NEW n \in Nat, NEW base, NEW step, NEW f, NEW g,
           Follows(f, n, base, step), Follows(g, n, base, step)
    PROVE  \A k \in 0 .. n : f[k] = g[k]
<1> DEFINE S == {k \in 0 .. n : f[k] = g[k]}
<1>1. 0 \in S
  BY DEF Follows
<1>2. ASSUME NEW k \in 0 .. n - 1, k \in S PROVE k + 1 \in S
  <2>1. k + 1 \in 1 .. n /\ (k + 1) - 1 = k
    OBVIOUS
  <2>2. f[k + 1] = step[k + 1][f[k]] /\ g[k + 1] = step[k + 1][g[k]]
    BY <2>1 DEF Follows
  <2> QED BY <1>2, <2>1, <2>2
<1> HIDE DEF S
<1>3. \A k \in 0 .. n : k \in S
  BY <1>1, <1>2, UpToInduction
<1> QED BY <1>3 DEF S

\* A recursive definition on 0 .. n satisfies its equation.
LEMMA RecursiveFunction ==
    ASSUME NEW n \in Nat, NEW T, NEW base \in T, NEW step \in [1 .. n -> [T -> T]]
    PROVE  \E f : f = [k \in 0 .. n |-> IF k = 0 THEN base ELSE step[k][f[k - 1]]]
<1>1. PICK f \in [0 .. n -> T] : Follows(f, n, base, step)
  BY UpToRecursion
<1>2. \A k \in 0 .. n : f[k] = IF k = 0 THEN base ELSE step[k][f[k - 1]]
  BY <1>1 DEF Follows
<1>3. f = [k \in 0 .. n |-> f[k]]
  OBVIOUS
<1>4. f = [k \in 0 .. n |-> IF k = 0 THEN base ELSE step[k][f[k - 1]]]
  BY <1>2, <1>3
<1> QED BY <1>4

---------------------------------------------------------------------------
\* The field

\* What a sequence given by its elements is.
LEMMA ByElements ==
    ASSUME NEW n \in Nat, NEW S, NEW f \in [1 .. n -> S]
    PROVE  f \in Seq(S) /\ Len(f) = n /\ DOMAIN f = 1 .. n
OBVIOUS

\* The remainder of a division by P is a felt.
LEMMA ResidueIsFelt == ASSUME NEW a \in Int PROVE a % P \in F
BY PrimeAssumption, SMT DEF F

\* A felt is its own residue.
LEMMA FeltIsResidue == ASSUME NEW a \in F PROVE a \in Int /\ a % P = a
BY PrimeAssumption, SMT DEF F

\* Division by P.
LEMMA Quotient ==
    ASSUME NEW a \in Int
    PROVE  \E q \in Int : a = P * q + (a % P)
<1>1. a \div P \in Int /\ a = P * (a \div P) + (a % P)
  BY PrimeAssumption, SMT
<1> QED BY <1>1

\* Below P in absolute value, only zero is a multiple of P.
LEMMA SmallMultiple ==
    ASSUME NEW k \in Int, P * k < P, -P < P * k
    PROVE  k = 0
<1>1. P \in Nat \ {0}
  BY PrimeAssumption
<1>2. ASSUME k >= 1 PROVE FALSE
  <2>1. P * k >= P * 1
    BY <1>1, <1>2
  <2> QED BY <1>1, <2>1
<1>3. ASSUME k <= -1 PROVE FALSE
  <2>1. P * (-1 - k) >= 0
    BY <1>1, <1>3
  <2>2. P * (-1 - k) = -P - P * k
    BY <1>1
  <2> QED BY <1>1, <2>1, <2>2
<1> QED BY <1>2, <1>3

\* Congruent numbers have the same residue.
LEMMA Congruent ==
    ASSUME NEW a \in Int, NEW b \in Int, NEW k \in Int, a = b + P * k
    PROVE  a % P = b % P
<1> DEFINE r == a % P
           t == b % P
<1>1. P \in Nat \ {0} /\ r \in 0 .. P - 1 /\ t \in 0 .. P - 1
  BY ResidueIsFelt, PrimeAssumption DEF F
<1>2. PICK q \in Int : a = P * q + r
  BY Quotient
<1>3. PICK s \in Int : b = P * s + t
  BY Quotient
<1> HIDE DEF r, t
<1>4. P * (q - s - k) = t - r
  BY <1>1, <1>2, <1>3
<1>5. q - s - k = 0
  <2>1. P * (q - s - k) < P /\ -P < P * (q - s - k)
    BY <1>1, <1>4
  <2>2. q - s - k \in Int
    OBVIOUS
  <2> QED BY <2>1, <2>2, SmallMultiple
<1>6. r = t
  BY <1>1, <1>4, <1>5
<1> QED BY <1>6 DEF r, t

\* A summand may be reduced before it is added.
LEMMA ReduceLeft ==
    ASSUME NEW a \in Int, NEW b \in Int
    PROVE  ((a % P) + b) % P = (a + b) % P
<1> DEFINE r == a % P
<1>1. PICK q \in Int : a = P * q + r
  BY Quotient
<1>2. P \in Int /\ r \in Int
  BY PrimeAssumption, ResidueIsFelt DEF F
<1> HIDE DEF r
<1>3. a + b = (r + b) + P * q /\ a + b \in Int /\ r + b \in Int
  BY <1>1, <1>2
<1>4. (a + b) % P = (r + b) % P
  BY <1>3, Congruent
<1> QED BY <1>4 DEF r

\* Addition stays in the field, is associative and commutative; zero is neutral.
LEMMA PlusIsFelt == ASSUME NEW a \in Int, NEW b \in Int PROVE Plus(a, b) \in F
BY ResidueIsFelt DEF Plus

LEMMA PlusAssociative ==
    ASSUME NEW a \in F, NEW b \in F, NEW c \in F
    PROVE  Plus(Plus(a, b), c) = Plus(a, Plus(b, c))
<1>1. a \in Int /\ b \in Int /\ c \in Int
  BY FeltIsResidue
<1>2. (((a + b) % P) + c) % P = ((a + b) + c) % P
  BY <1>1, ReduceLeft
<1>3. (((b + c) % P) + a) % P = ((b + c) + a) % P
  BY <1>1, ReduceLeft
<1>4. (b + c) % P \in Int
  BY <1>1, ResidueIsFelt DEF F
<1>5. a + ((b + c) % P) = ((b + c) % P) + a /\ (a + b) + c = (b + c) + a
  BY <1>1, <1>4
<1> QED BY <1>2, <1>3, <1>5 DEF Plus

LEMMA PlusZero ==
    ASSUME NEW a \in F
    PROVE  Plus(a, 0) = a /\ Plus(0, a) = a
<1>1. a + 0 = a /\ 0 + a = a
  BY FeltIsResidue
<1> QED BY <1>1, FeltIsResidue DEF Plus

\* Two felts differ by zero only if they are equal.
LEMMA MinusZero ==
    ASSUME NEW a \in F, NEW b \in F
    PROVE  Minus(a, b) \in F /\ (Minus(a, b) = 0 <=> a = b)
<1>1. P \in Nat \ {0} /\ a \in 0 .. P - 1 /\ b \in 0 .. P - 1
  BY PrimeAssumption DEF F
<1>2. Minus(a, b) \in F
  BY <1>1, ResidueIsFelt DEF Minus
<1>3. ASSUME Minus(a, b) = 0 PROVE a = b
  <2>0. a - b \in Int /\ (a - b) % P = 0
    BY <1>1, <1>3 DEF Minus
  <2>1. PICK q \in Int : a - b = P * q + 0
    BY <2>0, Quotient
  <2>2. P * q < P /\ -P < P * q
    BY <1>1, <2>1
  <2>3. q = 0
    BY <2>2, SmallMultiple
  <2> QED BY <1>1, <2>1, <2>3
<1>4. ASSUME a = b PROVE Minus(a, b) = 0
  <2>1. a - b = 0 /\ 0 \in F
    BY <1>1, <1>4 DEF F
  <2> QED BY <2>1, FeltIsResidue DEF Minus
<1> QED BY <1>2, <1>3, <1>4

\* A felt grows by its difference to another felt to that felt.
LEMMA PlusMinus ==
    ASSUME NEW a \in F, NEW b \in F
    PROVE  Plus(a, Minus(b, a)) = b
<1>1. a \in Int /\ b \in Int
  BY FeltIsResidue
<1>2. (((b - a) % P) + a) % P = ((b - a) + a) % P
  BY <1>1, ReduceLeft
<1>3. (b - a) % P \in Int
  BY <1>1, ResidueIsFelt DEF F
<1>4. a + ((b - a) % P) = ((b - a) % P) + a /\ (b - a) + a = b
  BY <1>1, <1>3
<1> QED BY <1>2, <1>4, FeltIsResidue DEF Plus, Minus

\* A product vanishes only with one of its factors: P is prime.
LEMMA TimesZero ==
    ASSUME NEW a \in F, NEW b \in F
    PROVE  Times(a, b) \in F /\ (Times(a, b) = 0 <=> (a = 0 \/ b = 0))
<1>1. P \in Nat \ {0} /\ a \in 0 .. P - 1 /\ b \in 0 .. P - 1
  BY PrimeAssumption DEF F
<1>2. a * b \in Int
  BY <1>1
<1>3. ASSUME a # 0, b # 0 PROVE Times(a, b) # 0
  <2>1. a \in 1 .. P - 1 /\ b \in 1 .. P - 1
    BY <1>1, <1>3
  <2> QED BY <2>1, PrimeAssumption DEF Times
<1>4. ASSUME a = 0 \/ b = 0 PROVE Times(a, b) = 0
  <2>1. a * b = 0 /\ 0 \in F
    BY <1>1, <1>4 DEF F
  <2> QED BY <2>1, FeltIsResidue DEF Times
<1> QED BY <1>2, <1>3, <1>4, ResidueIsFelt DEF Times

\* One is neutral.
LEMMA TimesOne == ASSUME NEW a \in F PROVE Times(1, a) = a
<1>1. 1 * a = a
  BY FeltIsResidue
<1> QED BY <1>1, FeltIsResidue DEF Times

\* Zero and one are felts, and are different.
LEMMA SmallFelts == 0 \in F /\ 1 \in F
BY PrimeAssumption DEF F

\* The constraint x (1 - x) = 0 makes x a bit, and so does x (x - 1) = 0.
LEMMA BitConstraint ==
    ASSUME NEW x \in F
    PROVE  /\ Times(x, Minus(1, x)) = 0 <=> x \in {0, 1}
           /\ Times(x, Minus(x, 1)) = 0 <=> x \in {0, 1}
<1>1. Minus(1, x) \in F /\ (Minus(1, x) = 0 <=> x = 1)
  BY SmallFelts, MinusZero
<1>2. Minus(x, 1) \in F /\ (Minus(x, 1) = 0 <=> x = 1)
  BY SmallFelts, MinusZero
<1> QED BY <1>1, <1>2, TimesZero

---------------------------------------------------------------------------
\* Chains of additions

\* The partial sums.
LEMMA SumUnfolds ==
    ASSUME NEW n \in Nat, NEW xs \in [1 .. n -> F]
    PROVE  \E s \in [0 .. n -> F] :
              Sum(xs) = s[n] /\ s[0] = 0 /\ \A k \in 1 .. n : s[k] = Plus(s[k - 1], xs[k])
<1> DEFINE step == [k \in 1 .. n |-> [a \in F |-> Plus(a, xs[k])]]
           Partial(s) == s = [k \in 0 .. n |-> IF k = 0 THEN 0 ELSE Plus(s[k - 1], xs[k])]
           sum == CHOOSE s : Partial(s)
<1>1. Len(xs) = n /\ 0 \in F
  BY ByElements, SmallFelts
<1>2. ASSUME NEW k \in 1 .. n, NEW a \in F PROVE Plus(a, xs[k]) \in F
  BY PlusIsFelt, FeltIsResidue
<1>3. step \in [1 .. n -> [F -> F]]
  BY <1>2
<1>4. \E f \in [0 .. n -> F] : Follows(f, n, 0, step)
  <2> HIDE DEF step
  <2> QED BY <1>1, <1>3, UpToRecursion
<1>5. PICK f \in [0 .. n -> F] : Follows(f, n, 0, step)
  BY <1>4
<1>6. f[0] = 0 /\ \A k \in 1 .. n : f[k] = Plus(f[k - 1], xs[k])
  <2>1. ASSUME NEW k \in 1 .. n, NEW a \in F PROVE step[k][a] = Plus(a, xs[k])
    OBVIOUS
  <2> HIDE DEF step
  <2>2. \A k \in 1 .. n : f[k] = step[k][f[k - 1]] /\ f[k - 1] \in F
    BY <1>5 DEF Follows
  <2> QED BY <1>5, <2>1, <2>2 DEF Follows
<1>7. f = [k \in 0 .. n |-> IF k = 0 THEN 0 ELSE Plus(f[k - 1], xs[k])]
  <2> HIDE DEF step
  <2>1. \A k \in 0 .. n : f[k] = IF k = 0 THEN 0 ELSE Plus(f[k - 1], xs[k])
    BY <1>6
  <2> QED BY <2>1
<1>8. Partial(f)
  BY <1>7
<1>9. Partial(sum)
  <2> HIDE DEF Partial
  <2> QED BY <1>8
<1>10. Sum(xs) = sum[n]
  BY <1>1 DEF Sum
<1> HIDE DEF sum, step
<1>11. sum[0] = 0 /\ \A k \in 1 .. n : sum[k] = Plus(sum[k - 1], xs[k])
  BY <1>9
<1> DEFINE S == {k \in 0 .. n : sum[k] \in F}
<1>12. ASSUME NEW k \in 0 .. n - 1, k \in S PROVE k + 1 \in S
  <2>1. k + 1 \in 1 .. n /\ (k + 1) - 1 = k
    OBVIOUS
  <2>2. sum[k + 1] = Plus(sum[k], xs[k + 1])
    BY <1>11, <2>1
  <2> QED BY <1>2, <1>12, <2>1, <2>2
<1>13. 0 \in S
  BY <1>1, <1>11
<1>14. \A k \in 0 .. n : k \in S
  <2> HIDE DEF S
  <2> QED BY <1>12, <1>13, UpToInduction
<1>15. sum \in [0 .. n -> F]
  BY <1>9, <1>14
<1> HIDE DEF Partial
<1> QED BY <1>10, <1>11, <1>15

\* A sum is a felt.
LEMMA SumIsFelt ==
    ASSUME NEW n \in Nat, NEW xs \in [1 .. n -> F]
    PROVE  Sum(xs) \in F
<1>1. PICK s \in [0 .. n -> F] : Sum(xs) = s[n]
  BY SumUnfolds
<1> QED BY <1>1

\* The sum of a concatenation is the sum of the sums.
LEMMA SumOfTwo ==
    ASSUME NEW n \in Nat, NEW m \in Nat,
           NEW xs \in [1 .. n -> F], NEW ys \in [1 .. m -> F], NEW zs \in [1 .. n + m -> F],
           \A k \in 1 .. n : zs[k] = xs[k], \A k \in 1 .. m : zs[n + k] = ys[k]
    PROVE  Sum(zs) = Plus(Sum(xs), Sum(ys))
<1>1. PICK s \in [0 .. n -> F] :
         Sum(xs) = s[n] /\ s[0] = 0 /\ \A k \in 1 .. n : s[k] = Plus(s[k - 1], xs[k])
  BY SumUnfolds
<1>2. PICK t \in [0 .. m -> F] :
         Sum(ys) = t[m] /\ t[0] = 0 /\ \A k \in 1 .. m : t[k] = Plus(t[k - 1], ys[k])
  BY SumUnfolds
<1>3. n + m \in Nat
  OBVIOUS
<1>4. PICK u \in [0 .. n + m -> F] :
         Sum(zs) = u[n + m] /\ u[0] = 0 /\ \A k \in 1 .. n + m : u[k] = Plus(u[k - 1], zs[k])
  BY <1>3, SumUnfolds
<1> DEFINE S == {k \in 0 .. n : u[k] = s[k]}
<1>5. ASSUME NEW k \in 0 .. n - 1, k \in S PROVE k + 1 \in S
  <2>1. k + 1 \in 1 .. n /\ k + 1 \in 1 .. n + m /\ (k + 1) - 1 = k
    OBVIOUS
  <2> QED BY <1>1, <1>4, <1>5, <2>1
<1>6. 0 \in S
  BY <1>1, <1>4
<1>7. \A k \in 0 .. n : k \in S
  <2> HIDE DEF S
  <2> QED BY <1>5, <1>6, UpToInduction
<1>8. u[n] = s[n]
  BY <1>7
<1> DEFINE U == {k \in 0 .. m : u[n + k] = Plus(s[n], t[k])}
<1>9. ASSUME NEW k \in 0 .. m - 1, k \in U PROVE k + 1 \in U
  <2>1. k + 1 \in 1 .. m /\ n + (k + 1) \in 1 .. n + m /\ (n + (k + 1)) - 1 = n + k
        /\ (k + 1) - 1 = k /\ k \in 0 .. m
    OBVIOUS
  <2>2. u[n + (k + 1)] = Plus(Plus(s[n], t[k]), ys[k + 1])
    BY <1>4, <1>9, <2>1
  <2>3. s[n] \in F /\ t[k] \in F /\ ys[k + 1] \in F
    BY <2>1
  <2>4. u[n + (k + 1)] = Plus(s[n], Plus(t[k], ys[k + 1]))
    BY <2>2, <2>3, PlusAssociative
  <2>5. t[k + 1] = Plus(t[k], ys[k + 1])
    BY <1>2, <2>1
  <2> QED BY <2>1, <2>4, <2>5
<1>10. 0 \in U
  <2>1. u[n + 0] = s[n] /\ s[n] \in F /\ t[0] = 0
    BY <1>2, <1>8
  <2> QED BY <2>1, PlusZero
<1>11. \A k \in 0 .. m : k \in U
  <2> HIDE DEF U
  <2> QED BY <1>9, <1>10, UpToInduction
<1>12. u[n + m] = Plus(s[n], t[m])
  BY <1>11
<1> QED BY <1>1, <1>2, <1>4, <1>12

\* Nothing but zeros adds up to zero.
LEMMA SumOfZeros ==
    ASSUME NEW n \in Nat, NEW xs \in [1 .. n -> F], \A k \in 1 .. n : xs[k] = 0
    PROVE  Sum(xs) = 0
<1>1. PICK s \in [0 .. n -> F] :
         Sum(xs) = s[n] /\ s[0] = 0 /\ \A k \in 1 .. n : s[k] = Plus(s[k - 1], xs[k])
  BY SumUnfolds
<1> DEFINE S == {k \in 0 .. n : s[k] = 0}
<1>2. ASSUME NEW k \in 0 .. n - 1, k \in S PROVE k + 1 \in S
  <2>1. k + 1 \in 1 .. n /\ (k + 1) - 1 = k
    OBVIOUS
  <2> QED BY <1>1, <1>2, <2>1, PlusZero, SmallFelts
<1>3. 0 \in S
  BY <1>1
<1>4. \A k \in 0 .. n : k \in S
  <2> HIDE DEF S
  <2> QED BY <1>2, <1>3, UpToInduction
<1> QED BY <1>1, <1>4

\* A single summand that is not zero is the sum.
LEMMA SumOfOne ==
    ASSUME NEW n \in Nat, NEW xs \in [1 .. n -> F], NEW j \in 1 .. n,
           \A k \in 1 .. n : k # j => xs[k] = 0
    PROVE  Sum(xs) = xs[j]
<1>1. PICK s \in [0 .. n -> F] :
         Sum(xs) = s[n] /\ s[0] = 0 /\ \A k \in 1 .. n : s[k] = Plus(s[k - 1], xs[k])
  BY SumUnfolds
<1> DEFINE S == {k \in 0 .. n : s[k] = IF k < j THEN 0 ELSE xs[j]}
<1>2. ASSUME NEW k \in 0 .. n - 1, k \in S PROVE k + 1 \in S
  <2>1. k + 1 \in 1 .. n /\ k + 1 \in 0 .. n /\ (k + 1) - 1 = k
    OBVIOUS
  <2>2. s[k + 1] = Plus(s[k], xs[k + 1])
    BY <1>1, <2>1
  <2>3. CASE k + 1 < j
    BY <1>2, <2>1, <2>2, <2>3, PlusZero, SmallFelts
  <2>4. CASE k + 1 = j
    <3>1. s[k] = 0 /\ xs[j] \in F
      BY <1>2, <2>4
    <3> QED BY <2>1, <2>2, <2>4, <3>1, PlusZero
  <2>5. CASE k + 1 > j
    <3>1. s[k] = xs[j] /\ xs[j] \in F /\ xs[k + 1] = 0
      BY <1>2, <2>1, <2>5
    <3> QED BY <2>1, <2>2, <2>5, <3>1, PlusZero
  <2> QED BY <2>3, <2>4, <2>5
<1>3. 0 \in S
  BY <1>1
<1>4. \A k \in 0 .. n : k \in S
  <2> HIDE DEF S
  <2> QED BY <1>2, <1>3, UpToInduction
<1> QED BY <1>1, <1>4

---------------------------------------------------------------------------
\* Powers of two and widths

\* The powers up to 2^n.
LEMMA PowersUnfold ==
    ASSUME NEW n \in Nat
    PROVE  \E p \in [0 .. n -> Nat] :
              TwoTo(n) = p[n] /\ p[0] = 1 /\ \A k \in 1 .. n : p[k] = 2 * p[k - 1]
<1> DEFINE step == [k \in 1 .. n |-> [a \in Nat |-> 2 * a]]
           Powers(p) == p = [k \in 0 .. n |-> IF k = 0 THEN 1 ELSE 2 * p[k - 1]]
           power == CHOOSE p : Powers(p)
<1>1. step \in [1 .. n -> [Nat -> Nat]]
  OBVIOUS
<1>2. \E f \in [0 .. n -> Nat] : Follows(f, n, 1, step)
  <2> HIDE DEF step
  <2> QED BY <1>1, UpToRecursion
<1>3. PICK f \in [0 .. n -> Nat] : Follows(f, n, 1, step)
  BY <1>2
<1>4. f[0] = 1 /\ \A k \in 1 .. n : f[k] = 2 * f[k - 1]
  <2>1. ASSUME NEW k \in 1 .. n, NEW a \in Nat PROVE step[k][a] = 2 * a
    OBVIOUS
  <2> HIDE DEF step
  <2>2. \A k \in 1 .. n : f[k] = step[k][f[k - 1]] /\ f[k - 1] \in Nat
    BY <1>3 DEF Follows
  <2> QED BY <1>3, <2>1, <2>2 DEF Follows
<1> HIDE DEF step
<1>5. \A k \in 0 .. n : f[k] = IF k = 0 THEN 1 ELSE 2 * f[k - 1]
  BY <1>4
<1>6. Powers(f)
  BY <1>5
<1>7. Powers(power)
  <2> HIDE DEF Powers
  <2> QED BY <1>6
<1>8. TwoTo(n) = power[n]
  BY DEF TwoTo
<1> HIDE DEF power
<1>9. power[0] = 1 /\ \A k \in 1 .. n : power[k] = 2 * power[k - 1]
  BY <1>7
<1> DEFINE S == {k \in 0 .. n : power[k] \in Nat}
<1>10. ASSUME NEW k \in 0 .. n - 1, k \in S PROVE k + 1 \in S
  <2>1. k + 1 \in 1 .. n /\ (k + 1) - 1 = k
    OBVIOUS
  <2> QED BY <1>9, <1>10, <2>1
<1>11. 0 \in S
  BY <1>9
<1>12. \A k \in 0 .. n : k \in S
  <2> HIDE DEF S
  <2> QED BY <1>10, <1>11, UpToInduction
<1>13. power \in [0 .. n -> Nat]
  BY <1>7, <1>12
<1> HIDE DEF Powers
<1> QED BY <1>8, <1>9, <1>13

\* The powers do not depend on how far they are counted.
LEMMA PowersUpTo ==
    ASSUME NEW n \in Nat
    PROVE  \E p \in [0 .. n -> Nat] :
              p[0] = 1 /\ (\A k \in 1 .. n : p[k] = 2 * p[k - 1]) /\ \A m \in 0 .. n : TwoTo(m) = p[m]
<1>1. PICK p \in [0 .. n -> Nat] : p[0] = 1 /\ \A k \in 1 .. n : p[k] = 2 * p[k - 1]
  BY PowersUnfold
<1>2. ASSUME NEW m \in 0 .. n PROVE TwoTo(m) = p[m]
  <2>0. m \in Nat
    OBVIOUS
  <2>1. PICK q \in [0 .. m -> Nat] :
          TwoTo(m) = q[m] /\ q[0] = 1 /\ \A k \in 1 .. m : q[k] = 2 * q[k - 1]
    BY <2>0, PowersUnfold
  <2> DEFINE S == {k \in 0 .. m : q[k] = p[k]}
  <2>2. ASSUME NEW k \in 0 .. m - 1, k \in S PROVE k + 1 \in S
    <3>1. k + 1 \in 1 .. m /\ k + 1 \in 1 .. n /\ (k + 1) - 1 = k
      OBVIOUS
    <3> QED BY <1>1, <2>1, <2>2, <3>1
  <2>3. 0 \in S
    BY <1>1, <2>1
  <2>4. \A k \in 0 .. m : k \in S
    <3> HIDE DEF S
    <3> QED BY <2>0, <2>2, <2>3, UpToInduction
  <2> QED BY <2>1, <2>4
<1> QED BY <1>1, <1>2

\* 2^n is more than n, and grows with n.
LEMMA PowersGrow ==
    ASSUME NEW n \in Nat
    PROVE  /\ TwoTo(n) \in Nat /\ TwoTo(n) > n
           /\ \A m \in 0 .. n : TwoTo(m) \in Nat \ {0} /\ TwoTo(m) <= TwoTo(n)
<1>1. PICK p \in [0 .. n -> Nat] :
         p[0] = 1 /\ (\A k \in 1 .. n : p[k] = 2 * p[k - 1]) /\ \A m \in 0 .. n : TwoTo(m) = p[m]
  BY PowersUpTo
<1> DEFINE S == {k \in 0 .. n : p[k] > k /\ \A m \in 0 .. k : p[m] <= p[k]}
<1>2. ASSUME NEW k \in 0 .. n - 1, k \in S PROVE k + 1 \in S
  <2>1. k + 1 \in 1 .. n /\ (k + 1) - 1 = k /\ k \in 0 .. n /\ k + 1 \in 0 .. n
    OBVIOUS
  <2>2. p[k + 1] = 2 * p[k] /\ p[k] \in Nat /\ p[k] > k
    BY <1>1, <1>2, <2>1
  <2>3. ASSUME NEW m \in 0 .. k + 1 PROVE p[m] <= p[k + 1]
    <3>1. CASE m = k + 1
      BY <2>2, <3>1
    <3>2. CASE m \in 0 .. k
      <4>1. p[m] <= p[k] /\ p[m] \in Nat
        BY <1>2, <3>2
      <4> QED BY <2>2, <4>1
    <3> QED BY <3>1, <3>2
  <2>4. p[k + 1] > k + 1
    BY <2>2
  <2> QED BY <2>1, <2>3, <2>4
<1>3. 0 \in S
  BY <1>1
<1>4. \A k \in 0 .. n : k \in S
  <2> HIDE DEF S
  <2> QED BY <1>2, <1>3, UpToInduction
<1> QED BY <1>1, <1>4

\* The width of a felt is the least n with a < 2^n: it is at most n exactly when a < 2^n.
LEMMA WidthOfFelt ==
    ASSUME NEW a \in F, NEW n \in Nat
    PROVE  NumBits(a) \in Nat /\ (NumBits(a) <= n <=> a < TwoTo(n))
<1>1. P \in Nat \ {0} /\ a \in 0 .. P - 1
  BY PrimeAssumption DEF F
<1> DEFINE T == {k \in 0 .. P : a < TwoTo(k)}
           Width(k) == a < TwoTo(k) /\ \A m \in 0 .. (k - 1) : a >= TwoTo(m)
<1>2. P \in T
  <2>1. TwoTo(P) \in Nat /\ TwoTo(P) > P
    BY <1>1, PowersGrow
  <2> QED BY <1>1, <2>1
<1>3. T # {} /\ T \in SUBSET Nat
  BY <1>1, <1>2
<1>4. PICK k \in T : \A m \in T : ~(m < k)
  <2> HIDE DEF T
  <2> QED BY <1>3, LeastNat
<1>5. k \in 0 .. P /\ Width(k)
  <2>1. ASSUME NEW m \in 0 .. (k - 1) PROVE a >= TwoTo(m)
    <3>1. m \in 0 .. P /\ m < k /\ m \in Nat
      BY <1>1, <1>4
    <3>2. m \notin T
      BY <1>4, <3>1
    <3>3. TwoTo(m) \in Nat
      BY <3>1, PowersGrow
    <3> QED BY <1>1, <3>1, <3>2, <3>3
  <2> QED BY <1>4, <2>1
<1> DEFINE w == NumBits(a)
<1>6. w \in 0 .. P /\ Width(w)
  <2>1. w = CHOOSE j \in 0 .. P : Width(j)
    BY DEF NumBits
  <2> HIDE DEF Width, w
  <2> QED BY <1>5, <2>1
<1>7. w \in Nat
  BY <1>1, <1>6
<1> HIDE DEF w
<1>8. ASSUME w <= n PROVE a < TwoTo(n)
  <2>1. w \in 0 .. n
    BY <1>7, <1>8
  <2>2. TwoTo(w) \in Nat /\ TwoTo(n) \in Nat /\ TwoTo(w) <= TwoTo(n)
    BY <2>1, PowersGrow
  <2> QED BY <1>1, <1>6, <2>2
<1>9. ASSUME ~(w <= n) PROVE ~(a < TwoTo(n))
  <2>1. n \in 0 .. (w - 1) /\ TwoTo(n) \in Nat
    BY <1>7, <1>9, PowersGrow
  <2>2. a >= TwoTo(n)
    BY <1>6, <2>1
  <2> QED BY <1>1, <2>1, <2>2
<1> QED BY <1>7, <1>8, <1>9 DEF w

\* Multiplication by a felt other than zero does not merge felts.
LEMMA TimesDistinct ==
    ASSUME NEW b \in F, b # 0, NEW q \in F, NEW r \in F, r < q
    PROVE  Times(q, b) # Times(r, b)
<1>1. P \in Nat \ {0} /\ q \in Int /\ r \in Int /\ b \in Int
  BY PrimeAssumption DEF F
<1> DEFINE x == q * b
           y == r * b
<1>2. x \in Int /\ y \in Int
  BY <1>1
<1>3. SUFFICES ASSUME x % P = y % P PROVE FALSE
  BY DEF Times
<1>4. PICK s \in Int : x = P * s + (x % P)
  BY <1>2, Quotient
<1>5. PICK t \in Int : y = P * t + (y % P)
  BY <1>2, Quotient
<1>6. q - r \in 1 .. P - 1 /\ b \in 1 .. P - 1
  BY <1>1, PrimeAssumption DEF F
<1>7. (q - r) * b = x - y
  BY <1>1
<1> HIDE DEF x, y
<1>8. x - y = P * s - P * t
  <2> DEFINE z == x % P
             u == P * s
             v == P * t
  <2>1. z \in Int /\ u \in Int /\ v \in Int /\ x = u + z /\ y = v + z
    BY <1>1, <1>2, <1>3, <1>4, <1>5
  <2> HIDE DEF z, u, v
  <2>2. x - y = u - v
    BY <2>1
  <2> QED BY <2>2 DEF u, v
<1>9. P * s - P * t = P * (s - t)
  BY <1>1
<1>10. (x - y) % P = 0 % P
  <2>1. x - y = 0 + P * (s - t) /\ s - t \in Int
    BY <1>1, <1>8, <1>9
  <2> QED BY <1>2, <2>1, Congruent
<1>11. 0 % P = 0
  BY SmallFelts, FeltIsResidue
<1> QED BY <1>6, <1>7, <1>10, <1>11, PrimeAssumption

\* A felt other than zero divides every felt.
LEMMA DivIsFelt ==
    ASSUME NEW a \in F, NEW b \in F, b # 0
    PROVE  Div(a, b) \in F /\ Times(Div(a, b), b) = a
<1> DEFINE f == [q \in F |-> Times(q, b)]
<1>1. f \in [F -> F]
  BY TimesZero
<1>2. ASSUME NEW q \in F, NEW r \in F, f[q] = f[r] PROVE q = r
  <2>1. q \in Int /\ r \in Int
    BY FeltIsResidue
  <2>2. Times(q, b) = Times(r, b)
    BY <1>2
  <2> QED BY <2>1, <2>2, TimesDistinct
<1>3. IsFiniteSet(F)
  <2>1. P - 1 \in Int
    BY PrimeAssumption
  <2> QED BY <2>1, FS_Interval DEF F
<1> HIDE DEF f
<1>4. f \in Injection(F, F)
  BY <1>1, <1>2 DEF Injection, IsInjective
<1>5. f \in Surjection(F, F)
  BY <1>3, <1>4, FS_Injection
<1>6. PICK q \in F : f[q] = a
  BY <1>5 DEF Surjection
<1>7. Times(q, b) = a
  BY <1>6 DEF f
<1> QED BY <1>7 DEF Div

\* The second factor may be reduced before it is multiplied.
LEMMA ReduceRight ==
    ASSUME NEW a \in F, NEW b \in Int
    PROVE  (a * (b % P)) % P = (a * b) % P
<1> DEFINE r == b % P
<1>1. PICK q \in Int : b = P * q + r
  BY Quotient
<1>2. P \in Int /\ r \in Int /\ a \in Int
  BY PrimeAssumption, ResidueIsFelt, FeltIsResidue
<1> HIDE DEF r
<1>3. a * b = a * r + P * (a * q)
  <2> DEFINE x == P * q
  <2>1. x \in Int /\ b = x + r
    BY <1>1, <1>2
  <2>2. a * x = P * (a * q)
    BY <1>2
  <2> HIDE DEF x
  <2>3. a * (x + r) = a * x + a * r /\ a * x \in Int /\ a * r \in Int
    BY <1>2, <2>1
  <2> DEFINE y == a * x
             z == a * r
  <2>4. a * b = y + z /\ y + z = z + y
    BY <2>1, <2>3
  <2> HIDE DEF y, z
  <2> QED BY <2>2, <2>4 DEF y, z
<1>4. a * b \in Int /\ a * r \in Int /\ a * q \in Int
  BY <1>1, <1>2
<1> DEFINE x == a * b
           y == a * r
           k == a * q
<1> HIDE DEF x, y, k
<1>5. x % P = y % P
  BY <1>3, <1>4, Congruent DEF x, y, k
<1> QED BY <1>5 DEF x, y, r
\* Multiplication is commutative.
LEMMA TimesCommutes ==
    ASSUME NEW a \in F, NEW b \in F
    PROVE  Times(a, b) = Times(b, a)
<1>1. a * b = b * a
  BY FeltIsResidue
<1> QED BY <1>1 DEF Times
\* Multiplication is associative.
LEMMA TimesAssociative ==
    ASSUME NEW a \in F, NEW b \in F, NEW c \in F
    PROVE  Times(a, Times(b, c)) = Times(Times(a, b), c)
<1>1. a \in Int /\ b \in Int /\ c \in Int /\ b * c \in Int /\ a * b \in Int
  BY FeltIsResidue
<1>2. (a * ((b * c) % P)) % P = (a * (b * c)) % P
  BY <1>1, ReduceRight
<1>3. (c * ((a * b) % P)) % P = (c * (a * b)) % P
  BY <1>1, ReduceRight
<1>4. c * (a * b) = a * (b * c)
  BY <1>1
<1>5. Times(a, b) \in F
  BY TimesZero
<1>6. Times(Times(a, b), c) = Times(c, Times(a, b))
  BY <1>5, TimesCommutes
<1> QED BY <1>2, <1>3, <1>4, <1>6 DEF Times
\* Multiplication distributes over addition.
LEMMA TimesDistributes ==
    ASSUME NEW a \in F, NEW b \in F, NEW c \in F
    PROVE  Times(a, Plus(b, c)) = Plus(Times(a, b), Times(a, c))
<1>1. a \in Int /\ b \in Int /\ c \in Int /\ b + c \in Int
  BY FeltIsResidue
<1>2. (a * ((b + c) % P)) % P = (a * (b + c)) % P
  BY <1>1, ReduceRight
<1> DEFINE x == a * b
           y == a * c
<1>3. x \in Int /\ y \in Int /\ a * (b + c) = x + y
  BY <1>1
<1> HIDE DEF x, y
<1>4. ((x % P) + y) % P = (x + y) % P
  BY <1>3, ReduceLeft
<1>5. y % P \in Int /\ x % P \in Int
  BY <1>3, ResidueIsFelt, FeltIsResidue
<1>6. ((y % P) + (x % P)) % P = (y + (x % P)) % P
  BY <1>3, <1>5, ReduceLeft
<1>7. (y % P) + (x % P) = (x % P) + (y % P) /\ y + (x % P) = (x % P) + y
  BY <1>3, <1>5
<1>8. (x + y) % P = ((x % P) + (y % P)) % P
  BY <1>4, <1>6, <1>7
<1> QED BY <1>2, <1>3, <1>8 DEF Times, Plus, x, y

\* Four summands may be added in another order.
LEMMA PlusExchange ==
    ASSUME NEW a \in F, NEW b \in F, NEW c \in F, NEW d \in F
    PROVE  Plus(Plus(a, b), Plus(c, d)) = Plus(Plus(a, c), Plus(b, d))
<1>1. \A x, y \in F : Plus(x, y) \in F /\ Plus(x, y) = Plus(y, x)
  <2>1. ASSUME NEW x \in F, NEW y \in F PROVE Plus(x, y) \in F /\ Plus(x, y) = Plus(y, x)
    <3>1. x \in Int /\ y \in Int /\ x + y = y + x
      BY FeltIsResidue
    <3> QED BY <3>1, PlusIsFelt DEF Plus
  <2> QED BY <2>1
<1>2. \A x, y, z \in F : Plus(Plus(x, y), z) = Plus(x, Plus(y, z))
  BY PlusAssociative
<1>3. Plus(Plus(a, b), Plus(c, d)) = Plus(a, Plus(b, Plus(c, d)))
  BY <1>1, <1>2
<1>4. Plus(b, Plus(c, d)) = Plus(c, Plus(b, d))
  <2>1. Plus(b, Plus(c, d)) = Plus(Plus(b, c), d)
    BY <1>2
  <2>2. Plus(c, Plus(b, d)) = Plus(Plus(c, b), d)
    BY <1>2
  <2> QED BY <1>1, <2>1, <2>2
<1>5. Plus(Plus(a, c), Plus(b, d)) = Plus(a, Plus(c, Plus(b, d)))
  BY <1>1, <1>2
<1> QED BY <1>3, <1>4, <1>5

\* The summands zs are those of ps and x times those of qs.
AreLinear(n, x, ps, qs, zs) ==
    /\ n \in Nat /\ x \in F
    /\ ps \in [1 .. n -> F] /\ qs \in [1 .. n -> F] /\ zs \in [1 .. n -> F]
    /\ \A k \in 1 .. n : zs[k] = Plus(ps[k], Times(x, qs[k]))

\* Sums are linear.
LEMMA SumIsLinear ==
    ASSUME NEW n, NEW x, NEW ps, NEW qs, NEW zs, AreLinear(n, x, ps, qs, zs)
    PROVE  Sum(zs) = Plus(Sum(ps), Times(x, Sum(qs)))
<1> USE DEF AreLinear
<1>1. PICK s \in [0 .. n -> F] :
         Sum(ps) = s[n] /\ s[0] = 0 /\ \A k \in 1 .. n : s[k] = Plus(s[k - 1], ps[k])
  BY SumUnfolds
<1>2. PICK t \in [0 .. n -> F] :
         Sum(qs) = t[n] /\ t[0] = 0 /\ \A k \in 1 .. n : t[k] = Plus(t[k - 1], qs[k])
  BY SumUnfolds
<1>3. PICK u \in [0 .. n -> F] :
         Sum(zs) = u[n] /\ u[0] = 0 /\ \A k \in 1 .. n : u[k] = Plus(u[k - 1], zs[k])
  BY SumUnfolds
<1> DEFINE S == {k \in 0 .. n : u[k] = Plus(s[k], Times(x, t[k]))}
<1>4. ASSUME NEW k \in 0 .. n - 1, k \in S PROVE k + 1 \in S
  <2>1. k + 1 \in 1 .. n /\ (k + 1) - 1 = k /\ k + 1 \in 0 .. n /\ k \in 0 .. n
    OBVIOUS
  <2> DEFINE a == ps[k + 1]
             b == qs[k + 1]
             sk == s[k]
             tk == t[k]
  <2>2. a \in F /\ b \in F /\ sk \in F /\ tk \in F
    BY <2>1
  <2>3. u[k + 1] = Plus(Plus(sk, Times(x, tk)), Plus(a, Times(x, b)))
    BY <1>3, <1>4, <2>1
  <2>4. s[k + 1] = Plus(sk, a) /\ t[k + 1] = Plus(tk, b)
    BY <1>1, <1>2, <2>1
  <2> HIDE DEF a, b, sk, tk
  <2>5. Times(x, tk) \in F /\ Times(x, b) \in F
    BY <2>2, TimesZero
  <2>6. Plus(Plus(sk, Times(x, tk)), Plus(a, Times(x, b)))
          = Plus(Plus(sk, a), Plus(Times(x, tk), Times(x, b)))
    BY <2>2, <2>5, PlusExchange
  <2>7. Times(x, Plus(tk, b)) = Plus(Times(x, tk), Times(x, b))
    BY <2>2, TimesDistributes
  <2> QED BY <2>1, <2>3, <2>4, <2>6, <2>7
<1>5. 0 \in S
  <2>1. Times(x, 0) = 0 /\ Plus(0, 0) = 0
    BY SmallFelts, TimesZero, PlusZero
  <2> QED BY <1>1, <1>2, <1>3, <2>1
<1>6. \A k \in 0 .. n : k \in S
  <2> HIDE DEF S
  <2> QED BY <1>4, <1>5, UpToInduction
<1>7. u[n] = Plus(s[n], Times(x, t[n]))
  BY <1>6
<1> QED BY <1>1, <1>2, <1>3, <1>7

\* A felt and its negation.
LEMMA PlusNeg ==
    ASSUME NEW a \in F
    PROVE  Neg(a) \in F /\ Plus(a, Neg(a)) = 0
<1>1. a \in Int /\ -a \in Int
  BY FeltIsResidue
<1>2. Neg(a) \in F
  BY <1>1, ResidueIsFelt DEF Neg
<1>3. (((-a) % P) + a) % P = ((-a) + a) % P
  BY <1>1, ReduceLeft
<1>4. (-a) + a = 0 /\ 0 % P = 0
  BY <1>1, SmallFelts, FeltIsResidue
<1>5. a + Neg(a) = Neg(a) + a
  <2>1. Neg(a) \in Int
    BY <1>2, FeltIsResidue
  <2> QED BY <1>1, <2>1
<1> QED BY <1>2, <1>3, <1>4, <1>5 DEF Plus, Neg
---------------------------------------------------------------------------
\* Congruence: the integers that P divides.

IsMultiple(z) == z \in Int /\ \E n \in Int : z = P * n

\* They are closed under sums and differences.
LEMMA MultipleSum ==
    ASSUME NEW a, NEW b, IsMultiple(a), IsMultiple(b)
    PROVE  IsMultiple(a + b) /\ IsMultiple(a - b)
<1>1. P \in Int
  BY PrimeAssumption
<1>2. PICK m \in Int : a = P * m
  BY DEF IsMultiple
<1>3. PICK n \in Int : b = P * n
  BY DEF IsMultiple
<1>4. a + b = P * (m + n) /\ a - b = P * (m - n) /\ m + n \in Int /\ m - n \in Int
  BY <1>1, <1>2, <1>3
<1>5. a + b \in Int /\ a - b \in Int
  BY DEF IsMultiple
<1> QED BY <1>4, <1>5 DEF IsMultiple

\* And under multiplication by any integer.
LEMMA MultipleScaled ==
    ASSUME NEW a, NEW c \in Int, IsMultiple(a)
    PROVE  IsMultiple(c * a)
<1>1. P \in Int
  BY PrimeAssumption
<1>2. PICK m \in Int : a = P * m
  BY DEF IsMultiple
<1>3. c * a = P * (c * m) /\ c * m \in Int
  BY <1>1, <1>2
<1>4. c * a \in Int
  BY DEF IsMultiple
<1> QED BY <1>3, <1>4 DEF IsMultiple

\* A residue is congruent to what it is the residue of.
LEMMA MultipleResidue ==
    ASSUME NEW a \in Int
    PROVE  a % P \in F /\ a % P \in Int /\ IsMultiple((a % P) - a)
<1>1. PICK q \in Int : a = P * q + (a % P)
  BY Quotient
<1>2. a % P \in F /\ a % P \in Int /\ P \in Int
  BY ResidueIsFelt, FeltIsResidue, PrimeAssumption
<1> DEFINE r == a % P
<1> HIDE DEF r
<1>3. r \in Int /\ a = P * q + r
  BY <1>1, <1>2 DEF r
<1>4. r - a = P * (-q) /\ -q \in Int /\ r - a \in Int
  BY <1>2, <1>3
<1>5. IsMultiple(r - a)
  BY <1>4 DEF IsMultiple
<1> QED BY <1>2, <1>5 DEF r

\* Congruent felts are equal.
LEMMA MultipleFelts ==
    ASSUME NEW a \in F, NEW b \in F, IsMultiple(a - b)
    PROVE  a = b
<1>1. a \in Int /\ b \in Int /\ a % P = a /\ b % P = b
  BY FeltIsResidue
<1>2. PICK n \in Int : a - b = P * n
  BY DEF IsMultiple
<1>3. a = b + P * n
  <2> DEFINE z == P * n
  <2>1. z \in Int
    BY <1>2, PrimeAssumption
  <2> HIDE DEF z
  <2>2. a = b + z
    BY <1>1, <1>2, <2>1 DEF z
  <2> QED BY <2>2 DEF z
<1>4. a % P = b % P
  BY <1>1, <1>3, Congruent
<1> QED BY <1>1, <1>4

\* P is prime: it divides a product only if it divides a factor.
LEMMA MultiplePrime ==
    ASSUME NEW a \in Int, NEW b \in Int, IsMultiple(a * b)
    PROVE  IsMultiple(a) \/ IsMultiple(b)
<1> DEFINE r == a % P
           s == b % P
<1>1. r \in F /\ s \in F /\ r \in Int /\ s \in Int /\ IsMultiple(r - a) /\ IsMultiple(s - b)
  BY MultipleResidue
<1> HIDE DEF r, s
<1>2. r * s = (a * b + s * (r - a)) + a * (s - b)
  BY <1>1
<1>3. IsMultiple(s * (r - a)) /\ IsMultiple(a * (s - b))
  BY <1>1, MultipleScaled
<1>4. IsMultiple(r * s)
  BY <1>2, <1>3, MultipleSum
<1>5. Times(r, s) = 0
  <2> DEFINE z == r * s
  <2>1. z \in Int
    BY <1>1
  <2>2. IsMultiple(z)
    BY <1>4
  <2> HIDE DEF z
  <2>3. z % P \in F /\ z % P \in Int /\ IsMultiple((z % P) - z)
    BY <2>1, MultipleResidue
  <2>4. IsMultiple(((z % P) - z) + z) /\ ((z % P) - z) + z = (z % P) - 0
    BY <2>1, <2>2, <2>3, MultipleSum
  <2>5. z % P = 0
    BY <2>3, <2>4, SmallFelts, MultipleFelts
  <2> QED BY <2>5 DEF Times, z
<1>6. r = 0 \/ s = 0
  BY <1>1, <1>5, TimesZero
<1>7. ASSUME NEW u \in Int, IsMultiple(0 - u) PROVE IsMultiple(u)
  <2>1. (-1) * (0 - u) = u /\ -1 \in Int
    OBVIOUS
  <2>2. IsMultiple((-1) * (0 - u))
    BY <1>7, <2>1, MultipleScaled
  <2> QED BY <2>1, <2>2
<1> QED BY <1>1, <1>6, <1>7

\* The operations of the field are those of the integers, up to multiples.
LEMMA MultipleOperations ==
    ASSUME NEW a \in Int, NEW b \in Int
    PROVE  /\ Plus(a, b) \in F /\ IsMultiple(Plus(a, b) - (a + b))
           /\ Minus(a, b) \in F /\ IsMultiple(Minus(a, b) - (a - b))
           /\ Times(a, b) \in F /\ IsMultiple(Times(a, b) - a * b)
           /\ Neg(a) \in F /\ IsMultiple(Neg(a) + a)
<1>1. a + b \in Int /\ a - b \in Int /\ a * b \in Int /\ -a \in Int
  OBVIOUS
<1>2. ((-a) % P) - (-a) = ((-a) % P) + a
  BY <1>1, MultipleResidue
<1> QED BY <1>1, <1>2, MultipleResidue DEF Plus, Minus, Times, Neg

\* Integers that differ by a multiple of P.
Same(a, b) == a \in Int /\ b \in Int /\ IsMultiple(a - b)

LEMMA SameAsItself == ASSUME NEW a \in Int PROVE Same(a, a)
<1>1. a - a = P * 0 /\ a - a \in Int
  BY PrimeAssumption
<1> QED BY <1>1 DEF Same, IsMultiple

\* The operations of the field compute with what their operands are congruent to.
LEMMA SameOperations ==
    ASSUME NEW a, NEW b, NEW v, NEW w, Same(a, v), Same(b, w)
    PROVE  /\ Same(Plus(a, b), v + w) /\ Same(Minus(a, b), v - w)
           /\ Same(Times(a, b), v * w) /\ Same(Neg(a), -v)
           /\ {Plus(a, b), Minus(a, b), Times(a, b), Neg(a)} \subseteq F
<1>1. /\ a \in Int /\ b \in Int /\ v \in Int /\ w \in Int
      /\ IsMultiple(a - v) /\ IsMultiple(b - w)
  BY DEF Same
<1>2. /\ Plus(a, b) \in F /\ Minus(a, b) \in F /\ Times(a, b) \in F /\ Neg(a) \in F
      /\ IsMultiple(Plus(a, b) - (a + b)) /\ IsMultiple(Minus(a, b) - (a - b))
      /\ IsMultiple(Times(a, b) - a * b) /\ IsMultiple(Neg(a) + a)
  BY <1>1, MultipleOperations
<1> DEFINE plus == Plus(a, b)
           minus == Minus(a, b)
           times == Times(a, b)
           neg == Neg(a)
<1>3. plus \in Int /\ minus \in Int /\ times \in Int /\ neg \in Int
  BY <1>2, FeltIsResidue
<1> HIDE DEF plus, minus, times, neg
<1>4. IsMultiple((a - v) + (b - w)) /\ IsMultiple((a - v) - (b - w))
  BY <1>1, MultipleSum
<1>5. Same(plus, v + w)
  <2>1. plus - (v + w) = (plus - (a + b)) + ((a - v) + (b - w))
    BY <1>1, <1>3
  <2>2. IsMultiple(plus - (v + w))
    BY <1>2, <1>4, <2>1, MultipleSum DEF plus
  <2> QED BY <1>1, <1>3, <2>2 DEF Same
<1>6. Same(minus, v - w)
  <2>1. minus - (v - w) = (minus - (a - b)) + ((a - v) - (b - w))
    BY <1>1, <1>3
  <2>2. IsMultiple(minus - (v - w))
    BY <1>2, <1>4, <2>1, MultipleSum DEF minus
  <2> QED BY <1>1, <1>3, <2>2 DEF Same
<1>7. Same(times, v * w)
  <2>1. times - v * w = (times - a * b) + (b * (a - v) + v * (b - w))
    BY <1>1, <1>3
  <2>2. IsMultiple(b * (a - v)) /\ IsMultiple(v * (b - w))
    BY <1>1, MultipleScaled
  <2>3. IsMultiple(b * (a - v) + v * (b - w))
    BY <2>2, MultipleSum
  <2>4. IsMultiple(times - v * w)
    BY <1>2, <2>1, <2>3, MultipleSum DEF times
  <2>5. v * w \in Int
    BY <1>1
  <2> QED BY <1>3, <2>4, <2>5 DEF Same
<1>8. Same(neg, -v)
  <2>1. neg - (-v) = (neg + a) - (a - v)
    BY <1>1, <1>3
  <2>2. IsMultiple(neg - (-v))
    BY <1>1, <1>2, <2>1, MultipleSum DEF neg
  <2> QED BY <1>1, <1>3, <2>2 DEF Same
<1> QED BY <1>2, <1>5, <1>6, <1>7, <1>8 DEF plus, minus, times, neg

\* Felts are equal when what they are congruent to is.
LEMMA SameFelts ==
    ASSUME NEW a \in F, NEW b \in F, NEW v, NEW w, Same(a, v), Same(b, w)
    PROVE  a = b <=> IsMultiple(v - w)
<1>1. /\ a \in Int /\ b \in Int /\ v \in Int /\ w \in Int
      /\ IsMultiple(a - v) /\ IsMultiple(b - w)
  BY DEF Same
<1>2. IsMultiple((a - v) - (b - w))
  BY <1>1, MultipleSum
<1>3. ASSUME a = b PROVE IsMultiple(v - w)
  <2>1. v - w = (b - w) - (a - v)
    BY <1>1, <1>3
  <2> QED BY <1>1, <2>1, MultipleSum
<1>4. ASSUME IsMultiple(v - w) PROVE a = b
  <2>1. a - b = ((a - v) - (b - w)) + (v - w)
    BY <1>1
  <2>2. IsMultiple(a - b)
    BY <1>2, <1>4, <2>1, MultipleSum
  <2> QED BY <2>2, MultipleFelts
<1> QED BY <1>3, <1>4
=============================================================================

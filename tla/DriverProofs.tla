---------------------------- MODULE DriverProofs ----------------------------
(***************************************************************************)
(* The module that the driver builds, for every program and every size of  *)
(* the blocks: the helpers are in the order of their calls, each once, and *)
(* the verification accepts the module but for the two exceptions.          *)
(***************************************************************************)
EXTENDS Driver, FiniteSetTheorems, SequenceTheorems, TLAPS

---------------------------------------------------------------------------
\* Finite sets of naturals in ascending order

\* A function takes a finite set to a finite set.
LEMMA FiniteImage ==
  ASSUME NEW S, IsFiniteSet(S), NEW f, DOMAIN f = S
  PROVE  IsFiniteSet({f[x] : x \in S})
<1> DEFINE T == {f[x] : x \in S}
           g == [x \in S |-> f[x]]
<1>1. g \in Surjection(S, T)
  BY DEF Surjection
<1>2. QED
  BY <1>1, FS_Surjection

\* A sequence has finitely many elements.
LEMMA FiniteRange ==
  ASSUME NEW s, s \in Seq(ToSet(s))
  PROVE  IsFiniteSet(ToSet(s))
<1>1. DOMAIN s = 1 .. Len(s) /\ Len(s) \in Nat
  OBVIOUS
<1>2. IsFiniteSet(DOMAIN s)
  BY <1>1, FS_Interval
<1>3. QED
  BY <1>2, FiniteImage DEF ToSet

\* The rank of an element is a bijection onto 1 .. Cardinality(S).
LEMMA RankBijective ==
  ASSUME NEW S, S \in SUBSET Nat, IsFiniteSet(S),
         NEW rank, rank = [x \in S |-> Cardinality({y \in S : y <= x})]
  PROVE  /\ rank \in Bijection(S, 1 .. Cardinality(S))
         /\ \A x, y \in S : x < y => rank[x] < rank[y]
<1> DEFINE Below(x) == {y \in S : y <= x}
           n == Cardinality(S)
<1>1. n \in Nat
  BY FS_CardinalityType
<1>2. ASSUME NEW x \in S
      PROVE  IsFiniteSet(Below(x)) /\ Cardinality(Below(x)) \in 1 .. n
  <2>1. Below(x) \in SUBSET S
    OBVIOUS
  <2>2. IsFiniteSet(Below(x)) /\ Cardinality(Below(x)) <= n
    BY <2>1, FS_Subset
  <2>3. x \in Below(x)
    OBVIOUS
  <2>4. Cardinality(Below(x)) \in Nat /\ Cardinality(Below(x)) # 0
    BY <2>2, <2>3, FS_CardinalityType, FS_EmptySet
  <2>5. QED
    BY <1>1, <2>2, <2>4
<1>3. ASSUME NEW x \in S, NEW y \in S, x < y
      PROVE  Cardinality(Below(x)) < Cardinality(Below(y))
  <2>1. Below(x) \in SUBSET Below(y)
    <3>1. \A z \in S : z \in Nat
      OBVIOUS
    <3>2. \A z \in S : z <= x => z <= y
      BY <1>3, <3>1
    <3>3. QED
      BY <3>2
  <2>2. y \in Below(y) /\ y \notin Below(x)
    BY <1>3
  <2>3. /\ Cardinality(Below(x)) <= Cardinality(Below(y))
        /\ Cardinality(Below(y)) = Cardinality(Below(x)) => Below(y) = Below(x)
    BY <2>1, <1>2, FS_Subset
  <2>4. Cardinality(Below(x)) \in Nat /\ Cardinality(Below(y)) \in Nat
    BY <1>1, <1>2
  <2>5. QED
    BY <2>2, <2>3, <2>4
<1>4. rank \in [S -> 1 .. n]
  BY <1>2
<1>5. \A x, y \in S : x < y => rank[x] < rank[y]
  BY <1>3
<1>6. ASSUME NEW x \in S, NEW y \in S, rank[x] = rank[y]
      PROVE  x = y
  <2>1. x \in Nat /\ y \in Nat /\ rank[x] \in Nat /\ rank[y] \in Nat
    BY <1>1, <1>4
  <2>2. QED
    BY <1>5, <1>6, <2>1
<1>7. rank \in Injection(S, 1 .. n)
  BY <1>4, <1>6 DEF Injection, IsInjective
<1>8. IsFiniteSet(1 .. n) /\ Cardinality(1 .. n) = n
  BY <1>1, FS_Interval
<1>9. rank \in Surjection(S, 1 .. n)
  BY <1>7, <1>8, FS_Injection
<1>10. QED
  BY <1>5, <1>7, <1>9 DEF Bijection

\* The sorted sequence of a set has its elements and no other, each once.
LEMMA AscendingSorts ==
  ASSUME NEW S, S \in SUBSET Nat, IsFiniteSet(S)
  PROVE  /\ Cardinality(S) \in Nat
         /\ Ascending(S) \in [1 .. Cardinality(S) -> S]
         /\ \A i, j \in 1 .. Cardinality(S) : i < j => Ascending(S)[i] < Ascending(S)[j]
         /\ \A x \in S : \E i \in 1 .. Cardinality(S) : Ascending(S)[i] = x
<1> DEFINE n == Cardinality(S)
           rank == [x \in S |-> Cardinality({y \in S : y <= x})]
           inverse == [i \in 1 .. n |-> CHOOSE x \in S : rank[x] = i]
           Sorted(s) == \A i, j \in 1 .. n : i < j => s[i] < s[j]
<1>1. n \in Nat
  BY FS_CardinalityType
<1>2. /\ rank \in Bijection(S, 1 .. n)
      /\ \A x, y \in S : x < y => rank[x] < rank[y]
  BY RankBijective
<1> HIDE DEF rank
<1>3. ASSUME NEW i \in 1 .. n
      PROVE  inverse[i] \in S /\ rank[inverse[i]] = i
  BY <1>2 DEF Bijection, Surjection
<1>4. inverse \in [1 .. n -> S]
  BY <1>3
<1>5. Sorted(inverse)
  <2> SUFFICES ASSUME NEW i \in 1 .. n, NEW j \in 1 .. n, i < j
               PROVE  inverse[i] < inverse[j]
    OBVIOUS
  <2>1. /\ inverse[i] \in S /\ inverse[j] \in S
        /\ rank[inverse[i]] = i /\ rank[inverse[j]] = j
    BY <1>3
  <2>2. inverse[i] \in Nat /\ inverse[j] \in Nat
    BY <2>1
  <2> HIDE DEF inverse
  <2>3. ~ (inverse[j] < inverse[i]) /\ inverse[i] # inverse[j]
    <3>1. i \in Nat /\ j \in Nat
      BY <1>1
    <3>2. inverse[j] < inverse[i] => j < i
      BY <1>2, <2>1
    <3>3. QED
      BY <2>1, <3>1, <3>2
  <2>4. QED
    BY <2>2, <2>3
<1>6. Ascending(S) \in [1 .. n -> S] /\ Sorted(Ascending(S))
  <2>1. Ascending(S) = CHOOSE s \in [1 .. n -> S] : Sorted(s)
    BY DEF Ascending
  <2> HIDE DEF Sorted
  <2>2. QED
    BY <1>4, <1>5, <2>1
<1>7. Ascending(S) \in Injection(1 .. n, S)
  <2> SUFFICES ASSUME NEW i \in 1 .. n, NEW j \in 1 .. n, Ascending(S)[i] = Ascending(S)[j]
               PROVE  i = j
    BY <1>6 DEF Injection, IsInjective
  <2>1. Ascending(S)[i] \in Nat /\ Ascending(S)[j] \in Nat
    BY <1>6
  <2>2. QED
    BY <1>1, <1>6, <2>1
<1>8. Ascending(S) \in Surjection(1 .. n, S)
  BY <1>1, <1>7, FS_Interval, FS_Injection
<1>9. QED
  BY <1>1, <1>6, <1>8 DEF Surjection

---------------------------------------------------------------------------
\* Sequences

\* A sequence is a sequence of its elements.
LEMMA SeqOfItsRange ==
  ASSUME NEW T, NEW s \in Seq(T)
  PROVE  s \in Seq(ToSet(s))
<1>1. DOMAIN s = 1 .. Len(s) /\ Len(s) \in Nat
  OBVIOUS
<1>2. s = [i \in 1 .. Len(s) |-> s[i]]
  OBVIOUS
<1>3. \A i \in 1 .. Len(s) : s[i] \in ToSet(s)
  BY <1>1 DEF ToSet
<1>4. QED
  BY <1>1, <1>2, <1>3

\* t is s with x at its end.
Adds(t, s, x) ==
    /\ t \in Seq(ToSet(t))
    /\ Len(t) = Len(s) + 1 /\ Len(s) \in Nat
    /\ DOMAIN s = 1 .. Len(s) /\ DOMAIN t = 1 .. Len(s) + 1
    /\ \A i \in 1 .. Len(s) : t[i] = s[i]
    /\ t[Len(s) + 1] = x

\* What appending an element gives.
LEMMA AppendOne ==
  ASSUME NEW s, s \in Seq(ToSet(s)), NEW x
  PROVE  Adds(Append(s, x), s, x)
<1> DEFINE T == ToSet(s) \union {x}
<1>1. s \in Seq(T) /\ x \in T /\ DOMAIN s = 1 .. Len(s)
  OBVIOUS
<1>2. /\ Append(s, x) \in Seq(T) /\ Len(Append(s, x)) = Len(s) + 1 /\ Len(s) \in Nat
      /\ \A i \in 1 .. Len(s) : Append(s, x)[i] = s[i]
      /\ Append(s, x)[Len(s) + 1] = x
  BY <1>1
<1>3. Append(s, x) \in Seq(ToSet(Append(s, x)))
  BY <1>2, SeqOfItsRange
<1>4. DOMAIN Append(s, x) = 1 .. Len(s) + 1
  BY <1>2
<1>5. QED
  BY <1>1, <1>2, <1>3, <1>4 DEF Adds

\* u is s followed by t.
Joins(u, s, t) ==
    /\ u \in Seq(ToSet(u))
    /\ Len(s) \in Nat /\ Len(t) \in Nat /\ Len(u) = Len(s) + Len(t)
    /\ \A i \in 1 .. Len(s) : u[i] = s[i]
    /\ \A i \in 1 .. Len(t) : u[Len(s) + i] = t[i]

\* What joining two sequences gives.
LEMMA ConcatTwo ==
  ASSUME NEW s, s \in Seq(ToSet(s)), NEW t, t \in Seq(ToSet(t))
  PROVE  Joins(s \o t, s, t)
<1> DEFINE T == ToSet(s) \union ToSet(t)
<1>1. s \in Seq(T) /\ t \in Seq(T)
  OBVIOUS
<1>2. /\ s \o t \in Seq(T) /\ Len(s) \in Nat /\ Len(t) \in Nat /\ Len(s \o t) = Len(s) + Len(t)
      /\ \A i \in 1 .. Len(s) : (s \o t)[i] = s[i]
      /\ \A i \in 1 .. Len(t) : (s \o t)[Len(s) + i] = t[i]
  BY <1>1
<1>3. s \o t \in Seq(ToSet(s \o t))
  BY <1>2, SeqOfItsRange
<1>4. QED
  BY <1>2, <1>3 DEF Joins

---------------------------------------------------------------------------
\* The list of helpers

HelperNames == (BoxNames \ {"k1", "r1"})
               \union {"k1_mul_p", "k1_mul_n", "k1_inv_p", "k1_inv_n", "k1_compute"}
               \union {"r1_mul_p", "r1_mul_n", "r1_inv_p", "r1_inv_n", "r1_compute"}

\* A list of helpers, each once, each after the helpers that its body calls.
Tidy(s) ==
    /\ s \in Seq(ToSet(s))
    /\ \A i, j \in DOMAIN s : s[i] = s[j] => i = j
    /\ \A i \in DOMAIN s : \A fn \in Callees(s[i].fn) : \E j \in 1 .. i - 1 : s[j] = Helper(fn, 0)

\* Two tidy lists without a common helper make a tidy one.
LEMMA TidyConcat ==
  ASSUME NEW s, Tidy(s), NEW t, Tidy(t), ToSet(s) \intersect ToSet(t) = {},
         NEW u, u = s \o t
  PROVE  Tidy(u) /\ ToSet(u) = ToSet(s) \union ToSet(t)
<1>1. s \in Seq(ToSet(s)) /\ t \in Seq(ToSet(t))
  BY DEF Tidy
<1>2. /\ u \in Seq(ToSet(u))
      /\ Len(s) \in Nat /\ Len(t) \in Nat /\ Len(u) = Len(s) + Len(t)
      /\ \A i \in 1 .. Len(s) : u[i] = s[i]
      /\ \A i \in 1 .. Len(t) : u[Len(s) + i] = t[i]
  BY <1>1, ConcatTwo DEF Joins
<1>3. DOMAIN s = 1 .. Len(s) /\ DOMAIN t = 1 .. Len(t)
  BY <1>1
<1>4. DOMAIN u = 1 .. Len(u)
  BY <1>2
\* An index of the concatenation is in s or in t.
<1>5. \A i \in DOMAIN u : \/ i \in DOMAIN s /\ u[i] = s[i]
                          \/ i > Len(s) /\ i - Len(s) \in DOMAIN t /\ u[i] = t[i - Len(s)]
  <2> SUFFICES ASSUME NEW i \in DOMAIN u, i \notin DOMAIN s
               PROVE  i > Len(s) /\ i - Len(s) \in DOMAIN t /\ u[i] = t[i - Len(s)]
    BY <1>2, <1>3
  <2>1. i > Len(s) /\ i - Len(s) \in DOMAIN t /\ Len(s) + (i - Len(s)) = i
    BY <1>2, <1>3, <1>4
  <2>2. QED
    BY <1>2, <1>3, <2>1
<1>6. \A i \in DOMAIN s : i \in DOMAIN u /\ u[i] = s[i]
  BY <1>2, <1>3, <1>4
<1>7. \A i \in DOMAIN t : Len(s) + i \in DOMAIN u /\ u[Len(s) + i] = t[i]
  BY <1>2, <1>3, <1>4
<1>8. ToSet(u) = ToSet(s) \union ToSet(t)
  <2>1. ASSUME NEW x \in ToSet(u)
        PROVE  x \in ToSet(s) \union ToSet(t)
    BY <1>5 DEF ToSet
  <2>2. ASSUME NEW x \in ToSet(s)
        PROVE  x \in ToSet(u)
    BY <1>6 DEF ToSet
  <2>3. ASSUME NEW x \in ToSet(t)
        PROVE  x \in ToSet(u)
    BY <1>7 DEF ToSet
  <2>4. QED
    BY <2>1, <2>2, <2>3
<1>9. ASSUME NEW i \in DOMAIN u, NEW j \in DOMAIN u, u[i] = u[j]
      PROVE  i = j
  <2>1. CASE i \in DOMAIN s /\ j \in DOMAIN s
    BY <1>6, <1>9, <2>1 DEF Tidy
  <2>2. CASE i \notin DOMAIN s /\ j \notin DOMAIN s
    <3>1. /\ i - Len(s) \in DOMAIN t /\ j - Len(s) \in DOMAIN t
          /\ t[i - Len(s)] = t[j - Len(s)]
      BY <1>5, <1>9, <2>2
    <3>2. i - Len(s) = j - Len(s)
      BY <3>1 DEF Tidy
    <3>3. QED
      BY <1>2, <1>4, <3>2
  <2>3. CASE i \in DOMAIN s /\ j \notin DOMAIN s
    <3>1. u[i] = s[i] /\ j - Len(s) \in DOMAIN t /\ u[j] = t[j - Len(s)]
      BY <1>5, <1>6, <2>3
    <3>2. u[i] \in ToSet(s) /\ u[j] \in ToSet(t)
      BY <2>3, <3>1 DEF ToSet
    <3>3. QED
      BY <1>9, <3>2
  <2>4. CASE i \notin DOMAIN s /\ j \in DOMAIN s
    <3>1. u[j] = s[j] /\ i - Len(s) \in DOMAIN t /\ u[i] = t[i - Len(s)]
      BY <1>5, <1>6, <2>4
    <3>2. u[j] \in ToSet(s) /\ u[i] \in ToSet(t)
      BY <2>4, <3>1 DEF ToSet
    <3>3. QED
      BY <1>9, <3>2
  <2>5. QED
    BY <2>1, <2>2, <2>3, <2>4
<1>10. ASSUME NEW i \in DOMAIN u, NEW fn \in Callees(u[i].fn)
       PROVE  \E j \in 1 .. i - 1 : u[j] = Helper(fn, 0)
  <2>1. CASE i \in DOMAIN s
    <3>1. PICK j \in 1 .. i - 1 : s[j] = Helper(fn, 0)
      BY <1>6, <1>10, <2>1 DEF Tidy
    <3>2. j \in DOMAIN s
      BY <1>2, <1>3, <2>1
    <3>3. QED
      BY <1>6, <3>1, <3>2
  <2>2. CASE i \notin DOMAIN s
    <3>1. i > Len(s) /\ i - Len(s) \in DOMAIN t /\ u[i] = t[i - Len(s)]
      BY <1>5, <2>2
    <3>2. PICK j \in 1 .. (i - Len(s)) - 1 : t[j] = Helper(fn, 0)
      BY <1>10, <3>1 DEF Tidy
    <3>3. j \in DOMAIN t /\ Len(s) + j \in 1 .. i - 1
      BY <1>2, <1>3, <1>4, <3>1
    <3>4. QED
      BY <1>7, <3>2, <3>3
  <2>3. QED
    BY <2>1, <2>2
<1>11. QED
  BY <1>2, <1>8, <1>9, <1>10 DEF Tidy

\* The quotient of a natural number is one.
LEMMA DivNat ==
  ASSUME NEW a \in Nat, NEW d \in Nat \ {0}
  PROVE  a \div d \in Nat
  OBVIOUS

\* The helper of a box is one of the helpers.
LEMMA HelperOfBox ==
  ASSUME NEW b, IsBox(b)
  PROVE  /\ HelperOf(b).fn \in HelperNames /\ HelperOf(b).shape \in Nat
         /\ HelperOf(b) = Helper(HelperOf(b).fn, HelperOf(b).shape)
<1>1. b.fn \in BoxNames /\ b.size \in Nat
  BY DEF IsBox
<1>2. Blocks(b.size) \in Nat
  <2> DEFINE len == IF b.size > 1 THEN b.size ELSE 1
  <2>1. len \in Nat /\ len + BlakeBlock - 1 \in Nat /\ BlakeBlock \in Nat \ {0}
    BY <1>1, DriverAssumption
  <2>2. QED
    BY <2>1, DivNat DEF Blocks, CeilDiv
<1>3. b.size \div 3 \in Nat
  BY <1>1, DivNat
<1>4. QED
  BY <1>1, <1>2, <1>3 DEF HelperOf, Helper, HelperNames, BoxNames

\* The helpers that only the fixed list has, and those of a curve.
NamesOf(fn) ==
    CASE fn = "k1" -> {"k1_mul_p", "k1_mul_n", "k1_inv_p", "k1_inv_n", "k1_compute"}
      [] fn = "r1" -> {"r1_mul_p", "r1_mul_n", "r1_inv_p", "r1_inv_n", "r1_compute"}
      [] OTHER     -> {fn}

FixedNames == {"curve_add", "poseidon2", "sha256", "keccak", "k1", "r1"}
ShapedNames == {"msm", "blake2s", "blake3", "aes128"}

\* The part of a fixed name is tidy: mul, inv, compute puts each helper after its callees.
LEMMA FixedTidy ==
  ASSUME NEW fn \in FixedNames
  PROVE  /\ Tidy(Fixed(fn))
         /\ ToSet(Fixed(fn)) = {Helper(name, 0) : name \in IF Uses(fn) THEN NamesOf(fn) ELSE {}}
<1> DEFINE s == Fixed(fn)
           names == Curve(fn)
<1>1. CASE ~Uses(fn)
  BY <1>1 DEF Fixed, Tidy, ToSet
<1>2. CASE Uses(fn) /\ fn \in {"k1", "r1"}
  <2>1. /\ names \in [1 .. 5 -> NamesOf(fn)] /\ Len(names) = 5 /\ DOMAIN names = 1 .. 5
        /\ \A name \in NamesOf(fn) : \E k \in 1 .. 5 : names[k] = name
    BY <1>2 DEF Curve, NamesOf
  <2>2. /\ s = [k \in 1 .. 5 |-> Helper(names[k], 0)]
        /\ s \in Seq({Helper(name, 0) : name \in NamesOf(fn)})
    BY <1>2, <2>1 DEF Fixed
  <2>3. s \in Seq(ToSet(s)) /\ DOMAIN s = 1 .. 5
    BY <2>2, SeqOfItsRange
  <2>4. \A i, j \in 1 .. 5 : names[i] = names[j] => i = j
    BY <1>2 DEF Curve
  <2>5. \A i, j \in 1 .. 5 : s[i] = s[j] => i = j
    BY <2>2, <2>4 DEF Helper
  <2>6. ASSUME NEW i \in 1 .. 5, NEW callee \in Callees(names[i])
        PROVE  \E j \in 1 .. i - 1 : names[j] = callee
    BY <1>2 DEF Curve, Callees
  <2>7. \A i \in 1 .. 5 : s[i].fn = names[i]
    BY <2>2 DEF Helper
  <2>8. \A i \in 1 .. 5 : \A callee \in Callees(s[i].fn) : \E j \in 1 .. i - 1 : s[j] = Helper(callee, 0)
    BY <2>2, <2>6, <2>7
  <2>9. ToSet(s) = {Helper(name, 0) : name \in NamesOf(fn)}
    BY <2>1, <2>2 DEF ToSet
  <2>10. QED
    BY <1>2, <2>3, <2>5, <2>8, <2>9 DEF Tidy
<1>3. CASE Uses(fn) /\ fn \notin {"k1", "r1"}
  <2>1. s = <<Helper(fn, 0)>> /\ NamesOf(fn) = {fn} /\ Callees(fn) = {}
    BY <1>3 DEF Fixed, Curve, NamesOf, Callees, FixedNames
  <2>2. DOMAIN s = {1} /\ s[1] = Helper(fn, 0) /\ s[1].fn = fn /\ s \in Seq({Helper(fn, 0)})
    BY <2>1 DEF Helper
  <2>3. s \in Seq(ToSet(s))
    BY <2>2, SeqOfItsRange
  <2>4. ToSet(s) = {Helper(name, 0) : name \in NamesOf(fn)}
    BY <2>1, <2>2 DEF ToSet
  <2> HIDE DEF s
  <2>5. Tidy(s)
    BY <2>1, <2>2, <2>3 DEF Tidy
  <2>6. QED
    BY <1>3, <2>4, <2>5 DEF s
<1>4. QED
  BY <1>1, <1>2, <1>3

\* The boxes of a program are finitely many, and are boxes.
LEMMA BoxesTyped ==
  ASSUME program \in Programs
  PROVE  /\ IsFiniteSet(Boxes)
         /\ \A b \in Boxes : IsBox(b)
         /\ BrilligBoxes \subseteq Boxes
<1>1. IsProgram(program)
  BY DriverAssumption
<1>2. /\ Circuits \in Seq(ToSet(Circuits))
      /\ \A c \in DOMAIN Circuits : /\ Circuits[c] \in Seq(ToSet(Circuits[c]))
                                    /\ \A op \in ToSet(Circuits[c]) : IsOpcode(op)
      /\ Functions \in Seq(ToSet(Functions))
      /\ \A f \in DOMAIN Functions : IsFunction(Functions[f])
  BY <1>1 DEF IsProgram, Circuits, Functions
<1>3. IsFiniteSet(DOMAIN Circuits) /\ IsFiniteSet(DOMAIN Functions)
  <2>1. /\ DOMAIN Circuits = 1 .. Len(Circuits) /\ Len(Circuits) \in Nat
        /\ DOMAIN Functions = 1 .. Len(Functions) /\ Len(Functions) \in Nat
    BY <1>2
  <2>2. QED
    BY <2>1, FS_Interval
<1>4. IsFiniteSet(AcirBoxes)
  <2> DEFINE ops == [c \in DOMAIN Circuits |-> ToSet(Circuits[c])]
             S == {ops[c] : c \in DOMAIN Circuits}
  <2>1. IsFiniteSet(S)
    BY <1>3, FiniteImage
  <2>2. \A T \in S : IsFiniteSet(T)
    BY <1>2, FiniteRange
  <2>3. IsFiniteSet(UNION S)
    BY <2>1, <2>2, FS_UNION
  <2>4. S = {ToSet(Circuits[c]) : c \in DOMAIN Circuits}
    OBVIOUS
  <2>5. AcirBoxes \in SUBSET UNION S
    BY <2>4 DEF AcirBoxes
  <2>6. QED
    BY <2>3, <2>5, FS_Subset
<1>5. IsFiniteSet(BrilligBoxes)
  <2> DEFINE boxes == [f \in DOMAIN Functions |-> ToSet(Functions[f].boxes)]
             S == {boxes[f] : f \in DOMAIN Functions}
  <2>1. IsFiniteSet(S)
    BY <1>3, FiniteImage
  <2>2. \A T \in S : IsFiniteSet(T)
    BY <1>2, FiniteRange DEF IsFunction
  <2>3. IsFiniteSet(UNION S)
    BY <2>1, <2>2, FS_UNION
  <2>4. S = {ToSet(Functions[f].boxes) : f \in DOMAIN Functions}
    OBVIOUS
  <2>5. QED
    BY <2>3, <2>4 DEF BrilligBoxes
<1>6. \A b \in AcirBoxes : IsBox(b)
  BY <1>2 DEF AcirBoxes, IsOpcode
<1>7. \A b \in BrilligBoxes : IsBox(b)
  BY <1>2 DEF BrilligBoxes, IsFunction
<1>8. QED
  BY <1>4, <1>5, <1>6, <1>7, FS_Union DEF Boxes

\* The part of a shaped name is tidy, and has the shapes that the program uses.
LEMMA ShapedTidy ==
  ASSUME program \in Programs, NEW fn \in ShapedNames
  PROVE  /\ Tidy(Shaped(fn))
         /\ ToSet(Shaped(fn)) = {Helper(fn, shape) : shape \in Shapes(fn)}
<1> DEFINE S == Shapes(fn)
           n == Cardinality(S)
           up == Ascending(S)
           s == Shaped(fn)
<1>1. IsFiniteSet(Boxes) /\ \A b \in Boxes : IsBox(b)
  BY BoxesTyped
<1>2. S \in SUBSET Nat
  BY <1>1, HelperOfBox DEF Shapes
<1>3. IsFiniteSet(S)
  <2> DEFINE B == {x \in Boxes : x.fn = fn}
             f == [b \in B |-> HelperOf(b).shape]
  <2>1. IsFiniteSet(B)
    BY <1>1, FS_Subset
  <2>2. IsFiniteSet({f[b] : b \in B})
    BY <2>1, FiniteImage
  <2>3. S = {f[b] : b \in B}
    BY DEF Shapes
  <2>4. QED
    BY <2>2, <2>3
<1>4. /\ n \in Nat
      /\ up \in [1 .. n -> S]
      /\ \A i, j \in 1 .. n : i < j => up[i] < up[j]
      /\ \A x \in S : \E i \in 1 .. n : up[i] = x
  BY <1>2, <1>3, AscendingSorts
<1>5. s = [k \in 1 .. n |-> Helper(fn, up[k])]
  <2>1. DOMAIN up = 1 .. n
    BY <1>4
  <2>2. QED
    BY <2>1 DEF Shaped
<1> HIDE DEF s, up, n, S
<1>6. ToSet(s) = {Helper(fn, shape) : shape \in S}
  BY <1>4, <1>5 DEF ToSet
<1>7. s \in Seq(ToSet(s)) /\ DOMAIN s = 1 .. n
  <2>1. s \in Seq({Helper(fn, shape) : shape \in S})
    BY <1>4, <1>5
  <2>2. QED
    BY <1>5, <2>1, SeqOfItsRange
<1>8. ASSUME NEW i \in 1 .. n, NEW j \in 1 .. n, s[i] = s[j]
      PROVE  i = j
  <2>1. up[i] = up[j]
    BY <1>5, <1>8 DEF Helper
  <2>2. up[i] \in S /\ up[j] \in S
    BY <1>4
  <2>3. up[i] \in Nat /\ up[j] \in Nat
    BY <1>2, <2>2
  <2>4. i \in Nat /\ j \in Nat
    BY <1>4
  <2>5. QED
    BY <1>4, <2>1, <2>3, <2>4
<1>9. \A i \in 1 .. n : Callees(s[i].fn) = {}
  BY <1>5 DEF Helper, Callees, ShapedNames
<1>10. QED
  BY <1>6, <1>7, <1>8, <1>9 DEF Tidy, s, S

\* The part of the list that a helper is in.
Part(fn) ==
    CASE fn = "curve_add" -> 1
      [] fn = "poseidon2" -> 2
      [] fn = "sha256"    -> 3
      [] fn = "keccak"    -> 4
      [] fn \in NamesOf("k1") -> 5
      [] fn \in NamesOf("r1") -> 6
      [] fn = "msm"       -> 7
      [] fn = "blake2s"   -> 8
      [] fn = "blake3"    -> 9
      [] fn = "aes128"    -> 10

\* A list of helpers of some parts.
Parts(s, first, last) ==
    /\ Tidy(s)
    /\ \A h \in ToSet(s) : h.fn \in HelperNames /\ Part(h.fn) \in first .. last

\* Lists of helpers of different parts can be joined.
LEMMA TidyJoin ==
  ASSUME NEW a \in Nat, NEW b \in Nat, NEW c \in Nat, NEW d \in Nat, a <= b, b < c, c <= d,
         NEW s, Parts(s, a, b), NEW t, Parts(t, c, d)
  PROVE  /\ Parts(s \o t, a, d)
         /\ ToSet(s \o t) = ToSet(s) \union ToSet(t)
<1>1. /\ \A h \in ToSet(s) : Part(h.fn) \in a .. b
      /\ \A h \in ToSet(t) : Part(h.fn) \in c .. d
  BY DEF Parts
<1>2. ToSet(s) \intersect ToSet(t) = {}
  BY <1>1
<1>3. Tidy(s \o t) /\ ToSet(s \o t) = ToSet(s) \union ToSet(t)
  BY <1>2, TidyConcat DEF Parts
<1>4. \A h \in ToSet(s \o t) : h.fn \in HelperNames /\ Part(h.fn) \in a .. d
  <2> SUFFICES ASSUME NEW h \in ToSet(s \o t)
               PROVE  h.fn \in HelperNames /\ Part(h.fn) \in a .. d
    OBVIOUS
  <2>1. CASE h \in ToSet(s)
    BY <1>1, <2>1 DEF Parts
  <2>2. CASE h \in ToSet(t)
    BY <1>1, <2>2 DEF Parts
  <2>3. QED
    BY <1>3, <2>1, <2>2
<1>5. QED
  BY <1>3, <1>4 DEF Parts

AllHelpers == used_fixed_helpers \o used_shaped_helpers

\* The helpers of a program: those of the fixed names that it uses, and one for each shape.
IsUsed(h) ==
    \/ \E fn \in FixedNames : Uses(fn) /\ \E name \in NamesOf(fn) : h = Helper(name, 0)
    \/ \E fn \in ShapedNames : \E shape \in Shapes(fn) : h = Helper(fn, shape)

\* The list is tidy, and has the helpers that the program uses and no others.
LEMMA AllHelpersTidy ==
  ASSUME program \in Programs
  PROVE  /\ Parts(AllHelpers, 1, 10)
         /\ \A h : h \in ToSet(AllHelpers) <=> IsUsed(h)
<1> DEFINE f2 == Fixed("curve_add") \o Fixed("poseidon2")
           f3 == f2 \o Fixed("sha256")
           f4 == f3 \o Fixed("keccak")
           f5 == f4 \o Fixed("k1")
           f6 == f5 \o Fixed("r1")
           s2 == Shaped("msm") \o Shaped("blake2s")
           s3 == s2 \o Shaped("blake3")
           s4 == s3 \o Shaped("aes128")
<1>1. /\ Parts(Fixed("curve_add"), 1, 1) /\ Parts(Fixed("poseidon2"), 2, 2)
      /\ Parts(Fixed("sha256"), 3, 3) /\ Parts(Fixed("keccak"), 4, 4)
      /\ Parts(Fixed("k1"), 5, 5) /\ Parts(Fixed("r1"), 6, 6)
  <2>1. \A fn \in FixedNames : /\ Tidy(Fixed(fn))
                               /\ \A h \in ToSet(Fixed(fn)) : h.fn \in NamesOf(fn)
    BY FixedTidy DEF Helper
  <2>2. /\ NamesOf("curve_add") = {"curve_add"} /\ NamesOf("poseidon2") = {"poseidon2"}
        /\ NamesOf("sha256") = {"sha256"} /\ NamesOf("keccak") = {"keccak"}
        /\ NamesOf("k1") = {"k1_mul_p", "k1_mul_n", "k1_inv_p", "k1_inv_n", "k1_compute"}
        /\ NamesOf("r1") = {"r1_mul_p", "r1_mul_n", "r1_inv_p", "r1_inv_n", "r1_compute"}
    BY DEF NamesOf
  <2>3. /\ \A fn \in {"curve_add"} : fn \in HelperNames /\ Part(fn) \in 1 .. 1
        /\ \A fn \in {"poseidon2"} : fn \in HelperNames /\ Part(fn) \in 2 .. 2
        /\ \A fn \in {"sha256"} : fn \in HelperNames /\ Part(fn) \in 3 .. 3
        /\ \A fn \in {"keccak"} : fn \in HelperNames /\ Part(fn) \in 4 .. 4
    BY <2>2 DEF Part, HelperNames, BoxNames
  <2>4. \A fn \in NamesOf("k1") : fn \in HelperNames /\ Part(fn) \in 5 .. 5
    BY <2>2 DEF Part, HelperNames
  <2>5. \A fn \in NamesOf("r1") : fn \in HelperNames /\ Part(fn) \in 6 .. 6
    BY <2>2 DEF Part, HelperNames
  <2>6. QED
    BY <2>1, <2>2, <2>3, <2>4, <2>5 DEF Parts, FixedNames
<1>2. /\ Parts(Shaped("msm"), 7, 7) /\ Parts(Shaped("blake2s"), 8, 8)
      /\ Parts(Shaped("blake3"), 9, 9) /\ Parts(Shaped("aes128"), 10, 10)
  <2>1. \A fn \in ShapedNames : /\ Tidy(Shaped(fn))
                                /\ \A h \in ToSet(Shaped(fn)) : h.fn = fn
    BY ShapedTidy DEF Helper
  <2>2. /\ "msm" \in HelperNames /\ Part("msm") \in 7 .. 7
        /\ "blake2s" \in HelperNames /\ Part("blake2s") \in 8 .. 8
        /\ "blake3" \in HelperNames /\ Part("blake3") \in 9 .. 9
        /\ "aes128" \in HelperNames /\ Part("aes128") \in 10 .. 10
    BY DEF Part, HelperNames, BoxNames, NamesOf
  <2>3. QED
    BY <2>1, <2>2 DEF Parts, ShapedNames
<1>3. Parts(f2, 1, 2) /\ ToSet(f2) = ToSet(Fixed("curve_add")) \union ToSet(Fixed("poseidon2"))
  BY <1>1, TidyJoin
<1> HIDE DEF f2
<1>4. Parts(f3, 1, 3) /\ ToSet(f3) = ToSet(f2) \union ToSet(Fixed("sha256"))
  BY <1>1, <1>3, TidyJoin
<1> HIDE DEF f3
<1>5. Parts(f4, 1, 4) /\ ToSet(f4) = ToSet(f3) \union ToSet(Fixed("keccak"))
  BY <1>1, <1>4, TidyJoin
<1> HIDE DEF f4
<1>6. Parts(f5, 1, 5) /\ ToSet(f5) = ToSet(f4) \union ToSet(Fixed("k1"))
  BY <1>1, <1>5, TidyJoin
<1> HIDE DEF f5
<1>7. Parts(f6, 1, 6) /\ ToSet(f6) = ToSet(f5) \union ToSet(Fixed("r1"))
  BY <1>1, <1>6, TidyJoin
<1> HIDE DEF f6
<1>8. Parts(s2, 7, 8) /\ ToSet(s2) = ToSet(Shaped("msm")) \union ToSet(Shaped("blake2s"))
  BY <1>2, TidyJoin
<1> HIDE DEF s2
<1>9. Parts(s3, 7, 9) /\ ToSet(s3) = ToSet(s2) \union ToSet(Shaped("blake3"))
  BY <1>2, <1>8, TidyJoin
<1> HIDE DEF s3
<1>10. Parts(s4, 7, 10) /\ ToSet(s4) = ToSet(s3) \union ToSet(Shaped("aes128"))
  BY <1>2, <1>9, TidyJoin
<1> HIDE DEF s4
<1>11. AllHelpers = f6 \o s4
  BY DEF AllHelpers, used_fixed_helpers, used_shaped_helpers, f6, f5, f4, f3, f2, s4, s3, s2
<1>12. Parts(AllHelpers, 1, 10) /\ ToSet(AllHelpers) = ToSet(f6) \union ToSet(s4)
  BY <1>7, <1>10, <1>11, TidyJoin
<1>13. ASSUME NEW h
       PROVE  h \in ToSet(f6) <=> \E fn \in FixedNames : h \in ToSet(Fixed(fn))
  BY <1>3, <1>4, <1>5, <1>6, <1>7 DEF FixedNames
<1>14. ASSUME NEW h
       PROVE  h \in ToSet(s4) <=> \E fn \in ShapedNames : h \in ToSet(Shaped(fn))
  BY <1>8, <1>9, <1>10 DEF ShapedNames
<1>15. ASSUME NEW h, NEW fn \in FixedNames
       PROVE  h \in ToSet(Fixed(fn)) <=> Uses(fn) /\ \E name \in NamesOf(fn) : h = Helper(name, 0)
  BY FixedTidy
<1>16. ASSUME NEW h, NEW fn \in ShapedNames
       PROVE  h \in ToSet(Shaped(fn)) <=> \E shape \in Shapes(fn) : h = Helper(fn, shape)
  BY ShapedTidy
<1>17. ASSUME NEW h
       PROVE  h \in ToSet(AllHelpers) <=> IsUsed(h)
  BY <1>12, <1>13, <1>14, <1>15, <1>16 DEF IsUsed
<1>18. QED
  BY <1>12, <1>17

---------------------------------------------------------------------------
\* Calls and definitions

\* Division, as the provers need it.
LEMMA DivMod ==
  ASSUME NEW x \in Nat, NEW d \in Nat \ {0}
  PROVE  /\ x \div d \in Nat /\ x % d \in 0 .. d - 1
         /\ x = (x \div d) * d + (x % d)
  OBVIOUS

\* A box is one of the helpers that the search finds.
LEMMA BoxIsUsed ==
  ASSUME program \in Programs, NEW b \in Boxes
  PROVE  IsUsed(HelperOf(b))
<1>1. IsBox(b) /\ b.fn \in BoxNames
  BY BoxesTyped DEF IsBox
<1>2. CASE b.fn \in ShapedNames
  <2>1. HelperOf(b).shape \in Shapes(b.fn)
    BY DEF Shapes
  <2>2. HelperOf(b) = Helper(b.fn, HelperOf(b).shape)
    BY <1>2 DEF HelperOf, Helper, ShapedNames
  <2>3. QED
    BY <1>2, <2>1, <2>2 DEF IsUsed
<1>3. CASE b.fn \notin ShapedNames
  <2>1. b.fn \in FixedNames /\ Uses(b.fn)
    BY <1>1, <1>3 DEF BoxNames, FixedNames, ShapedNames, Uses
  <2>2. \E name \in NamesOf(b.fn) : HelperOf(b) = Helper(name, 0)
    BY <2>1 DEF HelperOf, NamesOf, FixedNames
  <2>3. QED
    BY <2>1, <2>2 DEF IsUsed
<1>4. QED
  BY <1>2, <1>3

\* The call of an ACIR box that is accepted is on the signature of its helper.
LEMMA AcirCallMatches ==
  ASSUME NEW b, IsBox(b), AcirBoxAccepted(b)
  PROVE  BoxCall(b, BoxArguments(b)) = HelperSignature(HelperOf(b))
<1>1. b.size \in Nat /\ ScalarBits \in Nat /\ AesBlock \in Nat
  BY DriverAssumption DEF IsBox
<1>2. HelperOf(b) = Helper(HelperOf(b).fn, HelperOf(b).shape)
  BY HelperOfBox
<1>3. BoxArguments(b) = HelperIns(HelperOf(b))
  <2>1. CASE b.fn = "msm"
    <3>1. b.size = (b.size \div 3) * 3 /\ b.size \div 3 \in Nat
      BY <1>1, <2>1, DivMod DEF AcirBoxAccepted
    <3>2. HelperIns(HelperOf(b)) = (b.size \div 3) * (3 + ScalarBits) + 1
      BY <2>1 DEF HelperOf, Helper, HelperIns
    <3>3. BoxArguments(b) = b.size + (b.size \div 3) * ScalarBits + 1
      BY <2>1 DEF BoxArguments
    <3>4. ASSUME NEW n \in Nat, NEW w \in Nat
          PROVE  n * (3 + w) = n * 3 + n * w
      OBVIOUS
    <3>5. QED
      BY <1>1, <3>1, <3>2, <3>3, <3>4
  <2>2. CASE b.fn \in {"blake2s", "blake3"}
    BY <2>2 DEF HelperOf, Helper, HelperIns, BoxArguments
  <2>3. CASE b.fn = "aes128"
    <3>1. HelperIns(HelperOf(b)) = b.size + 2 * AesBlock
      BY <2>3 DEF HelperOf, Helper, HelperIns
    <3>2. BoxArguments(b) = b.size + AesBlock + AesBlock
      BY <2>3 DEF BoxArguments
    <3>3. QED
      BY <1>1, <3>1, <3>2
  <2>4. CASE b.fn \notin {"msm", "blake2s", "blake3", "aes128"}
    BY <2>4 DEF BoxArguments
  <2>5. QED
    BY <2>1, <2>2, <2>3, <2>4
<1>4. QED
  BY <1>2, <1>3 DEF BoxCall, HelperSignature

\* So is the call of a box in bytecode, unless it is BLAKE3, whose call has an argument more.
LEMMA BrilligCallMatches ==
  ASSUME NEW b, IsBox(b), BrilligBoxAccepted(b)
  PROVE  LET call == BoxCall(b, BrilligBoxArguments(b))
         IN  /\ call.name = HelperSignature(HelperOf(b)).name
             /\ b.fn # "blake3" => call = HelperSignature(HelperOf(b))
             /\ b.fn = "blake3" => call.ins # HelperSignature(HelperOf(b)).ins
<1>1. AcirBoxAccepted(b)
  BY DEF BrilligBoxAccepted
<1>2. CASE b.fn # "blake3"
  BY <1>1, <1>2, AcirCallMatches DEF BrilligBoxArguments
<1>3. CASE b.fn = "blake3"
  <2>1. HelperOf(b) = Helper("blake3", Blocks(b.size)) /\ Blocks(b.size) \in Nat
    BY <1>3, HelperOfBox DEF HelperOf, Helper
  <2>2. HelperIns(HelperOf(b)) = Blocks(b.size) * BlakeBlock + 1
    BY <2>1 DEF HelperIns, Helper
  <2>3. BrilligBoxArguments(b) = Blocks(b.size) * BlakeBlock + 2
    BY <1>3 DEF BrilligBoxArguments
  <2>4. \A n, w \in Nat : n * w + 1 # n * w + 2
    OBVIOUS
  <2>5. BrilligBoxArguments(b) # HelperIns(HelperOf(b))
    BY <2>1, <2>2, <2>3, <2>4, DriverAssumption
  <2>6. QED
    BY <1>3, <2>5 DEF BoxCall, HelperSignature, Signature
<1>4. QED
  BY <1>2, <1>3

\* The definition of a helper has its signature, and its name.
LEMMA HelperName ==
  ASSUME NEW h
  PROVE  /\ HelperDefinition(h).sig = HelperSignature(h)
         /\ HelperDefinition(h).sig.name = <<h.fn, h.shape>>
  BY DEF HelperDefinition, Definition, HelperSignature, Signature

\* A helper returns what it declares, but for AES of a partial block.
LEMMA HelperReturns ==
  ASSUME NEW fn, NEW shape \in Nat
  PROVE  LET h == Helper(fn, shape)
         IN  HelperDefinition(h).returned = HelperDefinition(h).sig.outs
             <=> (fn = "aes128" => shape % AesBlock = 0)
<1> DEFINE h == Helper(fn, shape)
<1>1. /\ HelperDefinition(h).sig.outs = HelperOuts(h)
      /\ HelperDefinition(h).returned =
            IF fn = "aes128" THEN (shape \div AesBlock) * AesBlock ELSE HelperOuts(h)
  BY DEF HelperDefinition, HelperSignature, Definition, Signature, Helper
<1>2. CASE fn = "aes128"
  <2>1. HelperOuts(h) = shape
    BY <1>2 DEF HelperOuts, Helper
  <2>2. /\ shape = (shape \div AesBlock) * AesBlock + (shape % AesBlock)
        /\ shape % AesBlock \in Nat /\ AesBlock \in Nat /\ shape \div AesBlock \in Nat
    BY DivMod, DriverAssumption
  <2>3. ASSUME NEW q \in Nat, NEW r \in Nat, NEW w \in Nat, shape = q * w + r
        PROVE  q * w = shape <=> r = 0
    BY <2>3
  <2>4. (shape \div AesBlock) * AesBlock = shape <=> shape % AesBlock = 0
    BY <2>2, <2>3
  <2>5. QED
    BY <1>1, <1>2, <2>1, <2>4
<1>3. CASE fn # "aes128"
  BY <1>1, <1>3
<1>4. QED
  BY <1>2, <1>3

\* The definitions of a Brillig function: itself, then its procedures.
LEMMA FunctionDefinitionsAre ==
  ASSUME program \in Programs, NEW key, key[1] \in DOMAIN Functions
  PROVE  LET procs == Functions[key[1]].procedures
             defs  == FunctionDefinitions(key)
         IN  /\ procs \in Seq(Nat) /\ Len(procs) \in Nat
             /\ defs \in Seq(ToSet(defs)) /\ DOMAIN defs = 1 .. Len(procs) + 1
             /\ defs[1] = Definition(FunctionSignature(key), BodyCalls(key, 0), key[3])
             /\ \A p \in 1 .. Len(procs) :
                   defs[1 + p] = Definition(ProcedureSignature(key, procs[p]), BodyCalls(key, procs[p]), 0)
             /\ \A p, q \in 1 .. Len(procs) : procs[p] = procs[q] => p = q
<1> DEFINE procs == Functions[key[1]].procedures
           first == Definition(FunctionSignature(key), BodyCalls(key, 0), key[3])
           rest == [p \in DOMAIN procs |->
                      Definition(ProcedureSignature(key, procs[p]), BodyCalls(key, procs[p]), 0)]
<1>1. IsFunction(Functions[key[1]])
  BY DriverAssumption DEF IsProgram, Functions
<1>2. /\ procs \in Seq(Nat) /\ Len(procs) \in Nat /\ DOMAIN procs = 1 .. Len(procs)
      /\ \A p, q \in 1 .. Len(procs) : procs[p] = procs[q] => p = q
  BY <1>1 DEF IsFunction
<1>3. FunctionDefinitions(key) = <<first>> \o rest
  BY DEF FunctionDefinitions
<1> HIDE DEF procs, first
<1>4. rest \in Seq(ToSet(rest)) /\ Len(rest) = Len(procs)
  <2>1. rest \in Seq({rest[p] : p \in 1 .. Len(procs)}) /\ Len(rest) = Len(procs)
    BY <1>2
  <2>2. QED
    BY <2>1, SeqOfItsRange
<1>5. <<first>> \in Seq(ToSet(<<first>>)) /\ Len(<<first>>) = 1 /\ <<first>>[1] = first
  <2>1. <<first>> \in Seq({first})
    OBVIOUS
  <2>2. QED
    BY <2>1, SeqOfItsRange
<1>6. Joins(<<first>> \o rest, <<first>>, rest)
  BY <1>4, <1>5, ConcatTwo
<1>7. \A p \in 1 .. Len(procs) :
         rest[p] = Definition(ProcedureSignature(key, procs[p]), BodyCalls(key, procs[p]), 0)
  BY <1>2
<1> HIDE DEF rest
<1>8. /\ FunctionDefinitions(key) \in Seq(ToSet(FunctionDefinitions(key)))
      /\ Len(FunctionDefinitions(key)) = Len(procs) + 1
      /\ FunctionDefinitions(key)[1] = first
      /\ \A p \in 1 .. Len(procs) : FunctionDefinitions(key)[1 + p] = rest[p]
  BY <1>2, <1>3, <1>4, <1>5, <1>6 DEF Joins
<1>9. DOMAIN FunctionDefinitions(key) = 1 .. Len(procs) + 1
  BY <1>8
<1>10. QED
  BY <1>2, <1>7, <1>8, <1>9 DEF procs, first

---------------------------------------------------------------------------
\* The inductive invariant: where in the module every definition is

Total == Len(AllHelpers)

\* The helpers come first, in the order of the list.
HelpersPart ==
    /\ program \in Programs
    /\ helpers \in Seq(ToSet(helpers)) /\ module \in Seq(ToSet(module))
    /\ pc = "helpers" => /\ Len(module) + Len(helpers) = Total /\ index = 1
                         /\ \A i \in 1 .. Len(helpers) : helpers[i] = AllHelpers[Len(module) + i]
    /\ pc # "helpers" => Total + index - 1 <= Len(module)
    /\ \A i \in DOMAIN module : i <= Total => module[i] = HelperDefinition(AllHelpers[i])

\* The circuits follow, and what they call is registered.
CircuitsPart ==
    /\ \A c \in 1 .. index - 1 : /\ module[Total + c] = CircuitDefinition(c)
                                 /\ \A op \in ToSet(Circuits[c]) : OpcodeAccepted(op)
    /\ registry = UNION {Keys(c) : c \in 1 .. index - 1}
    /\ pc = "circuits" => Len(module) = Total + index - 1
    /\ pc \in {"functions", "done", "invalid"} => index = Len(Circuits) + 1

\* The definition is one that the function of a key has.
Of(definition, key) ==
    \E d \in DOMAIN FunctionDefinitions(key) : definition = FunctionDefinitions(key)[d]

\* The rest is the functions that are not pending.
FunctionsPart ==
    /\ \A i \in DOMAIN module : i >= Total + index =>
          \E key \in registry \ pending : Of(module[i], key)
    /\ pc \in {"functions", "done", "invalid"} =>
          \A key \in registry \ pending :
              /\ FunctionAccepted(key)
              /\ \A d \in DOMAIN FunctionDefinitions(key) :
                    \E i \in DOMAIN module : module[i] = FunctionDefinitions(key)[d]

NamesDistinct == \A i, j \in DOMAIN module : module[i].sig.name = module[j].sig.name => i = j

Outcome ==
    /\ pc \in {"done", "invalid"} => pending = {}
    /\ pc = "done" => Verifies
    /\ pc = "invalid" => ~Verifies

IInv == /\ TypeOK /\ HelpersPart /\ CircuitsPart /\ FunctionsPart
        /\ NamesDistinct /\ Outcome /\ OnlyCalledRefused

\* What depends on the program only does not change.
LEMMA Stable ==
  ASSUME program' = program
  PROVE  /\ Circuits' = Circuits /\ Functions' = Functions
         /\ AllHelpers' = AllHelpers /\ Total' = Total
         /\ \A c : CircuitDefinition(c)' = CircuitDefinition(c) /\ Keys(c)' = Keys(c)
         /\ \A op : OpcodeAccepted(op)' = OpcodeAccepted(op)
         /\ \A key : /\ FunctionDefinitions(key)' = FunctionDefinitions(key)
                     /\ FunctionAccepted(key)' = FunctionAccepted(key)
         /\ CalledKeys' = CalledKeys
<1>1. Circuits' = Circuits /\ Functions' = Functions
  BY DEF Circuits, Functions
<1>2. Boxes' = Boxes
  BY <1>1 DEF Boxes, AcirBoxes, BrilligBoxes
<1>3. \A fn : Uses(fn)' = Uses(fn) /\ Shapes(fn)' = Shapes(fn)
  BY <1>2 DEF Uses, Shapes
<1>4. \A fn : Fixed(fn)' = Fixed(fn) /\ Shaped(fn)' = Shaped(fn)
  BY <1>3 DEF Fixed, Shaped
<1>5. AllHelpers' = AllHelpers /\ Total' = Total
  BY <1>4 DEF AllHelpers, Total, used_fixed_helpers, used_shaped_helpers
<1>6. \A c : Keys(c)' = Keys(c)
  BY <1>1 DEF Keys, BrilligCalls
<1>7. \A c : CircuitDefinition(c)' = CircuitDefinition(c)
  BY <1>1, <1>6 DEF CircuitDefinition, CircuitCalls
<1>8. \A op : OpcodeAccepted(op)' = OpcodeAccepted(op)
  BY <1>1 DEF OpcodeAccepted
<1>9. \A key, body : BodyCalls(key, body)' = BodyCalls(key, body)
  BY <1>1 DEF BodyCalls
<1>10. \A key : FunctionDefinitions(key)' = FunctionDefinitions(key)
  BY <1>1, <1>9 DEF FunctionDefinitions
<1>11. \A key : FunctionAccepted(key)' = FunctionAccepted(key)
  BY <1>1 DEF FunctionAccepted
<1>12. CalledKeys' = CalledKeys
  BY <1>1, <1>6 DEF CalledKeys
<1>13. QED
  BY <1>1, <1>5, <1>6, <1>7, <1>8, <1>10, <1>11, <1>12

\* What is known of the program and of the list, whatever the state.
LEMMA Known ==
  ASSUME program \in Programs
  PROVE  /\ Circuits \in Seq(ToSet(Circuits)) /\ Len(Circuits) \in Nat
         /\ DOMAIN Circuits = 1 .. Len(Circuits)
         /\ AllHelpers \in Seq(ToSet(AllHelpers)) /\ Total \in Nat
         /\ DOMAIN AllHelpers = 1 .. Total
         /\ \A i, j \in 1 .. Total : AllHelpers[i] = AllHelpers[j] => i = j
         /\ \A i \in 1 .. Total : /\ AllHelpers[i].fn \in HelperNames
                                  /\ AllHelpers[i] \in ToSet(AllHelpers)
                                  /\ IsUsed(AllHelpers[i])
<1>1. IsProgram(program)
  BY DriverAssumption
<1>2. Circuits \in Seq(ToSet(Circuits))
  BY <1>1 DEF IsProgram, Circuits
<1>3. Len(Circuits) \in Nat /\ DOMAIN Circuits = 1 .. Len(Circuits)
  BY <1>2
<1>4. /\ Parts(AllHelpers, 1, 10)
      /\ \A h : h \in ToSet(AllHelpers) <=> IsUsed(h)
  BY AllHelpersTidy
<1>5. AllHelpers \in Seq(ToSet(AllHelpers))
  BY <1>4 DEF Parts, Tidy
<1>6. Total \in Nat /\ DOMAIN AllHelpers = 1 .. Total
  BY <1>5 DEF Total
<1>7. \A i \in 1 .. Total : AllHelpers[i] \in ToSet(AllHelpers)
  BY <1>6 DEF ToSet
<1>8. \A i, j \in 1 .. Total : AllHelpers[i] = AllHelpers[j] => i = j
  BY <1>4, <1>6 DEF Parts, Tidy
<1>9. QED
  BY <1>2, <1>3, <1>4, <1>5, <1>6, <1>7, <1>8 DEF Parts

\* The keys that a circuit registers are typed, and name a function if it is translated.
LEMMA KeysTyped ==
  ASSUME program \in Programs, NEW c \in DOMAIN Circuits, NEW key \in Keys(c)
  PROVE  /\ key \in Nat \X Nat \X Nat
         /\ (\A op \in ToSet(Circuits[c]) : OpcodeAccepted(op)) => key[1] \in DOMAIN Functions
<1>1. PICK op \in BrilligCalls(c) : key = Key(op)
  BY DEF Keys
<1>2. op \in ToSet(Circuits[c]) /\ op.kind = "brillig"
  BY <1>1 DEF BrilligCalls
<1>3. IsOpcode(op)
  BY <1>2, DriverAssumption DEF IsProgram, Circuits
<1>4. op.id \in Nat /\ op.ins \in Nat /\ op.outs \in Nat
  BY <1>2, <1>3 DEF IsOpcode
<1>5. OpcodeAccepted(op) => op.id \in DOMAIN Functions
  BY <1>2 DEF OpcodeAccepted
<1>6. QED
  BY <1>1, <1>2, <1>4, <1>5 DEF Key

\* The invariant holds at first.
LEMMA InitInv == Init => IInv
<1> SUFFICES ASSUME Init
             PROVE  IInv
  OBVIOUS
<1>1. /\ program \in Programs /\ pc = "helpers" /\ helpers = AllHelpers /\ index = 1
      /\ registry = {} /\ pending = {} /\ module = <<>>
  BY DEF Init, AllHelpers
<1>2. /\ Len(Circuits) \in Nat /\ AllHelpers \in Seq(ToSet(AllHelpers)) /\ Total \in Nat
  BY <1>1, Known
<1>3. /\ module \in Seq(ToSet(module)) /\ Len(module) = 0 /\ DOMAIN module = {}
  BY <1>1
<1>4. TypeOK
  BY <1>1, <1>2 DEF TypeOK
<1>5. HelpersPart
  BY <1>1, <1>2, <1>3 DEF HelpersPart, Total
<1>6. CircuitsPart
  BY <1>1, <1>2 DEF CircuitsPart
<1>7. FunctionsPart /\ NamesDistinct
  BY <1>1, <1>3 DEF FunctionsPart, NamesDistinct
<1>8. Outcome /\ OnlyCalledRefused
  BY <1>1 DEF Outcome, OnlyCalledRefused
<1>9. QED
  BY <1>4, <1>5, <1>6, <1>7, <1>8 DEF IInv

\* EmitHelper keeps it: the next helper of the list goes to the next place.
LEMMA EmitHelperInv ==
  ASSUME IInv, EmitHelper
  PROVE  IInv'
<1>1. /\ pc = "helpers" /\ helpers # <<>> /\ pc' = pc
      /\ module' = Append(module, HelperDefinition(Head(helpers)))
      /\ helpers' = Tail(helpers)
      /\ program' = program /\ index' = index /\ registry' = registry /\ pending' = pending
  BY DEF EmitHelper
<1>2. TypeOK /\ HelpersPart /\ CircuitsPart /\ FunctionsPart /\ NamesDistinct
  BY DEF IInv
<1>3. /\ program \in Programs /\ index = 1
      /\ helpers \in Seq(ToSet(helpers)) /\ module \in Seq(ToSet(module))
      /\ Len(module) + Len(helpers) = Total
      /\ \A i \in 1 .. Len(helpers) : helpers[i] = AllHelpers[Len(module) + i]
      /\ \A i \in DOMAIN module : i <= Total => module[i] = HelperDefinition(AllHelpers[i])
  BY <1>1, <1>2 DEF HelpersPart
<1> DEFINE n == Len(module)
           d == HelperDefinition(Head(helpers))
<1>4. /\ Circuits' = Circuits /\ Functions' = Functions /\ AllHelpers' = AllHelpers /\ Total' = Total
      /\ CalledKeys' = CalledKeys
  BY <1>1, Stable
<1>5. /\ Len(helpers) \in Nat \ {0} /\ Head(helpers) = helpers[1]
      /\ Tail(helpers) \in Seq(ToSet(helpers)) /\ Len(Tail(helpers)) = Len(helpers) - 1
      /\ \A i \in 1 .. Len(helpers) - 1 : Tail(helpers)[i] = helpers[i + 1]
  BY <1>1, <1>3
<1>6. /\ module' \in Seq(ToSet(module')) /\ Len(module') = n + 1 /\ n \in Nat
      /\ \A i \in 1 .. n : module'[i] = module[i]
      /\ module'[n + 1] = d
      /\ DOMAIN module = 1 .. n /\ DOMAIN module' = 1 .. n + 1
  BY <1>1, <1>3, AppendOne DEF Adds
<1>7. Head(helpers) = AllHelpers[n + 1] /\ n + 1 \in 1 .. Total /\ Total \in Nat
  BY <1>3, <1>5, <1>6
<1>8. HelpersPart'
  <2>1. helpers' \in Seq(ToSet(helpers'))
    BY <1>1, <1>5, SeqOfItsRange
  <2>2. \A i \in 1 .. Len(helpers') : helpers'[i] = AllHelpers[Len(module') + i]
    <3> SUFFICES ASSUME NEW i \in 1 .. Len(helpers) - 1
                 PROVE  Tail(helpers)[i] = AllHelpers[(n + 1) + i]
      BY <1>1, <1>5, <1>6
    <3>1. i + 1 \in 1 .. Len(helpers) /\ n + (i + 1) = (n + 1) + i
      BY <1>5, <1>6
    <3>2. QED
      BY <1>3, <1>5, <3>1
  <2>3. \A i \in DOMAIN module' : i <= Total => module'[i] = HelperDefinition(AllHelpers[i])
    BY <1>3, <1>6, <1>7
  <2>4. Len(module') + Len(helpers') = Total
    BY <1>1, <1>3, <1>5, <1>6
  <2>5. QED
    BY <1>1, <1>3, <1>4, <1>6, <2>1, <2>2, <2>3, <2>4 DEF HelpersPart
<1>9. NamesDistinct'
  <2>1. \A i \in 1 .. n + 1 : /\ module'[i] = HelperDefinition(AllHelpers[i]) /\ i \in 1 .. Total
    BY <1>3, <1>6, <1>7, SMTT(40)
  <2>2. ASSUME NEW i \in 1 .. n + 1, NEW j \in 1 .. n + 1, module'[i].sig.name = module'[j].sig.name
        PROVE  i = j
    <3>1. \A k \in 1 .. n + 1 : module'[k].sig.name = <<AllHelpers[k].fn, AllHelpers[k].shape>>
      BY <2>1, HelperName
    <3>2. AllHelpers[i].fn = AllHelpers[j].fn /\ AllHelpers[i].shape = AllHelpers[j].shape
      BY <2>2, <3>1
    <3>3. \A h : IsUsed(h) => h = [fn |-> h.fn, shape |-> h.shape]
      BY DEF IsUsed, Helper
    <3>4. AllHelpers[i] = AllHelpers[j]
      BY <1>3, <2>1, <3>2, <3>3, Known
    <3>5. QED
      BY <1>3, <2>1, <3>4, Known
  <2>3. QED
    BY <1>6, <2>2 DEF NamesDistinct
<1>10. TypeOK'
  BY <1>1, <1>2, <1>4 DEF TypeOK
<1>11. CircuitsPart'
  BY <1>1, <1>2, <1>3 DEF CircuitsPart
<1>12. FunctionsPart'
  BY <1>1, <1>3, <1>4, <1>6, <1>7 DEF FunctionsPart
<1>13. Outcome' /\ OnlyCalledRefused'
  BY <1>1 DEF Outcome, OnlyCalledRefused
<1>14. QED
  BY <1>8, <1>9, <1>10, <1>11, <1>12, <1>13 DEF IInv

\* HelpersEmitted keeps it: the module is the list then.
LEMMA HelpersEmittedInv ==
  ASSUME IInv, HelpersEmitted
  PROVE  IInv'
<1>1. /\ pc = "helpers" /\ helpers = <<>> /\ pc' = "circuits"
      /\ program' = program /\ helpers' = helpers /\ index' = index
      /\ registry' = registry /\ pending' = pending /\ module' = module
  BY DEF HelpersEmitted
<1>2. TypeOK /\ HelpersPart /\ CircuitsPart /\ FunctionsPart /\ NamesDistinct
  BY DEF IInv
<1>3. program \in Programs /\ index = 1 /\ Len(module) + Len(helpers) = Total
      /\ module \in Seq(ToSet(module))
  BY <1>1, <1>2 DEF HelpersPart
<1>4. /\ Circuits' = Circuits /\ Functions' = Functions /\ AllHelpers' = AllHelpers /\ Total' = Total
  BY <1>1, Stable
<1>5. Len(module) = Total /\ Total \in Nat /\ DOMAIN module = 1 .. Total
  <2>1. Len(module) \in Nat /\ Len(helpers) = 0 /\ DOMAIN module = 1 .. Len(module)
    BY <1>1, <1>3
  <2>2. QED
    BY <1>3, <2>1
<1>6. TypeOK'
  BY <1>1, <1>2, <1>4 DEF TypeOK
<1>7. HelpersPart'
  BY <1>1, <1>2, <1>3, <1>4, <1>5 DEF HelpersPart
<1>8. CircuitsPart'
  BY <1>1, <1>2, <1>3, <1>4, <1>5 DEF CircuitsPart
<1>9. FunctionsPart'
  BY <1>1, <1>3, <1>4, <1>5 DEF FunctionsPart
<1>10. NamesDistinct'
  BY <1>1, <1>2 DEF NamesDistinct
<1>11. Outcome' /\ OnlyCalledRefused'
  BY <1>1 DEF Outcome, OnlyCalledRefused
<1>12. QED
  BY <1>6, <1>7, <1>8, <1>9, <1>10, <1>11 DEF IInv

\* TranslateCircuit keeps it: the circuit goes after those before it, its keys to the registry.
LEMMA TranslateCircuitInv ==
  ASSUME IInv, TranslateCircuit
  PROVE  IInv'
<1> DEFINE n == Len(module)
           d == CircuitDefinition(index)
<1>1. /\ pc = "circuits" /\ index <= Len(Circuits) /\ pc' = pc
      /\ \A op \in ToSet(Circuits[index]) : OpcodeAccepted(op)
      /\ registry' = registry \union Keys(index)
      /\ module' = Append(module, d)
      /\ index' = index + 1
      /\ program' = program /\ helpers' = helpers /\ pending' = pending
  BY DEF TranslateCircuit, Register
<1>2. TypeOK /\ HelpersPart /\ CircuitsPart /\ FunctionsPart /\ NamesDistinct
  BY DEF IInv
<1>3. /\ program \in Programs /\ n = Total + index - 1
      /\ helpers \in Seq(ToSet(helpers)) /\ module \in Seq(ToSet(module))
      /\ \A i \in DOMAIN module : i <= Total => module[i] = HelperDefinition(AllHelpers[i])
      /\ \A c \in 1 .. index - 1 : /\ module[Total + c] = CircuitDefinition(c)
                                   /\ \A op \in ToSet(Circuits[c]) : OpcodeAccepted(op)
      /\ registry = UNION {Keys(c) : c \in 1 .. index - 1}
  BY <1>1, <1>2 DEF HelpersPart, CircuitsPart
<1>4. /\ Circuits' = Circuits /\ Functions' = Functions /\ AllHelpers' = AllHelpers /\ Total' = Total
      /\ \A c : CircuitDefinition(c)' = CircuitDefinition(c) /\ Keys(c)' = Keys(c)
      /\ \A op : OpcodeAccepted(op)' = OpcodeAccepted(op)
  BY <1>1, Stable
<1>5. /\ Len(Circuits) \in Nat /\ DOMAIN Circuits = 1 .. Len(Circuits) /\ Total \in Nat
      /\ index \in 1 .. Len(Circuits) /\ index \in DOMAIN Circuits
  BY <1>1, <1>2, <1>3, Known DEF TypeOK
<1>6. /\ module' \in Seq(ToSet(module')) /\ Len(module') = n + 1 /\ n \in Nat
      /\ \A i \in 1 .. n : module'[i] = module[i]
      /\ module'[n + 1] = d
      /\ DOMAIN module = 1 .. n /\ DOMAIN module' = 1 .. n + 1
  BY <1>1, <1>3, AppendOne DEF Adds
<1> HIDE DEF n, d
<1>7. TypeOK'
  <2>1. index' \in 1 .. Len(Circuits) + 1
    BY <1>1, <1>5
  <2>2. \A key \in Keys(index) : key \in Nat \X Nat \X Nat /\ key[1] \in DOMAIN Functions
    BY <1>1, <1>3, <1>5, KeysTyped
  <2>3. QED
    BY <1>1, <1>2, <1>4, <2>1, <2>2 DEF TypeOK
<1>8. HelpersPart'
  <2>1. \A i \in DOMAIN module' : i <= Total => module'[i] = HelperDefinition(AllHelpers[i])
    BY <1>3, <1>5, <1>6
  <2>2. QED
    BY <1>1, <1>3, <1>4, <1>5, <1>6, <2>1 DEF HelpersPart
<1>9. CircuitsPart'
  <2>1. ASSUME NEW c \in 1 .. index
        PROVE  /\ module'[Total + c] = CircuitDefinition(c)
               /\ \A op \in ToSet(Circuits[c]) : OpcodeAccepted(op)
    <3>1. CASE c = index
      <4>1. Total + c = n + 1
        BY <1>3, <1>5, <3>1
      <4>2. QED
        BY <1>1, <1>6, <3>1, <4>1 DEF d
    <3>2. CASE c # index
      <4>1. c \in 1 .. index - 1 /\ Total + c \in 1 .. n
        BY <1>3, <1>5, <3>2
      <4>2. QED
        BY <1>3, <1>6, <4>1
    <3>3. QED
      BY <3>1, <3>2
  <2>2. registry' = UNION {Keys(c) : c \in 1 .. index}
    <3>1. \A c : c \in 1 .. index <=> c \in 1 .. index - 1 \/ c = index
      BY <1>5
    <3>2. QED
      BY <1>1, <1>3, <3>1
  <2>3. Len(module') = Total + index' - 1 /\ index' - 1 = index
    BY <1>1, <1>3, <1>5, <1>6
  <2>4. QED
    BY <1>1, <1>4, <2>1, <2>2, <2>3 DEF CircuitsPart
<1>10. FunctionsPart'
  BY <1>1, <1>3, <1>4, <1>5, <1>6 DEF FunctionsPart
<1>11. NamesDistinct'
  <2>1. d.sig.name = <<"circuit", index>>
    BY DEF d, CircuitDefinition, Definition, CircuitSignature, Signature
  <2>2. ASSUME NEW i \in 1 .. n
        PROVE  module[i].sig.name # <<"circuit", index>>
    <3>1. CASE i <= Total
      <4>1. i \in 1 .. Total /\ i \in DOMAIN module
        BY <1>5, <1>6, <3>1
      <4>2. module[i] = HelperDefinition(AllHelpers[i])
        BY <1>3, <3>1, <4>1
      <4>3. /\ module[i].sig.name = <<AllHelpers[i].fn, AllHelpers[i].shape>>
            /\ AllHelpers[i].fn # "circuit"
        BY <1>3, <4>1, <4>2, HelperName, Known DEF HelperNames, BoxNames
      <4>4. QED
        BY <4>3
    <3>2. CASE i > Total
      <4>1. i - Total \in 1 .. index - 1 /\ Total + (i - Total) = i
        BY <1>3, <1>5, <1>6, <3>2
      <4>2. module[i] = CircuitDefinition(i - Total)
        BY <1>3, <4>1
      <4>3. module[i].sig.name = <<"circuit", i - Total>>
        BY <4>2 DEF CircuitDefinition, Definition, CircuitSignature, Signature
      <4>4. i - Total # index
        BY <1>5, <4>1
      <4>5. QED
        BY <4>3, <4>4
    <3>3. QED
      BY <1>5, <1>6, <3>1, <3>2
  <2>3. \A i, j \in 1 .. n : module[i].sig.name = module[j].sig.name => i = j
    BY <1>2, <1>6 DEF NamesDistinct
  <2>4. QED
    BY <1>6, <2>1, <2>2, <2>3 DEF NamesDistinct
<1>12. Outcome' /\ OnlyCalledRefused'
  BY <1>1 DEF Outcome, OnlyCalledRefused
<1>13. QED
  BY <1>7, <1>8, <1>9, <1>10, <1>11, <1>12 DEF IInv

\* RefuseCircuit keeps it: nothing but the outcome changes.
LEMMA RefuseCircuitInv ==
  ASSUME IInv, RefuseCircuit
  PROVE  IInv'
<1>1. /\ pc = "circuits" /\ index <= Len(Circuits) /\ pc' = "refused"
      /\ \E op \in ToSet(Circuits[index]) : ~OpcodeAccepted(op)
      /\ program' = program /\ helpers' = helpers /\ index' = index
      /\ registry' = registry /\ pending' = pending /\ module' = module
  BY DEF RefuseCircuit
<1>2. TypeOK /\ HelpersPart /\ CircuitsPart /\ FunctionsPart /\ NamesDistinct
  BY DEF IInv
<1>3. program \in Programs
  BY <1>2 DEF HelpersPart
<1>4. /\ Circuits' = Circuits /\ Functions' = Functions /\ AllHelpers' = AllHelpers /\ Total' = Total
      /\ \A c : CircuitDefinition(c)' = CircuitDefinition(c) /\ Keys(c)' = Keys(c)
      /\ \A op : OpcodeAccepted(op)' = OpcodeAccepted(op)
      /\ \A key : FunctionDefinitions(key)' = FunctionDefinitions(key)
  BY <1>1, Stable
<1>5. index \in DOMAIN Circuits
  BY <1>1, <1>2, <1>3, Known DEF TypeOK
<1>6. TypeOK'
  BY <1>1, <1>2, <1>4 DEF TypeOK
<1>7. HelpersPart'
  BY <1>1, <1>2, <1>4 DEF HelpersPart
<1>8. CircuitsPart'
  BY <1>1, <1>2, <1>4 DEF CircuitsPart
<1>9. FunctionsPart'
  BY <1>1, <1>2, <1>4 DEF FunctionsPart, Of
<1>10. NamesDistinct'
  BY <1>1, <1>2 DEF NamesDistinct
<1>11. Outcome'
  BY <1>1 DEF Outcome
<1>12. OnlyCalledRefused'
  BY <1>1, <1>4, <1>5 DEF OnlyCalledRefused
<1>13. QED
  BY <1>6, <1>7, <1>8, <1>9, <1>10, <1>11, <1>12 DEF IInv

\* CircuitsTranslated keeps it: everything that is registered becomes pending.
LEMMA CircuitsTranslatedInv ==
  ASSUME IInv, CircuitsTranslated
  PROVE  IInv'
<1>1. /\ pc = "circuits" /\ index > Len(Circuits) /\ pc' = "functions" /\ pending' = registry
      /\ program' = program /\ helpers' = helpers /\ index' = index
      /\ registry' = registry /\ module' = module
  BY DEF CircuitsTranslated, Entries
<1>2. TypeOK /\ HelpersPart /\ CircuitsPart /\ FunctionsPart /\ NamesDistinct
  BY DEF IInv
<1>3. program \in Programs /\ module \in Seq(ToSet(module)) /\ Len(module) = Total + index - 1
  BY <1>1, <1>2 DEF HelpersPart, CircuitsPart
<1>4. /\ Circuits' = Circuits /\ Functions' = Functions /\ AllHelpers' = AllHelpers /\ Total' = Total
      /\ \A c : CircuitDefinition(c)' = CircuitDefinition(c) /\ Keys(c)' = Keys(c)
      /\ \A op : OpcodeAccepted(op)' = OpcodeAccepted(op)
  BY <1>1, Stable
<1>5. /\ index = Len(Circuits) + 1 /\ index \in Nat /\ Total \in Nat
      /\ DOMAIN module = 1 .. Total + index - 1
  BY <1>1, <1>2, <1>3, Known DEF TypeOK
<1>6. TypeOK'
  BY <1>1, <1>2, <1>4 DEF TypeOK
<1>7. HelpersPart'
  BY <1>1, <1>2, <1>4 DEF HelpersPart
<1>8. CircuitsPart'
  BY <1>1, <1>2, <1>4, <1>5 DEF CircuitsPart
<1>9. FunctionsPart'
  BY <1>1, <1>4, <1>5 DEF FunctionsPart
<1>10. NamesDistinct'
  BY <1>1, <1>2 DEF NamesDistinct
<1>11. Outcome' /\ OnlyCalledRefused'
  BY <1>1 DEF Outcome, OnlyCalledRefused
<1>12. QED
  BY <1>6, <1>7, <1>8, <1>9, <1>10, <1>11 DEF IInv

\* What is called of the definitions of a function: their symbols carry its key.
LEMMA NamesOfFunction ==
  ASSUME program \in Programs, NEW key, key[1] \in DOMAIN Functions
  PROVE  LET defs == FunctionDefinitions(key)
         IN  /\ \A d \in DOMAIN defs : /\ defs[d].sig.name[1] \in {"brillig", "proc"}
                                       /\ defs[d].sig.name[2] = key
             /\ \A d, e \in DOMAIN defs : defs[d].sig.name = defs[e].sig.name => d = e
<1> DEFINE defs == FunctionDefinitions(key)
           procs == Functions[key[1]].procedures
           n == Len(procs)
<1>1. /\ n \in Nat /\ DOMAIN defs = 1 .. n + 1
      /\ defs[1] = Definition(FunctionSignature(key), BodyCalls(key, 0), key[3])
      /\ \A p \in 1 .. n : defs[1 + p] = Definition(ProcedureSignature(key, procs[p]), BodyCalls(key, procs[p]), 0)
      /\ \A p, q \in 1 .. n : procs[p] = procs[q] => p = q
  BY FunctionDefinitionsAre
<1> HIDE DEF defs, procs, n
<1>2. defs[1].sig.name = <<"brillig", key>>
  BY <1>1 DEF Definition, FunctionSignature, Signature
<1>3. \A p \in 1 .. n : defs[1 + p].sig.name = <<"proc", key, procs[p]>>
  <2>1. \A entry, calls : Definition(ProcedureSignature(key, entry), calls, 0).sig.name = <<"proc", key, entry>>
    BY DEF Definition, ProcedureSignature, Signature
  <2>2. QED
    BY <1>1, <2>1
<1>4. \A d \in 1 .. n + 1 : d = 1 \/ (d - 1 \in 1 .. n /\ d = 1 + (d - 1))
  BY <1>1
<1>5. ASSUME NEW d \in 1 .. n + 1
      PROVE  /\ defs[d].sig.name[1] \in {"brillig", "proc"}
             /\ defs[d].sig.name[2] = key
             /\ d = 1 <=> defs[d].sig.name[1] = "brillig"
             /\ d # 1 => defs[d].sig.name = <<"proc", key, procs[d - 1]>>
  <2>1. CASE d = 1
    BY <1>2, <2>1
  <2>2. CASE d # 1
    BY <1>3, <1>4, <2>2
  <2>3. QED
    BY <2>1, <2>2
<1>6. ASSUME NEW d \in 1 .. n + 1, NEW e \in 1 .. n + 1, defs[d].sig.name = defs[e].sig.name
      PROVE  d = e
  <2>1. CASE d = 1
    BY <1>5, <1>6, <2>1
  <2>2. CASE d # 1
    <3>1. e # 1
      BY <1>5, <1>6, <2>2
    <3>2. procs[d - 1] = procs[e - 1] /\ d - 1 \in 1 .. n /\ e - 1 \in 1 .. n
      BY <1>4, <1>5, <1>6, <2>2, <3>1
    <3>3. d - 1 = e - 1
      BY <1>1, <3>2
    <3>4. QED
      BY <1>1, <3>3
  <2>3. QED
    BY <2>1, <2>2
<1>7. QED
  BY <1>1, <1>5, <1>6 DEF defs

\* Where a definition is in the module tells whose it is.
LEMMA NamesByPlace ==
  ASSUME TypeOK, HelpersPart, CircuitsPart, FunctionsPart, pc # "helpers", NEW i \in DOMAIN module
  PROVE  /\ i <= Total => module[i].sig.name[1] \in HelperNames
         /\ i > Total /\ i < Total + index => module[i].sig.name[1] = "circuit"
         /\ i >= Total + index => /\ module[i].sig.name[1] \in {"brillig", "proc"}
                                  /\ module[i].sig.name[2] \in registry \ pending
<1>1. /\ program \in Programs /\ index \in Nat /\ Total \in Nat /\ i \in Nat /\ i > 0
      /\ Total + index - 1 <= Len(module)
  BY Known DEF TypeOK, HelpersPart
<1>2. ASSUME i <= Total
      PROVE  module[i].sig.name[1] \in HelperNames
  <2>1. module[i] = HelperDefinition(AllHelpers[i]) /\ i \in 1 .. Total
    BY <1>1, <1>2 DEF HelpersPart
  <2>2. /\ module[i].sig.name = <<AllHelpers[i].fn, AllHelpers[i].shape>>
        /\ AllHelpers[i].fn \in HelperNames
    BY <1>1, <2>1, HelperName, Known
  <2>3. QED
    BY <2>2
<1>3. ASSUME i > Total, i < Total + index
      PROVE  module[i].sig.name[1] = "circuit"
  <2>1. i - Total \in 1 .. index - 1 /\ Total + (i - Total) = i
    BY <1>1, <1>3
  <2>2. module[i] = CircuitDefinition(i - Total)
    BY <2>1 DEF CircuitsPart
  <2>3. module[i].sig.name = <<"circuit", i - Total>>
    BY <2>2 DEF CircuitDefinition, Definition, CircuitSignature, Signature
  <2>4. QED
    BY <2>3
<1>4. ASSUME i >= Total + index
      PROVE  /\ module[i].sig.name[1] \in {"brillig", "proc"}
             /\ module[i].sig.name[2] \in registry \ pending
  <2>1. PICK key \in registry \ pending : Of(module[i], key)
    BY <1>4 DEF FunctionsPart
  <2>2. PICK d \in DOMAIN FunctionDefinitions(key) : module[i] = FunctionDefinitions(key)[d]
    BY <2>1 DEF Of
  <2>3. key[1] \in DOMAIN Functions
    BY <2>1 DEF TypeOK
  <2>4. module[i].sig.name[1] \in {"brillig", "proc"} /\ module[i].sig.name[2] = key
    BY <1>1, <2>2, <2>3, NamesOfFunction
  <2>5. QED
    BY <2>1, <2>4
<1>5. QED
  BY <1>2, <1>3, <1>4

\* EmitFunction keeps it: the key that leaves the pending ones names all that is added.
LEMMA EmitFunctionInv ==
  ASSUME IInv, EmitFunction
  PROVE  IInv'
<1>1. PICK key \in pending :
         /\ Least(key) /\ FunctionAccepted(key)
         /\ module' = module \o FunctionDefinitions(key)
         /\ pending' = pending \ {key}
  BY DEF EmitFunction
<1> DEFINE n == Len(module)
           defs == FunctionDefinitions(key)
           k == Len(defs)
<1>2. /\ pc = "functions" /\ pc' = pc
      /\ program' = program /\ helpers' = helpers /\ index' = index /\ registry' = registry
  BY DEF EmitFunction
<1>3. TypeOK /\ HelpersPart /\ CircuitsPart /\ FunctionsPart /\ NamesDistinct
  BY DEF IInv
<1>4. /\ program \in Programs /\ module \in Seq(ToSet(module)) /\ Total + index - 1 <= n
      /\ helpers \in Seq(ToSet(helpers))
      /\ index = Len(Circuits) + 1 /\ Total \in Nat /\ Len(Circuits) \in Nat
      /\ key \in registry /\ key[1] \in DOMAIN Functions
  BY <1>2, <1>3, Known DEF HelpersPart, CircuitsPart, TypeOK
<1>5. /\ Circuits' = Circuits /\ Functions' = Functions /\ AllHelpers' = AllHelpers /\ Total' = Total
      /\ \A c : CircuitDefinition(c)' = CircuitDefinition(c) /\ Keys(c)' = Keys(c)
      /\ \A op : OpcodeAccepted(op)' = OpcodeAccepted(op)
      /\ \A x : FunctionDefinitions(x)' = FunctionDefinitions(x) /\ FunctionAccepted(x)' = FunctionAccepted(x)
  BY <1>2, Stable
<1>6. defs \in Seq(ToSet(defs)) /\ DOMAIN defs = 1 .. k /\ k \in Nat
  BY <1>4, FunctionDefinitionsAre
<1>7. /\ module' \in Seq(ToSet(module')) /\ n \in Nat /\ Len(module') = n + k
      /\ \A i \in 1 .. n : module'[i] = module[i]
      /\ \A i \in 1 .. k : module'[n + i] = defs[i]
      /\ DOMAIN module = 1 .. n /\ DOMAIN module' = 1 .. n + k
  <2>1. Joins(module \o defs, module, defs)
    BY <1>4, <1>6, ConcatTwo
  <2>2. DOMAIN module = 1 .. n /\ DOMAIN (module \o defs) = 1 .. Len(module \o defs)
    BY <1>4, <2>1 DEF Joins
  <2>3. QED
    BY <1>1, <2>1, <2>2 DEF Joins
<1> HIDE DEF n, defs, k
<1>8. \A i \in 1 .. n + k : i \in 1 .. n \/ (i > n /\ i - n \in 1 .. k /\ n + (i - n) = i)
  BY <1>6, <1>7
<1>9. TypeOK'
  BY <1>1, <1>2, <1>3, <1>5 DEF TypeOK
<1>10. HelpersPart'
  <2>1. \A i \in 1 .. n + k : i <= Total => module'[i] = HelperDefinition(AllHelpers[i])
    <3>1. \A i \in 1 .. n + k : i <= Total => i \in 1 .. n
      BY <1>4, <1>7
    <3>2. QED
      BY <1>3, <1>7, <3>1 DEF HelpersPart
  <2>2. Total + index - 1 <= n + k
    BY <1>4, <1>6, <1>7
  <2>3. QED
    BY <1>2, <1>4, <1>5, <1>7, <2>1, <2>2 DEF HelpersPart
<1>11. CircuitsPart'
  <2>1. ASSUME NEW c \in 1 .. index - 1
        PROVE  module'[Total + c] = CircuitDefinition(c)
    <3>1. Total + c \in 1 .. n
      BY <1>4, <1>7
    <3>2. QED
      BY <1>3, <1>7, <3>1 DEF CircuitsPart
  <2>2. QED
    BY <1>2, <1>3, <1>4, <1>5, <2>1 DEF CircuitsPart
<1>12. FunctionsPart'
  <2>1. registry' \ pending' = (registry \ pending) \union {key}
    BY <1>1, <1>2, <1>4
  <2>2. ASSUME NEW i \in 1 .. n + k, i >= Total + index
        PROVE  \E x \in registry' \ pending' : Of(module'[i], x)
    <3>1. CASE i \in 1 .. n
      BY <1>3, <1>7, <2>1, <2>2, <3>1 DEF FunctionsPart
    <3>2. CASE i \notin 1 .. n
      <4>1. i - n \in 1 .. k /\ module'[i] = defs[i - n]
        BY <1>7, <1>8, <3>2
      <4>2. Of(module'[i], key)
        BY <1>6, <4>1 DEF Of, defs
      <4>3. QED
        BY <2>1, <4>2
    <3>3. QED
      BY <3>1, <3>2
  <2>3. ASSUME NEW x \in registry' \ pending'
        PROVE  /\ FunctionAccepted(x)
               /\ \A d \in DOMAIN FunctionDefinitions(x) :
                     \E i \in 1 .. n + k : module'[i] = FunctionDefinitions(x)[d]
    <3>1. CASE x = key
      <4>1. ASSUME NEW d \in DOMAIN defs
            PROVE  \E i \in 1 .. n + k : module'[i] = defs[d]
        <5>1. n + d \in 1 .. n + k /\ module'[n + d] = defs[d]
          BY <1>6, <1>7
        <5>2. QED
          BY <5>1
      <4>2. QED
        BY <1>1, <3>1, <4>1 DEF defs
    <3>2. CASE x # key
      <4>1. x \in registry \ pending
        BY <2>1, <3>2
      <4>2. /\ FunctionAccepted(x)
            /\ \A d \in DOMAIN FunctionDefinitions(x) :
                  \E i \in 1 .. n : module[i] = FunctionDefinitions(x)[d]
        BY <1>2, <1>3, <1>7, <4>1 DEF FunctionsPart
      <4>3. \A i \in 1 .. n : i \in 1 .. n + k /\ module'[i] = module[i]
        BY <1>6, <1>7
      <4>4. QED
        BY <4>2, <4>3
    <3>3. QED
      BY <3>1, <3>2
  <2>4. QED
    BY <1>2, <1>5, <1>7, <2>2, <2>3 DEF FunctionsPart, Of
<1>13. NamesDistinct'
  <2>1. ASSUME NEW i \in 1 .. n, NEW d \in 1 .. k
        PROVE  module[i].sig.name # defs[d].sig.name
    <3>1. defs[d].sig.name[1] \in {"brillig", "proc"} /\ defs[d].sig.name[2] = key
      BY <1>4, <1>6, NamesOfFunction DEF defs
    <3>2. \/ module[i].sig.name[1] \in HelperNames
          \/ module[i].sig.name[1] = "circuit"
          \/ module[i].sig.name[2] \in registry \ pending
      <4>1. i \in DOMAIN module /\ pc # "helpers" /\ index \in Nat /\ Total \in Nat /\ i \in Nat
        BY <1>2, <1>4, <1>7
      <4>2. i <= Total \/ (i > Total /\ i < Total + index) \/ i >= Total + index
        BY <4>1
      <4>3. QED
        BY <1>3, <4>1, <4>2, NamesByPlace
    <3>3. QED
      BY <1>1, <3>1, <3>2 DEF HelperNames, BoxNames
  <2>2. \A d, e \in 1 .. k : defs[d].sig.name = defs[e].sig.name => d = e
    BY <1>4, <1>6, NamesOfFunction DEF defs
  <2>3. ASSUME NEW i \in 1 .. n + k, NEW j \in 1 .. n + k, module'[i].sig.name = module'[j].sig.name
        PROVE  i = j
    <3>1. CASE i \in 1 .. n /\ j \in 1 .. n
      BY <1>3, <1>7, <2>3, <3>1 DEF NamesDistinct
    <3>2. CASE i \in 1 .. n /\ j \notin 1 .. n
      <4>1. j - n \in 1 .. k /\ module'[j] = defs[j - n] /\ module'[i] = module[i]
        BY <1>7, <1>8, <3>2
      <4>2. QED
        BY <2>1, <2>3, <3>2, <4>1
    <3>3. CASE i \notin 1 .. n /\ j \in 1 .. n
      <4>1. i - n \in 1 .. k /\ module'[i] = defs[i - n] /\ module'[j] = module[j]
        BY <1>7, <1>8, <3>3
      <4>2. QED
        BY <2>1, <2>3, <3>3, <4>1
    <3>4. CASE i \notin 1 .. n /\ j \notin 1 .. n
      <4>1. /\ i - n \in 1 .. k /\ module'[i] = defs[i - n]
            /\ j - n \in 1 .. k /\ module'[j] = defs[j - n]
        BY <1>7, <1>8, <3>4
      <4>2. i - n = j - n
        BY <2>2, <2>3, <4>1
      <4>3. QED
        BY <1>6, <1>7, <4>2
    <3>5. QED
      BY <3>1, <3>2, <3>3, <3>4
  <2>4. QED
    BY <1>7, <2>3 DEF NamesDistinct
<1>14. Outcome' /\ OnlyCalledRefused'
  BY <1>2 DEF Outcome, OnlyCalledRefused
<1>15. QED
  BY <1>9, <1>10, <1>11, <1>12, <1>13, <1>14 DEF IInv

\* RefuseFunction keeps it: the function that is refused was registered by a circuit.
LEMMA RefuseFunctionInv ==
  ASSUME IInv, RefuseFunction
  PROVE  IInv'
<1>1. PICK key \in pending : ~FunctionAccepted(key)
  BY DEF RefuseFunction
<1>2. /\ pc = "functions" /\ pc' = "refused"
      /\ program' = program /\ helpers' = helpers /\ index' = index
      /\ registry' = registry /\ pending' = pending /\ module' = module
  BY DEF RefuseFunction
<1>3. TypeOK /\ HelpersPart /\ CircuitsPart /\ FunctionsPart /\ NamesDistinct
  BY DEF IInv
<1>4. /\ Circuits' = Circuits /\ Functions' = Functions /\ AllHelpers' = AllHelpers /\ Total' = Total
      /\ \A c : CircuitDefinition(c)' = CircuitDefinition(c) /\ Keys(c)' = Keys(c)
      /\ \A op : OpcodeAccepted(op)' = OpcodeAccepted(op)
      /\ \A x : FunctionDefinitions(x)' = FunctionDefinitions(x) /\ FunctionAccepted(x)' = FunctionAccepted(x)
      /\ CalledKeys' = CalledKeys
  BY <1>2, Stable
<1>5. key \in CalledKeys
  <2>1. program \in Programs /\ key \in registry /\ index = Len(Circuits) + 1
    BY <1>1, <1>2, <1>3 DEF HelpersPart, CircuitsPart, TypeOK
  <2>2. PICK c \in 1 .. index - 1 : key \in Keys(c)
    BY <1>3, <2>1 DEF CircuitsPart
  <2>3. c \in DOMAIN Circuits
    BY <2>1, Known
  <2>4. QED
    BY <2>2, <2>3 DEF CalledKeys
<1>6. TypeOK'
  BY <1>2, <1>3, <1>4 DEF TypeOK
<1>7. HelpersPart'
  BY <1>2, <1>3, <1>4 DEF HelpersPart
<1>8. CircuitsPart'
  BY <1>2, <1>3, <1>4 DEF CircuitsPart
<1>9. FunctionsPart'
  BY <1>2, <1>3, <1>4 DEF FunctionsPart, Of
<1>10. NamesDistinct'
  BY <1>2, <1>3 DEF NamesDistinct
<1>11. Outcome'
  BY <1>2 DEF Outcome
<1>12. OnlyCalledRefused'
  BY <1>1, <1>4, <1>5 DEF OnlyCalledRefused
<1>13. QED
  BY <1>6, <1>7, <1>8, <1>9, <1>10, <1>11, <1>12 DEF IInv

\* Verify keeps it.
LEMMA VerifyInv ==
  ASSUME IInv, Verify
  PROVE  IInv'
<1>1. /\ pc = "functions" /\ pending = {} /\ pc' = IF Verifies THEN "done" ELSE "invalid"
      /\ program' = program /\ helpers' = helpers /\ index' = index
      /\ registry' = registry /\ pending' = pending /\ module' = module
  BY DEF Verify
<1>2. TypeOK /\ HelpersPart /\ CircuitsPart /\ FunctionsPart /\ NamesDistinct
  BY DEF IInv
<1>3. /\ Circuits' = Circuits /\ Functions' = Functions /\ AllHelpers' = AllHelpers /\ Total' = Total
      /\ \A c : CircuitDefinition(c)' = CircuitDefinition(c) /\ Keys(c)' = Keys(c)
      /\ \A op : OpcodeAccepted(op)' = OpcodeAccepted(op)
      /\ \A x : FunctionDefinitions(x)' = FunctionDefinitions(x) /\ FunctionAccepted(x)' = FunctionAccepted(x)
  BY <1>1, Stable
<1>4. pc' = "done" \/ pc' = "invalid"
  BY <1>1
<1>5. Verifies' <=> Verifies
  BY <1>1 DEF Verifies, Defined
<1>6. TypeOK'
  BY <1>1, <1>2, <1>3, <1>4 DEF TypeOK
<1>7. HelpersPart'
  BY <1>1, <1>2, <1>3, <1>4 DEF HelpersPart
<1>8. CircuitsPart'
  BY <1>1, <1>2, <1>3, <1>4 DEF CircuitsPart
<1>9. FunctionsPart'
  BY <1>1, <1>2, <1>3, <1>4 DEF FunctionsPart, Of
<1>10. NamesDistinct'
  BY <1>1, <1>2 DEF NamesDistinct
<1>11. Outcome'
  BY <1>1, <1>5 DEF Outcome
<1>12. OnlyCalledRefused'
  BY <1>4 DEF OnlyCalledRefused
<1>13. QED
  BY <1>6, <1>7, <1>8, <1>9, <1>10, <1>11, <1>12 DEF IInv

\* A step that changes nothing keeps it.
LEMMA StutterInv ==
  ASSUME IInv, UNCHANGED vars
  PROVE  IInv'
<1>1. /\ pc' = pc /\ program' = program /\ helpers' = helpers /\ index' = index
      /\ registry' = registry /\ pending' = pending /\ module' = module
  BY DEF vars
<1>2. TypeOK /\ HelpersPart /\ CircuitsPart /\ FunctionsPart /\ NamesDistinct /\ Outcome /\ OnlyCalledRefused
  BY DEF IInv
<1>3. /\ Circuits' = Circuits /\ Functions' = Functions /\ AllHelpers' = AllHelpers /\ Total' = Total
      /\ \A c : CircuitDefinition(c)' = CircuitDefinition(c) /\ Keys(c)' = Keys(c)
      /\ \A op : OpcodeAccepted(op)' = OpcodeAccepted(op)
      /\ \A x : FunctionDefinitions(x)' = FunctionDefinitions(x) /\ FunctionAccepted(x)' = FunctionAccepted(x)
      /\ CalledKeys' = CalledKeys
  BY <1>1, Stable
<1>4. Verifies' <=> Verifies
  BY <1>1 DEF Verifies, Defined
<1>5. TypeOK'
  BY <1>1, <1>2, <1>3 DEF TypeOK
<1>6. HelpersPart'
  BY <1>1, <1>2, <1>3 DEF HelpersPart
<1>7. CircuitsPart'
  BY <1>1, <1>2, <1>3 DEF CircuitsPart
<1>8. FunctionsPart'
  BY <1>1, <1>2, <1>3 DEF FunctionsPart, Of
<1>9. NamesDistinct' /\ Outcome'
  BY <1>1, <1>2, <1>4 DEF NamesDistinct, Outcome
<1>10. OnlyCalledRefused'
  BY <1>1, <1>2, <1>3 DEF OnlyCalledRefused
<1>11. QED
  BY <1>5, <1>6, <1>7, <1>8, <1>9, <1>10 DEF IInv

\* The module is the list of helpers, then the circuits, then the functions emitted so far.
THEOREM Invariance == Spec => []IInv
<1>1. Init => IInv
  BY InitInv
<1>2. ASSUME IInv, [Next]_vars
      PROVE  IInv'
  <2>1. CASE EmitHelper
    BY <1>2, <2>1, EmitHelperInv
  <2>2. CASE HelpersEmitted
    BY <1>2, <2>2, HelpersEmittedInv
  <2>3. CASE TranslateCircuit
    BY <1>2, <2>3, TranslateCircuitInv
  <2>4. CASE RefuseCircuit
    BY <1>2, <2>4, RefuseCircuitInv
  <2>5. CASE CircuitsTranslated
    BY <1>2, <2>5, CircuitsTranslatedInv
  <2>6. CASE EmitFunction
    BY <1>2, <2>6, EmitFunctionInv
  <2>7. CASE RefuseFunction
    BY <1>2, <2>7, RefuseFunctionInv
  <2>8. CASE Verify
    BY <1>2, <2>8, VerifyInv
  <2>9. CASE Finished \/ UNCHANGED vars
    BY <1>2, <2>9, StutterInv DEF Finished
  <2>10. QED
    BY <1>2, <2>1, <2>2, <2>3, <2>4, <2>5, <2>6, <2>7, <2>8, <2>9 DEF Next
<1>3. QED
  BY <1>1, <1>2, PTL DEF Spec

\* Whatever is pending or registered names a function of the program, on counts.
THEOREM TypeCorrect == Spec => []TypeOK
<1>1. IInv => TypeOK
  BY DEF IInv
<1>2. QED
  BY <1>1, Invariance, PTL

\* A translation is refused for an opcode of a circuit or for bytecode that a circuit
\* calls, for every program: bytecode that is not called cannot stop it.
THEOREM OnlyCalledBytecodeRefuses == Spec => []OnlyCalledRefused
<1>1. IInv => OnlyCalledRefused
  BY DEF IInv
<1>2. QED
  BY <1>1, Invariance, PTL

---------------------------------------------------------------------------
\* Who calls what

\* What the invariant says of the places of the module.
LEMMA Places ==
  ASSUME IInv, NEW i \in DOMAIN module
  PROVE  /\ program \in Programs /\ Total \in Nat /\ index \in Nat /\ index > 0
         /\ module \in Seq(ToSet(module)) /\ i \in Nat /\ i > 0 /\ i <= Len(module)
         /\ i <= Total => i \in 1 .. Total /\ module[i] = HelperDefinition(AllHelpers[i])
         /\ i > Total => pc # "helpers"
         /\ i > Total /\ i < Total + index =>
               /\ i - Total \in DOMAIN Circuits
               /\ module[i] = CircuitDefinition(i - Total)
               /\ Keys(i - Total) \subseteq registry
               /\ \A op \in ToSet(Circuits[i - Total]) : OpcodeAccepted(op)
<1>1. TypeOK /\ HelpersPart /\ CircuitsPart
  BY DEF IInv
<1>2. /\ program \in Programs /\ Total \in Nat /\ Len(Circuits) \in Nat
      /\ DOMAIN Circuits = 1 .. Len(Circuits)
  BY <1>1, Known DEF HelpersPart
<1>3. index \in 1 .. Len(Circuits) + 1
  BY <1>1 DEF TypeOK
<1>4. module \in Seq(ToSet(module)) /\ i \in Nat /\ i > 0 /\ i <= Len(module) /\ Len(module) \in Nat
  <2>1. module \in Seq(ToSet(module))
    BY <1>1 DEF HelpersPart
  <2>2. QED
    BY <2>1
<1>5. i <= Total => i \in 1 .. Total /\ module[i] = HelperDefinition(AllHelpers[i])
  BY <1>1, <1>2, <1>4 DEF HelpersPart
<1>6. ASSUME i > Total
      PROVE  pc # "helpers"
  <2>1. SUFFICES ASSUME pc = "helpers"
                 PROVE  FALSE
    OBVIOUS
  <2>2. helpers \in Seq(ToSet(helpers)) /\ Len(module) + Len(helpers) = Total
    BY <1>1, <2>1 DEF HelpersPart
  <2>3. Len(helpers) \in Nat
    BY <2>2
  <2>4. QED
    BY <1>2, <1>4, <1>6, <2>2, <2>3
<1>7. ASSUME i > Total, i < Total + index
      PROVE  /\ i - Total \in DOMAIN Circuits
             /\ module[i] = CircuitDefinition(i - Total)
             /\ Keys(i - Total) \subseteq registry
             /\ \A op \in ToSet(Circuits[i - Total]) : OpcodeAccepted(op)
  <2>1. i - Total \in 1 .. index - 1 /\ Total + (i - Total) = i /\ i - Total \in 1 .. Len(Circuits)
    BY <1>2, <1>3, <1>4, <1>7
  <2>2. QED
    BY <1>1, <1>2, <2>1 DEF CircuitsPart
<1>8. QED
  BY <1>2, <1>3, <1>4, <1>5, <1>6, <1>7

\* The helper of a box of the program is in the module once the helpers are.
LEMMA HelperPlace ==
  ASSUME IInv, pc # "helpers", NEW b \in Boxes
  PROVE  /\ HelperOf(b).fn \in HelperNames
         /\ \E j \in 1 .. Total : j \in DOMAIN module /\ module[j] = HelperDefinition(HelperOf(b))
<1>1. /\ program \in Programs /\ index \in Nat /\ index > 0 /\ module \in Seq(ToSet(module))
      /\ Total + index - 1 <= Len(module)
      /\ \A i \in DOMAIN module : i <= Total => module[i] = HelperDefinition(AllHelpers[i])
  <2>1. TypeOK /\ HelpersPart
    BY DEF IInv
  <2>2. Len(Circuits) \in Nat
    BY <2>1, Known DEF HelpersPart
  <2>3. QED
    BY <2>1, <2>2 DEF HelpersPart, TypeOK
<1>2. Total \in Nat /\ DOMAIN AllHelpers = 1 .. Total
  BY <1>1, Known
<1>3. HelperOf(b) \in ToSet(AllHelpers)
  BY <1>1, BoxIsUsed, AllHelpersTidy
<1>4. PICK j \in 1 .. Total : AllHelpers[j] = HelperOf(b)
  BY <1>2, <1>3 DEF ToSet
<1>5. j \in DOMAIN module
  <2>1. DOMAIN module = 1 .. Len(module) /\ Len(module) \in Nat
    BY <1>1
  <2>2. QED
    BY <1>1, <1>2, <2>1
<1>6. module[j] = HelperDefinition(HelperOf(b))
  BY <1>1, <1>2, <1>4, <1>5
<1>7. HelperOf(b).fn \in HelperNames
  BY <1>1, BoxesTyped, HelperOfBox
<1>8. QED
  BY <1>5, <1>6, <1>7

\* A helper calls helpers that are before it.
LEMMA CallsOfHelper ==
  ASSUME IInv, NEW i \in DOMAIN module, i <= Total, NEW sig \in module[i].calls
  PROVE  /\ sig.name[1] \in HelperNames
         /\ \E j \in 1 .. i - 1 : j \in DOMAIN module /\ module[j].sig = sig
<1>1. /\ program \in Programs /\ i \in 1 .. Total /\ Total \in Nat
      /\ module[i] = HelperDefinition(AllHelpers[i])
      /\ DOMAIN module = 1 .. Len(module) /\ i <= Len(module) /\ Len(module) \in Nat
  BY Places
<1>2. PICK fn \in Callees(AllHelpers[i].fn) : sig = HelperSignature(Helper(fn, 0))
  BY <1>1 DEF HelperDefinition, Definition
<1>3. PICK j \in 1 .. i - 1 : AllHelpers[j] = Helper(fn, 0)
  BY <1>1, <1>2, AllHelpersTidy, Known DEF Parts, Tidy
<1>4. j \in DOMAIN module /\ j \in 1 .. Total /\ j <= Total
  BY <1>1, <1>3
<1>5. module[j] = HelperDefinition(AllHelpers[j])
  BY <1>4, Places
<1>6. module[j].sig = sig
  BY <1>2, <1>3, <1>5, HelperName
<1>7. sig.name[1] \in HelperNames
  <2>1. module[j].sig.name = <<AllHelpers[j].fn, AllHelpers[j].shape>>
    BY <1>5, HelperName
  <2>2. AllHelpers[j].fn \in HelperNames
    BY <1>1, <1>4, Known
  <2>3. QED
    BY <1>6, <2>1, <2>2
<1>8. QED
  BY <1>3, <1>4, <1>6, <1>7

\* A circuit calls helpers on their signature, circuits, and functions that are registered.
LEMMA CallsOfCircuit ==
  ASSUME IInv, NEW i \in DOMAIN module, i > Total, i < Total + index, NEW sig \in module[i].calls
  PROVE  \/ /\ sig.name[1] \in HelperNames
            /\ \E j \in 1 .. Total : j \in DOMAIN module /\ module[j].sig = sig
         \/ \E c \in DOMAIN Circuits : sig = CircuitSignature(c)
         \/ \E key \in registry : sig = FunctionSignature(key)
<1> DEFINE c == i - Total
<1>1. /\ program \in Programs /\ pc # "helpers" /\ c \in DOMAIN Circuits
      /\ module[i] = CircuitDefinition(c) /\ Keys(c) \subseteq registry
      /\ \A op \in ToSet(Circuits[c]) : OpcodeAccepted(op)
  BY Places
<1> HIDE DEF c
<1>2. sig \in CircuitCalls(c)
  BY <1>1 DEF CircuitDefinition, Definition
<1>3. CASE \E op \in ToSet(Circuits[c]) : op.kind = "blackbox" /\ sig = BoxCall(op, BoxArguments(op))
  <2>1. PICK op \in ToSet(Circuits[c]) : op.kind = "blackbox" /\ sig = BoxCall(op, BoxArguments(op))
    BY <1>3
  <2>2. op \in Boxes /\ AcirBoxAccepted(op)
    BY <1>1, <2>1 DEF Boxes, AcirBoxes, OpcodeAccepted
  <2>3. sig = HelperSignature(HelperOf(op))
    BY <1>1, <2>1, <2>2, AcirCallMatches, BoxesTyped
  <2>4. PICK j \in 1 .. Total : j \in DOMAIN module /\ module[j] = HelperDefinition(HelperOf(op))
    BY <1>1, <2>2, HelperPlace
  <2>5. module[j].sig = sig /\ sig.name = <<HelperOf(op).fn, HelperOf(op).shape>>
    BY <2>3, <2>4, HelperName
  <2>6. HelperOf(op).fn \in HelperNames
    BY <1>1, <2>2, HelperPlace
  <2>7. QED
    BY <2>4, <2>5, <2>6
<1>4. CASE \E op \in ToSet(Circuits[c]) : op.kind = "call" /\ sig = CircuitSignature(op.id)
  BY <1>1, <1>4 DEF OpcodeAccepted
<1>5. CASE \E key \in Keys(c) : sig = FunctionSignature(key)
  BY <1>1, <1>5
<1>6. QED
  BY <1>2, <1>3, <1>4, <1>5 DEF CircuitCalls

\* What a function, or a procedure of it, calls.
OfBody(sig, key) ==
    \/ \E b \in ToSet(Functions[key[1]].boxes) : b.live /\ sig = BoxCall(b, BrilligBoxArguments(b))
    \/ \E entry \in ToSet(Functions[key[1]].procedures) : sig = ProcedureSignature(key, entry)

\* Every definition after the circuits makes the calls of a body of its function.
LEMMA CallsOfFunction ==
  ASSUME IInv, NEW i \in DOMAIN module, i >= Total + index, NEW sig \in module[i].calls
  PROVE  \E key \in registry \ pending : OfBody(sig, key)
<1>1. TypeOK /\ FunctionsPart /\ program \in Programs
  BY DEF IInv, HelpersPart
<1>2. PICK key \in registry \ pending : Of(module[i], key)
  BY <1>1 DEF FunctionsPart
<1> DEFINE defs == FunctionDefinitions(key)
           procs == Functions[key[1]].procedures
<1>3. PICK d \in DOMAIN defs : module[i] = defs[d]
  BY <1>2 DEF Of
<1>4. key[1] \in DOMAIN Functions
  BY <1>1, <1>2 DEF TypeOK
<1>5. /\ DOMAIN defs = 1 .. Len(procs) + 1 /\ Len(procs) \in Nat
      /\ defs[1] = Definition(FunctionSignature(key), BodyCalls(key, 0), key[3])
      /\ \A p \in 1 .. Len(procs) :
            defs[1 + p] = Definition(ProcedureSignature(key, procs[p]), BodyCalls(key, procs[p]), 0)
  BY <1>1, <1>4, FunctionDefinitionsAre
<1> HIDE DEF defs, procs
<1>6. \E body : module[i].calls = BodyCalls(key, body)
  <2>1. \A s, calls, returned : Definition(s, calls, returned).calls = calls
    BY DEF Definition
  <2>2. d = 1 \/ (d - 1 \in 1 .. Len(procs) /\ 1 + (d - 1) = d)
    BY <1>3, <1>5
  <2>3. CASE d = 1
    BY <1>3, <1>5, <2>1, <2>3
  <2>4. CASE d - 1 \in 1 .. Len(procs) /\ 1 + (d - 1) = d
    <3>1. defs[1 + (d - 1)].calls = BodyCalls(key, procs[d - 1])
      BY <1>5, <2>1, <2>4
    <3>2. QED
      BY <1>3, <2>4, <3>1
  <2>5. QED
    BY <2>2, <2>3, <2>4
<1>7. \A call \in Functions[key[1]].calls : call.to \in ToSet(Functions[key[1]].procedures)
  BY <1>1, <1>4, DriverAssumption DEF IsProgram, IsFunction, Functions
<1>8. OfBody(sig, key)
  BY <1>6, <1>7 DEF BodyCalls, OfBody
<1>9. QED
  BY <1>8

\* A box of bytecode is called on the name of its helper.
LEMMA BodyBox ==
  ASSUME IInv, pc # "helpers", NEW key \in registry, NEW b \in ToSet(Functions[key[1]].boxes)
  PROVE  /\ b \in Boxes /\ IsBox(b)
         /\ LET name == BoxCall(b, BrilligBoxArguments(b)).name
            IN  /\ name = HelperSignature(HelperOf(b)).name
                /\ name[1] \in HelperNames
<1>1. TypeOK /\ program \in Programs
  BY DEF IInv, HelpersPart
<1>2. b \in Boxes /\ IsBox(b)
  BY <1>1, BoxesTyped DEF TypeOK, BrilligBoxes
<1>3. BoxCall(b, BrilligBoxArguments(b)).name = <<HelperOf(b).fn, HelperOf(b).shape>>
  BY DEF BoxCall, Signature
<1>4. HelperSignature(HelperOf(b)).name = <<HelperOf(b).fn, HelperOf(b).shape>>
  BY DEF HelperSignature, Signature
<1>5. QED
  BY <1>2, <1>3, <1>4, HelperPlace

NotHelpers == {"circuit", "brillig", "proc"}

\* No helper has the name of a circuit, of a function or of a procedure.
LEMMA HelperNamesApart ==
  ASSUME NEW name \in HelperNames
  PROVE  name \notin NotHelpers
  BY DEF HelperNames, BoxNames, NotHelpers

\* The names of the other symbols.
LEMMA OtherNames ==
  /\ \A c : CircuitSignature(c).name[1] = "circuit"
  /\ \A key : FunctionSignature(key).name[1] = "brillig" /\ FunctionSignature(key).name[2] = key
  /\ \A key, entry : ProcedureSignature(key, entry).name[1] = "proc"
  BY DEF CircuitSignature, FunctionSignature, ProcedureSignature, Signature

\* The invariant puts the helpers before their callers.
LEMMA InOrder == IInv => HelpersInOrder
<1> SUFFICES ASSUME IInv, NEW i \in DOMAIN module, NEW sig \in module[i].calls,
                    sig.name[1] \notin NotHelpers
             PROVE  \E j \in 1 .. i - 1 : module[j].sig.name = sig.name
  BY DEF HelpersInOrder, NotHelpers
<1>1. Total \in Nat /\ index \in Nat /\ index > 0 /\ i \in Nat /\ (i > Total => pc # "helpers")
  BY Places
<1>2. CASE i <= Total
  BY <1>2, CallsOfHelper
<1>3. CASE i > Total /\ i < Total + index
  <2>1. PICK j \in 1 .. Total : module[j].sig = sig
    BY <1>3, CallsOfCircuit, OtherNames DEF NotHelpers
  <2>2. j \in 1 .. i - 1
    BY <1>1, <1>3, <2>1
  <2>3. QED
    BY <2>1, <2>2
<1>4. CASE i >= Total + index
  <2>1. i > Total /\ pc # "helpers"
    BY <1>1, <1>4
  <2>2. PICK key \in registry \ pending : OfBody(sig, key)
    BY <1>4, CallsOfFunction
  <2>3. PICK b \in ToSet(Functions[key[1]].boxes) : sig = BoxCall(b, BrilligBoxArguments(b))
    BY <2>2, OtherNames DEF OfBody, NotHelpers
  <2>4. b \in Boxes /\ sig.name = HelperSignature(HelperOf(b)).name
    BY <2>1, <2>2, <2>3, BodyBox
  <2>5. PICK j \in 1 .. Total : module[j] = HelperDefinition(HelperOf(b))
    BY <2>1, <2>4, HelperPlace
  <2>6. module[j].sig.name = sig.name
    BY <2>4, <2>5, HelperName
  <2>7. j \in 1 .. i - 1
    BY <1>1, <2>1, <2>5
  <2>8. QED
    BY <2>6, <2>7
<1>5. QED
  BY <1>1, <1>2, <1>3, <1>4

\* The helper of a call is before the call, in every module of every program: the order of
\* BlackboxFunction::used_in_program, and that its search misses no box that is called.
THEOREM HelpersBeforeCalls == Spec => []HelpersInOrder
BY InOrder, Invariance, PTL

\* A registered function that is not pending any more is in the module.
LEMMA Emitted ==
  ASSUME IInv, pc \in {"functions", "done", "invalid"}, NEW key \in registry \ pending
  PROVE  /\ FunctionAccepted(key)
         /\ key[1] \in DOMAIN Functions
         /\ Defined(FunctionSignature(key))
         /\ \A entry \in ToSet(Functions[key[1]].procedures) : Defined(ProcedureSignature(key, entry))
         /\ \A body : body = 0 \/ body \in ToSet(Functions[key[1]].procedures) =>
               \E i \in DOMAIN module : module[i].calls = BodyCalls(key, body)
<1> DEFINE defs == FunctionDefinitions(key)
           procs == Functions[key[1]].procedures
<1>1. TypeOK /\ FunctionsPart /\ program \in Programs
  BY DEF IInv, HelpersPart
<1>2. key[1] \in DOMAIN Functions
  BY <1>1 DEF TypeOK
<1>3. /\ DOMAIN defs = 1 .. Len(procs) + 1 /\ Len(procs) \in Nat /\ procs \in Seq(Nat)
      /\ defs[1] = Definition(FunctionSignature(key), BodyCalls(key, 0), key[3])
      /\ \A p \in 1 .. Len(procs) :
            defs[1 + p] = Definition(ProcedureSignature(key, procs[p]), BodyCalls(key, procs[p]), 0)
  BY <1>1, <1>2, FunctionDefinitionsAre
<1>4. FunctionAccepted(key) /\ \A d \in DOMAIN defs : \E i \in DOMAIN module : module[i] = defs[d]
  BY <1>1 DEF FunctionsPart
<1> HIDE DEF defs
<1>5. \A s, calls, returned : /\ Definition(s, calls, returned).calls = calls
                              /\ Definition(s, calls, returned).sig = s
  BY DEF Definition
<1>6. PICK main \in DOMAIN module : module[main] = defs[1]
  <2>1. 1 \in DOMAIN defs
    BY <1>3
  <2>2. QED
    BY <1>4, <2>1
<1>7. module[main].sig = FunctionSignature(key) /\ module[main].calls = BodyCalls(key, 0)
  BY <1>3, <1>5, <1>6
<1>8. ASSUME NEW entry \in ToSet(procs)
      PROVE  \E i \in DOMAIN module : /\ module[i].sig = ProcedureSignature(key, entry)
                                      /\ module[i].calls = BodyCalls(key, entry)
  <2>1. PICK p \in 1 .. Len(procs) : procs[p] = entry
    BY <1>3 DEF ToSet
  <2>2. 1 + p \in DOMAIN defs
    BY <1>3, <2>1
  <2>3. PICK i \in DOMAIN module : module[i] = defs[1 + p]
    BY <1>4, <2>2
  <2>4. QED
    BY <1>3, <1>5, <2>1, <2>3
<1>9. QED
  BY <1>2, <1>4, <1>7, <1>8 DEF Defined

\* The invariant has every call of a function registered, and defined once it is emitted.
LEMMA Registered == IInv => CallsRegistered
<1> SUFFICES ASSUME IInv, NEW i \in DOMAIN module, NEW sig \in module[i].calls,
                    sig.name[1] = "brillig"
             PROVE  /\ sig.name[2] \in registry
                    /\ pc \in {"functions", "done"} => sig.name[2] \in pending \/ Defined(sig)
  BY DEF CallsRegistered
<1>1. Total \in Nat /\ index \in Nat /\ i \in Nat /\ (i > Total => pc # "helpers")
  BY Places
<1>2. sig.name[1] \notin HelperNames
  BY HelperNamesApart DEF NotHelpers
<1>3. ~(i <= Total)
  BY <1>2, CallsOfHelper
<1>4. ~(i >= Total + index)
  <2>1. SUFFICES ASSUME i >= Total + index
                 PROVE  FALSE
    OBVIOUS
  <2>2. PICK key \in registry \ pending : OfBody(sig, key)
    BY <2>1, CallsOfFunction
  <2>3. PICK b \in ToSet(Functions[key[1]].boxes) : sig = BoxCall(b, BrilligBoxArguments(b))
    BY <2>2, OtherNames DEF OfBody
  <2>4. pc # "helpers"
    BY <1>1, <1>3
  <2>5. QED
    BY <1>2, <2>2, <2>3, <2>4, BodyBox
<1>5. i > Total /\ i < Total + index
  BY <1>1, <1>3, <1>4
<1>6. PICK key \in registry : sig = FunctionSignature(key)
  BY <1>2, <1>5, CallsOfCircuit, OtherNames
<1>7. sig.name[2] = key
  BY <1>6, OtherNames
<1>8. ASSUME pc \in {"functions", "done"}, key \notin pending
      PROVE  Defined(sig)
  BY <1>6, <1>8, Emitted
<1>9. QED
  BY <1>6, <1>7, <1>8

\* A call of a Brillig function is registered when it is emitted, on the counts of the
\* call, and nothing but its own variant answers it: for every program, whatever the number
\* of circuits and of calls.
THEOREM CallsAreRegistered == Spec => []CallsRegistered
BY Registered, Invariance, PTL

---------------------------------------------------------------------------
\* The verifier

\* A helper that the module has returns what it declares, unless it is AES of a partial
\* block: bytecode only can ask for that one.
LEMMA HelpersReturn ==
  ASSUME IInv, pc \in {"functions", "done", "invalid"}
  PROVE  (\A i \in DOMAIN module : i <= Total => module[i].returned = module[i].sig.outs)
         <=> ~OddAes
<1>1. /\ TypeOK /\ program \in Programs /\ CircuitsPart /\ index = Len(Circuits) + 1
  BY DEF IInv, HelpersPart, CircuitsPart
<1>2. ASSUME NEW i \in DOMAIN module, i <= Total, module[i].returned # module[i].sig.outs
      PROVE  OddAes
  <2>1. i \in 1 .. Total /\ module[i] = HelperDefinition(AllHelpers[i])
    BY <1>2, Places
  <2>2. IsUsed(AllHelpers[i])
    BY <1>1, <2>1, Known
  <2>3. CASE \E fn \in FixedNames : \E name \in NamesOf(fn) : AllHelpers[i] = Helper(name, 0)
    <3>1. PICK fn \in FixedNames : \E name \in NamesOf(fn) : AllHelpers[i] = Helper(name, 0)
      BY <2>3
    <3>2. PICK name \in NamesOf(fn) : AllHelpers[i] = Helper(name, 0)
      BY <3>1
    <3>3. name # "aes128"
      BY <3>1 DEF FixedNames, NamesOf
    <3>4. QED
      BY <1>2, <2>1, <3>2, <3>3, HelperReturns
  <2>4. CASE \E fn \in ShapedNames : \E shape \in Shapes(fn) : AllHelpers[i] = Helper(fn, shape)
    <3>1. PICK fn \in ShapedNames : \E shape \in Shapes(fn) : AllHelpers[i] = Helper(fn, shape)
      BY <2>4
    <3> DEFINE shape == AllHelpers[i].shape
    <3>2. PICK b \in Boxes : b.fn = fn /\ shape = HelperOf(b).shape /\ AllHelpers[i] = Helper(fn, shape)
      BY <3>1 DEF Shapes, Helper
    <3> HIDE DEF shape
    <3>3. shape \in Nat
      BY <1>1, <3>2, HelperOfBox, BoxesTyped
    <3>4. fn = "aes128" /\ shape % AesBlock # 0
      BY <1>2, <2>1, <3>2, <3>3, HelperReturns
    <3>5. shape = b.size
      BY <3>2, <3>4 DEF HelperOf, Helper
    <3>6. b \notin AcirBoxes
      <4>1. SUFFICES ASSUME b \in AcirBoxes
                     PROVE  FALSE
        OBVIOUS
      <4>2. PICK c \in DOMAIN Circuits : b \in ToSet(Circuits[c]) /\ b.kind = "blackbox"
        BY <4>1 DEF AcirBoxes
      <4>3. c \in 1 .. index - 1
        BY <1>1, <4>2, Known
      <4>4. OpcodeAccepted(b)
        BY <1>1, <4>2, <4>3 DEF CircuitsPart
      <4>5. AcirBoxAccepted(b)
        BY <4>2, <4>4 DEF OpcodeAccepted
      <4>6. QED
        BY <3>2, <3>4, <3>5, <4>5 DEF AcirBoxAccepted
    <3>7. QED
      BY <3>2, <3>4, <3>5, <3>6 DEF Boxes, OddAes
  <2>5. QED
    BY <2>2, <2>3, <2>4 DEF IsUsed
<1>3. ASSUME OddAes
      PROVE  \E i \in DOMAIN module : i <= Total /\ module[i].returned # module[i].sig.outs
  <2>1. PICK b \in BrilligBoxes : b.fn = "aes128" /\ b.size % AesBlock # 0
    BY <1>3 DEF OddAes
  <2>2. b \in Boxes /\ IsBox(b)
    BY <1>1, <2>1, BoxesTyped
  <2>3. HelperOf(b) = Helper("aes128", b.size) /\ b.size \in Nat
    BY <2>1, <2>2 DEF HelperOf, IsBox
  <2>4. PICK i \in 1 .. Total : i \in DOMAIN module /\ module[i] = HelperDefinition(HelperOf(b))
    BY <2>2, HelperPlace
  <2>5. module[i].returned # module[i].sig.outs
    BY <2>1, <2>3, <2>4, HelperReturns
  <2>6. i <= Total
    BY <1>1, <2>4, Known
  <2>7. QED
    BY <2>4, <2>5, <2>6
<1>4. QED
  BY <1>2, <1>3

\* Circuits, functions and procedures return what they declare.
LEMMA OthersReturn ==
  ASSUME IInv, NEW i \in DOMAIN module, i > Total
  PROVE  module[i].returned = module[i].sig.outs
<1>1. TypeOK /\ FunctionsPart /\ program \in Programs
  BY DEF IInv, HelpersPart
<1>2. Total \in Nat /\ index \in Nat /\ i \in Nat
  BY Places
<1>3. CASE i < Total + index
  <2>1. module[i] = CircuitDefinition(i - Total)
    BY <1>3, Places
  <2>2. QED
    BY <2>1 DEF CircuitDefinition, Definition, CircuitSignature, Signature
<1>4. CASE i >= Total + index
  <2>1. PICK key \in registry \ pending : Of(module[i], key)
    BY <1>1, <1>4 DEF FunctionsPart
  <2> DEFINE defs == FunctionDefinitions(key)
             procs == Functions[key[1]].procedures
  <2>2. PICK d \in DOMAIN defs : module[i] = defs[d]
    BY <2>1 DEF Of
  <2>3. key[1] \in DOMAIN Functions
    BY <1>1, <2>1 DEF TypeOK
  <2>4. /\ DOMAIN defs = 1 .. Len(procs) + 1 /\ Len(procs) \in Nat
        /\ defs[1] = Definition(FunctionSignature(key), BodyCalls(key, 0), key[3])
        /\ \A p \in 1 .. Len(procs) :
              defs[1 + p] = Definition(ProcedureSignature(key, procs[p]), BodyCalls(key, procs[p]), 0)
    BY <1>1, <2>3, FunctionDefinitionsAre
  <2> HIDE DEF defs, procs
  <2>5. d = 1 \/ (d - 1 \in 1 .. Len(procs) /\ 1 + (d - 1) = d)
    BY <2>2, <2>4
  <2>6. \A entry, calls : LET def == Definition(ProcedureSignature(key, entry), calls, 0)
                          IN  def.returned = def.sig.outs
    BY DEF Definition, ProcedureSignature, Signature
  <2>7. \A calls : LET def == Definition(FunctionSignature(key), calls, key[3])
                   IN  def.returned = def.sig.outs
    BY DEF Definition, FunctionSignature, Signature
  <2>8. CASE d = 1
    BY <2>2, <2>4, <2>7, <2>8
  <2>9. CASE d - 1 \in 1 .. Len(procs) /\ 1 + (d - 1) = d
    <3>1. defs[1 + (d - 1)].returned = defs[1 + (d - 1)].sig.outs
      BY <2>4, <2>6, <2>9
    <3>2. QED
      BY <2>2, <2>9, <3>1
  <2>10. QED
    BY <2>5, <2>8, <2>9
<1>5. QED
  BY <1>2, <1>3, <1>4

\* Every call resolves, unless bytecode that is emitted has a BLAKE3.
LEMMA CallsResolve ==
  ASSUME IInv, pc \in {"functions", "done", "invalid"}, pending = {}, ~BrilligBlake3,
         NEW i \in DOMAIN module, NEW sig \in module[i].calls
  PROVE  Defined(sig)
<1>1. /\ TypeOK /\ HelpersPart /\ CircuitsPart /\ program \in Programs
      /\ index = Len(Circuits) + 1
  BY DEF IInv, HelpersPart, CircuitsPart
<1>2. Total \in Nat /\ index \in Nat /\ i \in Nat
  BY Places
<1>3. CASE i <= Total
  BY <1>3, CallsOfHelper DEF Defined
<1>4. CASE i > Total /\ i < Total + index
  <2>1. CASE \E j \in 1 .. Total : j \in DOMAIN module /\ module[j].sig = sig
    BY <2>1 DEF Defined
  <2>2. CASE \E c \in DOMAIN Circuits : sig = CircuitSignature(c)
    <3>1. PICK c \in DOMAIN Circuits : sig = CircuitSignature(c)
      BY <2>2
    <3>2. c \in 1 .. index - 1 /\ Len(Circuits) \in Nat
      BY <1>1, <3>1, Known
    <3>3. Total + c \in DOMAIN module
      <4>1. Total + index - 1 <= Len(module) /\ module \in Seq(ToSet(module))
        BY <1>1 DEF HelpersPart
      <4>2. DOMAIN module = 1 .. Len(module) /\ Len(module) \in Nat
        BY <4>1
      <4>3. Total + c >= 1 /\ Total + c <= Total + index - 1
        BY <1>2, <3>2
      <4>4. QED
        BY <1>2, <3>2, <4>1, <4>2, <4>3
    <3>4. module[Total + c] = CircuitDefinition(c)
      BY <1>1, <3>2 DEF CircuitsPart
    <3>5. module[Total + c].sig = sig
      BY <3>1, <3>4 DEF CircuitDefinition, Definition
    <3>6. QED
      BY <3>3, <3>5 DEF Defined
  <2>3. CASE \E key \in registry : sig = FunctionSignature(key)
    BY <2>3, Emitted
  <2>4. QED
    BY <1>4, <2>1, <2>2, <2>3, CallsOfCircuit
<1>5. CASE i >= Total + index
  <2>1. PICK key \in registry \ pending : OfBody(sig, key)
    BY <1>5, CallsOfFunction
  <2>2. FunctionAccepted(key)
    BY <2>1, Emitted
  <2>3. CASE \E b \in ToSet(Functions[key[1]].boxes) : b.live /\ sig = BoxCall(b, BrilligBoxArguments(b))
    <3>1. PICK b \in ToSet(Functions[key[1]].boxes) : b.live /\ sig = BoxCall(b, BrilligBoxArguments(b))
      BY <2>3
    <3>2. b \in Boxes /\ IsBox(b)
      BY <2>1, <3>1, BodyBox
    <3>3. BrilligBoxAccepted(b) /\ b.fn # "blake3"
      BY <2>1, <2>2, <3>1 DEF FunctionAccepted, BrilligBlake3
    <3>4. sig = HelperSignature(HelperOf(b))
      BY <3>1, <3>2, <3>3, BrilligCallMatches
    <3>5. PICK j \in 1 .. Total : j \in DOMAIN module /\ module[j] = HelperDefinition(HelperOf(b))
      BY <3>2, HelperPlace
    <3>6. QED
      BY <3>4, <3>5, HelperName DEF Defined
  <2>4. CASE \E entry \in ToSet(Functions[key[1]].procedures) : sig = ProcedureSignature(key, entry)
    BY <2>1, <2>4, Emitted
  <2>5. QED
    BY <2>1, <2>3, <2>4 DEF OfBody
<1>6. QED
  BY <1>2, <1>3, <1>4, <1>5

\* And a BLAKE3 of bytecode that is emitted calls what no definition is.
LEMMA Blake3Unresolved ==
  ASSUME IInv, pc \in {"functions", "done", "invalid"}, pending = {}, BrilligBlake3
  PROVE  \E i \in DOMAIN module : \E sig \in module[i].calls : ~Defined(sig)
<1>1. PICK key \in registry : \E b \in ToSet(Functions[key[1]].boxes) : b.fn = "blake3" /\ b.live
  BY DEF BrilligBlake3
<1>2. PICK b \in ToSet(Functions[key[1]].boxes) : b.fn = "blake3" /\ b.live
  BY <1>1
<1> DEFINE sig == BoxCall(b, BrilligBoxArguments(b))
<1>3. /\ key[1] \in DOMAIN Functions /\ FunctionAccepted(key)
      /\ \A body : body = 0 \/ body \in ToSet(Functions[key[1]].procedures) =>
            \E i \in DOMAIN module : module[i].calls = BodyCalls(key, body)
  BY Emitted
<1>4. /\ TypeOK /\ NamesDistinct /\ program \in Programs
  BY DEF IInv, HelpersPart
<1>5. b.body = 0 \/ b.body \in ToSet(Functions[key[1]].procedures)
  <2>1. IsFunction(Functions[key[1]])
    BY <1>3, <1>4, DriverAssumption DEF IsProgram, Functions
  <2>2. QED
    BY <1>2, <2>1 DEF IsFunction
<1>6. PICK i \in DOMAIN module : module[i].calls = BodyCalls(key, b.body)
  BY <1>3, <1>5
<1>7. sig \in module[i].calls
  BY <1>2, <1>6 DEF BodyCalls
<1>8. b \in Boxes /\ IsBox(b) /\ sig.name = HelperSignature(HelperOf(b)).name
  BY BodyBox
<1>9. sig.ins # HelperSignature(HelperOf(b)).ins
  BY <1>2, <1>3, <1>8, BrilligCallMatches DEF FunctionAccepted
<1> HIDE DEF sig
<1>10. PICK j \in DOMAIN module : module[j] = HelperDefinition(HelperOf(b))
  BY <1>8, HelperPlace
<1>11. module[j].sig = HelperSignature(HelperOf(b))
  BY <1>10, HelperName
<1>12. ~Defined(sig)
  <2>1. SUFFICES ASSUME NEW k \in DOMAIN module, module[k].sig = sig
                 PROVE  FALSE
    BY DEF Defined
  <2>2. k = j
    BY <1>4, <1>8, <1>11, <2>1 DEF NamesDistinct
  <2>3. QED
    BY <1>9, <1>11, <2>1, <2>2
<1>13. QED
  BY <1>7, <1>12

\* What the verifier finds, once no function is pending.
LEMMA Verdict ==
  ASSUME IInv, pc \in {"functions", "done", "invalid"}, pending = {}
  PROVE  Verifies <=> ~OddAes /\ ~BrilligBlake3
<1>1. NamesDistinct
  BY DEF IInv
<1>2. Verifies <=> /\ \A i \in DOMAIN module : module[i].returned = module[i].sig.outs
                   /\ \A i \in DOMAIN module : \A sig \in module[i].calls : Defined(sig)
  BY <1>1 DEF Verifies, NamesDistinct
<1>3. (\A i \in DOMAIN module : module[i].returned = module[i].sig.outs) <=> ~OddAes
  <2>1. \A i \in DOMAIN module : i <= Total \/ i > Total
    <3>1. \A i \in DOMAIN module : i \in Nat /\ Total \in Nat
      BY Places
    <3>2. QED
      BY <3>1
  <2>2. QED
    BY <2>1, HelpersReturn, OthersReturn
<1>4. (\A i \in DOMAIN module : \A sig \in module[i].calls : Defined(sig)) <=> ~BrilligBlake3
  BY CallsResolve, Blake3Unresolved
<1>5. QED
  BY <1>2, <1>3, <1>4

\* The invariant and the verdict of the verifier.
LEMMA Valid == IInv => ModuleValid
<1> SUFFICES ASSUME IInv
             PROVE  ModuleValid
  OBVIOUS
<1>1. /\ pc \in {"done", "invalid"} => pending = {}
      /\ pc = "done" => Verifies
      /\ pc = "invalid" => ~Verifies
  BY DEF IInv, Outcome
<1>2. pc \in {"done", "invalid"} => (Verifies <=> ~OddAes /\ ~BrilligBlake3)
  BY <1>1, Verdict
<1>3. QED
  BY <1>1, <1>2 DEF ModuleValid

\* The verifier passes exactly the modules without AES of a partial block in bytecode and
\* without BLAKE3 in bytecode that is emitted: for every program, every other module that
\* reaches it has each symbol once, every call on the arity of its callee, and every
\* function returning what it declares.
THEOREM ModulesAreValid == Spec => []ModuleValid
BY Valid, Invariance, PTL

=============================================================================

---------------------------- MODULE CircuitProofs ----------------------------
(***************************************************************************)
(* The two functions of a circuit, for every prime, every program and       *)
(* every choice of the black boxes and bytecodes.                           *)
(*                                                                         *)
(* The constraints accept exactly the solutions of the opcodes, whatever    *)
(* struct @constrain may be given.                                          *)
(*                                                                         *)
(* @compute finds what ACVM finds: as long as ACVM executes a program, the  *)
(* emitted code neither stops nor reads a member too early, and has the     *)
(* same witnesses and the same memory.                                      *)
(***************************************************************************)
EXTENDS Circuit, FieldProofs, FiniteSetTheorems

\* The elements of a concatenation.
LEMMA ConcatElements ==
    ASSUME NEW T, NEW s \in Seq(T), NEW t \in Seq(T)
    PROVE  /\ s \o t \in Seq(T) /\ DOMAIN (s \o t) = 1 .. Len(s) + Len(t)
           /\ Len(s \o t) = Len(s) + Len(t)
           /\ \A k \in 1 .. Len(s) : (s \o t)[k] = s[k]
           /\ \A k \in 1 .. Len(t) : (s \o t)[Len(s) + k] = t[k]
OBVIOUS

\* A concatenation holds the elements of both parts.
LEMMA ConcatHolds ==
    ASSUME NEW T, NEW s \in Seq(T), NEW t \in Seq(T)
    PROVE  ToSet(s) \subseteq ToSet(s \o t) /\ ToSet(t) \subseteq ToSet(s \o t)
<1> DEFINE z == s \o t
<1>1. /\ DOMAIN z = 1 .. Len(s) + Len(t) /\ DOMAIN s = 1 .. Len(s) /\ DOMAIN t = 1 .. Len(t)
      /\ Len(s) \in Nat /\ Len(t) \in Nat
      /\ \A k \in 1 .. Len(s) : z[k] = s[k]
      /\ \A k \in 1 .. Len(t) : z[Len(s) + k] = t[k]
  BY ConcatElements
<1> HIDE DEF z
<1>2. ASSUME NEW k \in DOMAIN s PROVE s[k] \in ToSet(z)
  <2>1. k \in DOMAIN z /\ z[k] = s[k]
    BY <1>1
  <2> QED BY <2>1 DEF ToSet
<1>3. ASSUME NEW k \in DOMAIN t PROVE t[k] \in ToSet(z)
  <2>1. Len(s) + k \in DOMAIN z /\ z[Len(s) + k] = t[k]
    BY <1>1
  <2> QED BY <2>1 DEF ToSet
<1> QED BY <1>2, <1>3 DEF ToSet, z

\* The empty sequence adds nothing.
LEMMA ConcatEmpty ==
    ASSUME NEW T, NEW s \in Seq(T)
    PROVE  s \o <<>> = s
OBVIOUS

\* A sequence with two more elements.
LEMMA TwoMore ==
    ASSUME NEW n \in Nat, NEW s \in [1 .. n -> Int], NEW a \in Int, NEW b \in Int
    PROVE  /\ s \o <<a, b>> \in [1 .. n + 2 -> Int] /\ Len(s \o <<a, b>>) = n + 2
           /\ (s \o <<a, b>>)[n + 1] = a /\ (s \o <<a, b>>)[n + 2] = b
           /\ \A k \in 1 .. n : (s \o <<a, b>>)[k] = s[k]
<1> DEFINE t == <<a, b>>
<1>1. s \in Seq(Int) /\ Len(s) = n
  BY ByElements
<1>2. t \in Seq(Int) /\ Len(t) = 2 /\ t[1] = a /\ t[2] = b
  OBVIOUS
<1> HIDE DEF t
<1> DEFINE r == s
<1>3. r \in Seq(Int) /\ Len(r) = n
  BY <1>1
<1> HIDE DEF r
<1> DEFINE T == Int
<1>9. r \in Seq(T) /\ t \in Seq(T)
  BY <1>2, <1>3
<1> HIDE DEF T
<1>6. /\ (r \o t) \in Seq(T) /\ Len(r \o t) = Len(r) + Len(t)
      /\ \A k \in 1 .. Len(r) : (r \o t)[k] = r[k]
      /\ \A k \in 1 .. Len(t) : (r \o t)[Len(r) + k] = t[k]
  BY <1>9, ConcatElements
<1> USE DEF T
<1> DEFINE z == r \o t
<1>7. /\ z \in Seq(Int) /\ Len(z) = Len(r) + Len(t) /\ \A k \in 1 .. Len(r) : z[k] = r[k]
      /\ \A k \in 1 .. Len(t) : z[Len(r) + k] = t[k]
  BY <1>6
<1> HIDE DEF z
<1>8. /\ z \in Seq(Int) /\ Len(z) = n + 2 /\ (\A k \in 1 .. n : z[k] = r[k])
      /\ z[n + 1] = t[1] /\ z[n + 2] = t[2]
  BY <1>2, <1>3, <1>7
<1>4. z \in [1 .. n + 2 -> Int]
  BY <1>8
<1>5. z[n + 1] = a /\ z[n + 2] = b
  BY <1>2, <1>8
<1> QED BY <1>4, <1>5, <1>8 DEF z, t, r

---------------------------------------------------------------------------
\* Expressions

\* A valuation of some witnesses.
IsValuation(v) == v \in [DOMAIN v -> F]

\* The value of a term is a felt.
LEMMA TermIsFelt ==
    ASSUME NEW v, IsValuation(v), NEW t \in (F \X Nat \X Nat) \cup (F \X Nat),
           t[1] # 0 => TermWitnesses(t) \subseteq DOMAIN v
    PROVE  TermValue(t, v) \in F
<1>0. CASE t[1] = 0
  BY <1>0, SmallFelts DEF TermValue
<1>1. CASE t[1] # 0 /\ t \in F \X Nat
  <2>0. PICK a \in F, i \in Nat : t = <<a, i>>
    BY <1>1
  <2>1. t[1] \in F /\ Len(t) = 2 /\ t[2] \in TermWitnesses(t)
    BY <2>0 DEF TermWitnesses
  <2>2. v[t[2]] \in F
    BY <1>1, <2>1 DEF IsValuation
  <2> QED BY <2>1, <2>2, TimesZero, SmallFelts DEF TermValue
<1>2. CASE t[1] # 0 /\ t \in F \X Nat \X Nat
  <2>0. PICK a \in F, i \in Nat, j \in Nat : t = <<a, i, j>>
    BY <1>2
  <2>1. t[1] \in F /\ Len(t) = 3 /\ t[2] \in TermWitnesses(t) /\ t[3] \in TermWitnesses(t)
    BY <2>0 DEF TermWitnesses
  <2>2. v[t[2]] \in F /\ v[t[3]] \in F
    BY <1>2, <2>1 DEF IsValuation
  <2>3. Times(v[t[2]], v[t[3]]) \in F
    BY <2>2, TimesZero
  <2>4. Times(t[1], Times(v[t[2]], v[t[3]])) \in F
    BY <2>1, <2>3, TimesZero
  <2> QED BY <2>1, <2>4, SmallFelts DEF TermValue
<1> QED BY <1>0, <1>1, <1>2

\* The terms of an expression, one after the other.
LEMMA TermsOfBoth ==
    ASSUME NEW e, IsExpression(e)
    PROVE  LET n == Len(e.mul)
               m == Len(e.lin)
           IN  /\ n \in Nat /\ m \in Nat /\ DOMAIN e.mul = 1 .. n /\ DOMAIN e.lin = 1 .. m
               /\ \A k \in 1 .. n : e.mul[k] \in F \X Nat \X Nat
               /\ \A k \in 1 .. m : e.lin[k] \in F \X Nat
               /\ e.qc \in F
               /\ DOMAIN (e.mul \o e.lin) = 1 .. n + m
               /\ \A k \in 1 .. n : (e.mul \o e.lin)[k] = e.mul[k]
               /\ \A k \in 1 .. m : (e.mul \o e.lin)[n + k] = e.lin[k]
<1> DEFINE n == Len(e.mul)
           m == Len(e.lin)
           all == e.mul \o e.lin
<1>1. /\ e.mul \in Seq(F \X Nat \X Nat) /\ e.lin \in Seq(F \X Nat) /\ e.qc \in F
      /\ n \in Nat /\ m \in Nat /\ DOMAIN e.mul = 1 .. n /\ DOMAIN e.lin = 1 .. m
  BY DEF IsExpression
<1>2. /\ DOMAIN all = 1 .. n + m
      /\ \A k \in 1 .. n : all[k] = e.mul[k]
      /\ \A k \in 1 .. m : all[n + k] = e.lin[k]
  <2> DEFINE T == (F \X Nat \X Nat) \cup (F \X Nat)
  <2>1. F \X Nat \X Nat \subseteq T /\ F \X Nat \subseteq T
    OBVIOUS
  <2> HIDE DEF T
  <2> DEFINE s == e.mul
             t == e.lin
  <2>2. s \in Seq(T) /\ t \in Seq(T)
    BY <1>1, <2>1
  <2> HIDE DEF s, t
  <2>3. /\ DOMAIN (s \o t) = 1 .. Len(s) + Len(t)
        /\ \A k \in 1 .. Len(s) : (s \o t)[k] = s[k]
        /\ \A k \in 1 .. Len(t) : (s \o t)[Len(s) + k] = t[k]
    BY <2>2, ConcatElements
  <2> QED BY <2>3 DEF s, t
<1>3. /\ \A k \in 1 .. n : e.mul[k] \in F \X Nat \X Nat
      /\ \A k \in 1 .. m : e.lin[k] \in F \X Nat
  BY <1>1
<1> HIDE DEF n, m, all
<1> QED BY <1>1, <1>2, <1>3 DEF n, m, all

\* The same by element.
LEMMA ElementsOfBoth ==
    ASSUME NEW e, IsExpression(e)
    PROVE  LET all == e.mul \o e.lin
           IN  /\ \A k \in DOMAIN e.mul : e.mul[k] \in F \X Nat \X Nat
               /\ \A k \in DOMAIN e.lin : e.lin[k] \in F \X Nat
               /\ e.qc \in F
               /\ \A k \in DOMAIN e.mul : k \in DOMAIN all /\ all[k] = e.mul[k]
               /\ \A k \in DOMAIN e.lin :
                     Len(e.mul) + k \in DOMAIN all /\ all[Len(e.mul) + k] = e.lin[k]
<1> DEFINE n == Len(e.mul)
           m == Len(e.lin)
           all == e.mul \o e.lin
<1>1. /\ n \in Nat /\ m \in Nat /\ DOMAIN e.mul = 1 .. n /\ DOMAIN e.lin = 1 .. m
      /\ \A k \in 1 .. n : e.mul[k] \in F \X Nat \X Nat
      /\ \A k \in 1 .. m : e.lin[k] \in F \X Nat
      /\ e.qc \in F
      /\ DOMAIN all = 1 .. n + m
      /\ \A k \in 1 .. n : all[k] = e.mul[k]
      /\ \A k \in 1 .. m : all[n + k] = e.lin[k]
  BY TermsOfBoth
<1> HIDE DEF n, m, all
<1>2. ASSUME NEW k \in DOMAIN e.mul PROVE k \in DOMAIN all /\ all[k] = e.mul[k]
  BY <1>1
<1>3. ASSUME NEW k \in DOMAIN e.lin PROVE n + k \in DOMAIN all /\ all[n + k] = e.lin[k]
  BY <1>1
<1> QED BY <1>1, <1>2, <1>3 DEF n, all

\* A function.
IsMap(f) == f = [x \in DOMAIN f |-> f[x]]

\* A sum over the terms of an expression is the sum over the multiplication terms plus the
\* sum over the linear terms.
LEMMA SumOverTerms ==
    ASSUME NEW e, IsExpression(e),
           NEW xs \in [DOMAIN e.mul -> F], NEW ys \in [DOMAIN e.lin -> F],
           NEW zs, IsMap(zs), DOMAIN zs = DOMAIN (e.mul \o e.lin),
           \A k \in DOMAIN e.mul : zs[k] = xs[k],
           \A k \in DOMAIN e.lin : zs[Len(e.mul) + k] = ys[k]
    PROVE  /\ Sum(zs) = Plus(Sum(xs), Sum(ys))
           /\ Sum(xs) \in F /\ Sum(ys) \in F /\ Plus(Sum(xs), Sum(ys)) \in F
<1> DEFINE n == Len(e.mul)
           m == Len(e.lin)
<1>1. /\ n \in Nat /\ m \in Nat /\ DOMAIN e.mul = 1 .. n /\ DOMAIN e.lin = 1 .. m
      /\ DOMAIN (e.mul \o e.lin) = 1 .. n + m
  BY TermsOfBoth
<1> HIDE DEF n, m
<1>2. xs \in [1 .. n -> F] /\ ys \in [1 .. m -> F] /\ zs = [k \in 1 .. n + m |-> zs[k]]
  BY <1>1 DEF IsMap
<1>3. /\ \A k \in 1 .. n : zs[k] = xs[k]
      /\ \A k \in 1 .. m : zs[n + k] = ys[k]
  BY <1>1 DEF n
<1>4. ASSUME NEW k \in 1 .. n + m PROVE zs[k] \in F
  <2>1. CASE k \in 1 .. n
    BY <1>2, <1>3, <2>1
  <2>2. CASE k \notin 1 .. n
    <3>1. k - n \in 1 .. m /\ n + (k - n) = k
      BY <1>1, <2>2
    <3> QED BY <1>2, <1>3, <3>1
  <2> QED BY <2>1, <2>2
<1>5. zs \in [1 .. n + m -> F]
  BY <1>2, <1>4
<1>6. Sum(zs) = Plus(Sum(xs), Sum(ys))
  BY <1>1, <1>2, <1>3, <1>5, SumOfTwo
<1>7. Sum(xs) \in F /\ Sum(ys) \in F
  BY <1>1, <1>2, SumIsFelt
<1>8. Plus(Sum(xs), Sum(ys)) \in F
  BY <1>7, PlusIsFelt, FeltIsResidue
<1> QED BY <1>6, <1>7, <1>8

\* The witnesses of a term whose coefficient is not zero are in the support.
LEMMA TermInSupport ==
    ASSUME NEW e, IsExpression(e)
    PROVE  /\ \A k \in DOMAIN e.mul : e.mul[k][1] # 0 => TermWitnesses(e.mul[k]) \subseteq Support(e)
           /\ \A k \in DOMAIN e.lin : e.lin[k][1] # 0 => TermWitnesses(e.lin[k]) \subseteq Support(e)
           /\ Support(e) \subseteq CollectWitnesses(e)
<1>1. ASSUME NEW k \in DOMAIN e.mul, e.mul[k][1] # 0
      PROVE  TermWitnesses(e.mul[k]) \subseteq Support(e)
  BY <1>1 DEF Support, Terms, ToSet
<1>2. ASSUME NEW k \in DOMAIN e.lin, e.lin[k][1] # 0
      PROVE  TermWitnesses(e.lin[k]) \subseteq Support(e)
  BY <1>2 DEF Support, Terms, ToSet
<1>3. ASSUME NEW w \in Support(e) PROVE w \in CollectWitnesses(e)
  <2> DEFINE all == e.mul \o e.lin
  <2>1. PICK t \in ToSet(e.mul) \cup ToSet(e.lin) : w \in TermWitnesses(t)
    BY DEF Support, Terms
  <2>2. t \in ToSet(all)
    <3>1. /\ \A k \in DOMAIN e.mul : k \in DOMAIN all /\ all[k] = e.mul[k]
          /\ \A k \in DOMAIN e.lin : Len(e.mul) + k \in DOMAIN all /\ all[Len(e.mul) + k] = e.lin[k]
      BY ElementsOfBoth
    <3> HIDE DEF all
    <3>2. CASE t \in ToSet(e.mul)
      BY <3>1, <3>2 DEF ToSet
    <3>3. CASE t \in ToSet(e.lin)
      BY <3>1, <3>3 DEF ToSet
    <3> QED BY <3>2, <3>3
  <2> HIDE DEF all
  <2>3. w \in UNION {TermWitnesses(u) : u \in ToSet(all)}
    BY <2>1, <2>2
  <2> QED BY <2>3 DEF CollectWitnesses, all
<1> QED BY <1>1, <1>2, <1>3

\* The chain that is emitted for an expression has the expression's value, when the witnesses
\* that matter are known.
LEMMA ValueOfSupport ==
    ASSUME NEW e, IsExpression(e), NEW v, IsValuation(v), Support(e) \subseteq DOMAIN v
    PROVE  EmitExpression(e, v) = Value(e, v) /\ Value(e, v) \in F
<1> DEFINE all == e.mul \o e.lin
           xs == TermValues(e.mul, v)
           ys == TermValues(e.lin, v)
           zs == TermValues(all, v)
<1>1. /\ \A k \in DOMAIN e.mul : e.mul[k] \in F \X Nat \X Nat
      /\ \A k \in DOMAIN e.lin : e.lin[k] \in F \X Nat
      /\ e.qc \in F
      /\ \A k \in DOMAIN e.mul : k \in DOMAIN all /\ all[k] = e.mul[k]
      /\ \A k \in DOMAIN e.lin : Len(e.mul) + k \in DOMAIN all /\ all[Len(e.mul) + k] = e.lin[k]
  BY ElementsOfBoth
<1>2. ASSUME NEW k \in DOMAIN e.mul PROVE TermValue(e.mul[k], v) \in F
  <2>1. e.mul[k][1] # 0 => TermWitnesses(e.mul[k]) \subseteq DOMAIN v
    BY TermInSupport
  <2> QED BY <1>1, <2>1, TermIsFelt
<1>3. ASSUME NEW k \in DOMAIN e.lin PROVE TermValue(e.lin[k], v) \in F
  <2>1. e.lin[k][1] # 0 => TermWitnesses(e.lin[k]) \subseteq DOMAIN v
    BY TermInSupport
  <2> QED BY <1>1, <2>1, TermIsFelt
<1> HIDE DEF all
<1>4. xs \in [DOMAIN e.mul -> F] /\ ys \in [DOMAIN e.lin -> F] /\ IsMap(zs) /\ DOMAIN zs = DOMAIN all
  BY <1>2, <1>3 DEF TermValues, IsMap
<1>5. /\ \A k \in DOMAIN e.mul : zs[k] = xs[k]
      /\ \A k \in DOMAIN e.lin : zs[Len(e.mul) + k] = ys[k]
  BY <1>1 DEF TermValues
<1>6. /\ EmitExpression(e, v) = Plus(Sum(xs), Plus(Sum(ys), e.qc))
      /\ Value(e, v) = Plus(Sum(zs), e.qc)
  BY DEF EmitExpression, Value, all
<1> HIDE DEF xs, ys, zs
<1>7. /\ Sum(zs) = Plus(Sum(xs), Sum(ys))
      /\ Sum(xs) \in F /\ Sum(ys) \in F /\ Plus(Sum(xs), Sum(ys)) \in F
  BY <1>4, <1>5, SumOverTerms DEF all
<1>8. Plus(Plus(Sum(xs), Sum(ys)), e.qc) = Plus(Sum(xs), Plus(Sum(ys), e.qc))
  BY <1>1, <1>7, PlusAssociative
<1>9. Plus(Plus(Sum(xs), Sum(ys)), e.qc) \in F
  BY <1>1, <1>7, PlusIsFelt, FeltIsResidue
<1> QED BY <1>6, <1>7, <1>8, <1>9

\* In @constrain every witness of the expression is known.
LEMMA ExpressionAgrees ==
    ASSUME NEW e, IsExpression(e), NEW v, IsValuation(v), CollectWitnesses(e) \subseteq DOMAIN v
    PROVE  EmitExpression(e, v) = Value(e, v) /\ Value(e, v) \in F
BY TermInSupport, ValueOfSupport

---------------------------------------------------------------------------
\* Inputs and widths

\* A felt is narrow enough for a constraint exactly when it fits its bits.
LEMMA WidthIsRange ==
    ASSUME NEW x \in F, NEW bits \in Nat
    PROVE  Fits(x, bits) <=> (bits < MaxBits => x < Pow2(bits))
<1>1. P - 1 \in F /\ P \in Nat \ {0, 1}
  BY PrimeAssumption DEF F
<1>2. MaxBits \in Nat /\ (MaxBits <= bits <=> P - 1 < TwoTo(bits))
  BY <1>1, WidthOfFelt DEF MaxBits
<1>3. NumBits(x) \in Nat /\ (NumBits(x) <= bits <=> x < TwoTo(bits))
  BY WidthOfFelt
<1>4. TwoTo(bits) \in Nat
  BY PowersGrow
<1>5. x \in 0 .. P - 1
  BY DEF F
<1>6. CASE bits < MaxBits
  <2>1. TwoTo(bits) \in F
    BY <1>1, <1>2, <1>4, <1>6 DEF F
  <2>2. Pow2(bits) = TwoTo(bits)
    BY <2>1, FeltIsResidue DEF Pow2
  <2> QED BY <1>3, <1>6, <2>2 DEF Fits
<1>7. CASE ~(bits < MaxBits)
  <2>1. P - 1 < TwoTo(bits)
    BY <1>2, <1>7
  <2>2. x < TwoTo(bits)
    BY <1>1, <1>4, <1>5, <2>1
  <2> QED BY <1>3, <1>7, <2>2 DEF Fits
<1> QED BY <1>6, <1>7

\* An input has a value.
LEMMA InputIsFelt ==
    ASSUME NEW xs, IsInputs(xs), NEW v, IsValuation(v), InputWitnesses(xs) \subseteq DOMAIN v,
           NEW k \in DOMAIN xs
    PROVE  /\ InputValue(xs[k], v) \in F
           /\ xs[k][1] = "w" => xs[k][2] \in InputWitnesses(xs) /\ InputValue(xs[k], v) = v[xs[k][2]]
           /\ xs[k][1] # "w" => xs[k][1] = "c" /\ InputValue(xs[k], v) = xs[k][2]
<1>1. xs[k] \in ({"w"} \X Nat) \cup ({"c"} \X F)
  BY DEF IsInputs
<1>2. xs[k][1] = "w" => xs[k][2] \in InputWitnesses(xs)
  BY DEF InputWitnesses
<1> QED BY <1>1, <1>2 DEF InputValue, IsValuation

\* The constraints on the widths of the witnesses, with constants that were checked when
\* the circuit was translated, say that every input fits.
LEMMA WidthsAgree ==
    ASSUME NEW xs, IsInputs(xs), NEW v, IsValuation(v), InputWitnesses(xs) \subseteq DOMAIN v,
           NEW bits \in Nat, ConstantsFit(xs, bits)
    PROVE  WidthMet(xs, bits, v) <=> AllFit(InputValues(xs, v), bits)
<1>1. DOMAIN InputValues(xs, v) = DOMAIN xs
      /\ \A k \in DOMAIN xs : InputValues(xs, v)[k] = InputValue(xs[k], v)
  BY DEF InputValues
<1>2. ASSUME WidthMet(xs, bits, v), NEW k \in DOMAIN xs PROVE Fits(InputValue(xs[k], v), bits)
  <2>1. CASE xs[k][1] = "w"
    <3>1. xs[k][2] \in InputWitnesses(xs) /\ InputValue(xs[k], v) = v[xs[k][2]] /\ v[xs[k][2]] \in F
      BY <2>1, InputIsFelt
    <3>2. bits < MaxBits => v[xs[k][2]] < Pow2(bits)
      BY <1>2, <3>1 DEF WidthMet
    <3> QED BY <3>1, <3>2, WidthIsRange
  <2>2. CASE xs[k][1] # "w"
    <3>1. xs[k][1] = "c" /\ InputValue(xs[k], v) = xs[k][2]
      BY <2>2, InputIsFelt
    <3> QED BY <3>1 DEF ConstantsFit, ToSet
  <2> QED BY <2>1, <2>2
<1>3. ASSUME AllFit(InputValues(xs, v), bits), bits < MaxBits, NEW w \in InputWitnesses(xs)
      PROVE  v[w] < Pow2(bits)
  <2>1. PICK k \in DOMAIN xs : xs[k][1] = "w" /\ w = xs[k][2]
    BY DEF InputWitnesses
  <2>2. InputValue(xs[k], v) = v[w] /\ v[w] \in F
    BY <2>1, InputIsFelt
  <2>3. Fits(v[w], bits)
    BY <1>1, <1>3, <2>2 DEF AllFit
  <2> QED BY <1>3, <2>2, <2>3, WidthIsRange
<1> QED BY <1>1, <1>2, <1>3 DEF WidthMet, AllFit

\* The values of the inputs.
LEMMA InputsAreFelts ==
    ASSUME NEW xs, IsInputs(xs), NEW v, IsValuation(v), InputWitnesses(xs) \subseteq DOMAIN v
    PROVE  InputValues(xs, v) \in [1 .. Len(xs) -> F] /\ Len(xs) \in Nat /\ DOMAIN xs = 1 .. Len(xs)
<1>1. Len(xs) \in Nat /\ DOMAIN xs = 1 .. Len(xs)
  BY DEF IsInputs
<1>2. \A k \in DOMAIN xs : InputValue(xs[k], v) \in F
  BY InputIsFelt
<1> QED BY <1>1, <1>2 DEF InputValues

\* The inputs of a black box and its predicate are among the witnesses it mentions.
LEMMA InputsOfBoth ==
    ASSUME NEW xs, IsInputs(xs), NEW ys, IsInputs(ys), NEW W, InputWitnesses(xs \o ys) \subseteq W
    PROVE  InputWitnesses(xs) \subseteq W /\ InputWitnesses(ys) \subseteq W
<1> DEFINE z == xs \o ys
           T == ({"w"} \X Nat) \cup ({"c"} \X F)
<1>0. xs \in Seq(T) /\ ys \in Seq(T)
  BY DEF IsInputs
<1> HIDE DEF T
<1>1. /\ DOMAIN z = 1 .. Len(xs) + Len(ys) /\ DOMAIN xs = 1 .. Len(xs) /\ DOMAIN ys = 1 .. Len(ys)
      /\ Len(xs) \in Nat /\ Len(ys) \in Nat
      /\ \A k \in 1 .. Len(xs) : z[k] = xs[k]
      /\ \A k \in 1 .. Len(ys) : z[Len(xs) + k] = ys[k]
  BY <1>0, ConcatElements
<1>2. \A k \in DOMAIN z : z[k][1] = "w" => z[k][2] \in W
  BY DEF InputWitnesses
<1> HIDE DEF z
<1>3. ASSUME NEW k \in DOMAIN xs, xs[k][1] = "w" PROVE xs[k][2] \in W
  <2>1. k \in DOMAIN z /\ z[k] = xs[k]
    BY <1>1
  <2> QED BY <1>2, <1>3, <2>1
<1>4. ASSUME NEW k \in DOMAIN ys, ys[k][1] = "w" PROVE ys[k][2] \in W
  <2>1. Len(xs) + k \in DOMAIN z /\ z[Len(xs) + k] = ys[k]
    BY <1>1
  <2> QED BY <1>2, <1>4, <2>1
<1> QED BY <1>3, <1>4 DEF InputWitnesses

\* The widths of the inputs are numbers of bits.
LEMMA WidthsAreNumbers ==
    ASSUME NEW fn \in {"Blake2s", "Blake3", "AES128Encrypt", "Sha256Compression",
                       "Keccakf1600", "Poseidon2Permutation", "Ecdsa"}
    PROVE  InputBits(fn) \in Nat
<1>1. MaxBits \in Nat
  <2>1. P - 1 \in F
    BY PrimeAssumption DEF F
  <2> QED BY <2>1, WidthOfFelt, SmallFelts DEF MaxBits
<1>2. ByteBits \in Nat /\ WordBits \in Nat /\ LongBits \in Nat
  BY <1>1, WidthAssumption
<1> QED BY <1>1, <1>2 DEF InputBits

\* A felt of one bit is zero or one.
LEMMA BitFits ==
    ASSUME NEW x \in F
    PROVE  Fits(x, 1) <=> x \in {0, 1}
<1>1. PICK p \in [0 .. 1 -> Nat] :
         TwoTo(1) = p[1] /\ p[0] = 1 /\ \A k \in 1 .. 1 : p[k] = 2 * p[k - 1]
  <2>1. 1 \in Nat
    OBVIOUS
  <2> QED BY <2>1, PowersUnfold
<1>2. TwoTo(1) = 2
  <2>1. p[1] = 2 * p[1 - 1]
    BY <1>1
  <2> QED BY <1>1, <2>1
<1>3. Fits(x, 1) <=> x < TwoTo(1)
  <2>1. 1 \in Nat
    OBVIOUS
  <2> QED BY <2>1, WidthOfFelt DEF Fits
<1>4. x \in Nat
  BY PrimeAssumption DEF F
<1> QED BY <1>2, <1>3, <1>4

---------------------------------------------------------------------------
\* Black boxes

\* Whole blocks are at least as long as the message.
LEMMA BlocksCover ==
    ASSUME NEW len \in Nat, NEW size \in Nat \ {0}
    PROVE  ((len + size - 1) \div size) * size >= len /\ ((len + size - 1) \div size) \in Nat
<1> DEFINE x == len + size - 1
           q == x \div size
           r == x % size
<1>1. x \in Nat
  OBVIOUS
<1>2. q \in Nat /\ r \in 0 .. size - 1 /\ x = size * q + r
  <2> HIDE DEF x
  <2> QED BY <1>1, SMT
<1> HIDE DEF q, r
<1>3. q * size = size * q
  BY <1>2
<1>4. size * q >= len
  <2>1. size * q \in Int
    BY <1>2
  <2> QED BY <1>2, <2>1
<1> QED BY <1>2, <1>3, <1>4 DEF q

\* A number is put together from its two words.
LEMMA TwoWords ==
    ASSUME NEW len \in Nat, NEW word \in Nat \ {0}
    PROVE  (len % word) + word * (len \div word) = len /\ len % word \in Int /\ len \div word \in Int
BY SMT

\* The padded message starts with the message.
LEMMA PaddedStarts ==
    ASSUME NEW n \in Nat, NEW xs \in [1 .. n -> F]
    PROVE  \E b \in Nat : /\ n <= b * BlockBytes /\ b * BlockBytes \in Nat
                          /\ Padded(xs) \in [1 .. b * BlockBytes -> F]
                          /\ \A k \in 1 .. n : Padded(xs)[k] = xs[k]
<1>1. BlockBytes \in Nat \ {0}
  BY ProgramsAssumption
<1>2. Len(xs) = n
  BY ByElements
<1> DEFINE m == IF n = 0 THEN 1 ELSE n
           b == NumBlocks(m)
<1>3. b \in Nat /\ b * BlockBytes >= m /\ m >= n
  <2>1. m \in Nat /\ m >= n
    OBVIOUS
  <2> HIDE DEF m
  <2> QED BY <1>1, <2>1, BlocksCover DEF NumBlocks
<1>4. Padded(xs) = [k \in 1 .. (b * BlockBytes) |-> IF k <= n THEN xs[k] ELSE 0]
  BY <1>2 DEF Padded
<1> HIDE DEF b, m
<1>5. b * BlockBytes \in Nat
  BY <1>1, <1>3
<1>6. n <= b * BlockBytes
  <2>1. m \in Int
    BY DEF m
  <2> QED BY <1>3, <1>5, <2>1
<1> DEFINE len == b * BlockBytes
<1>7. len \in Nat /\ n <= len
  BY <1>5, <1>6
<1>8. Padded(xs) \in [1 .. len -> F] /\ \A k \in 1 .. n : Padded(xs)[k] = xs[k]
  <2>1. Padded(xs) = [k \in 1 .. len |-> IF k <= n THEN xs[k] ELSE 0]
    BY <1>4
  <2> HIDE DEF len
  <2> QED BY <1>7, <2>1, SmallFelts
<1> QED BY <1>3, <1>7, <1>8

\* The prefix of a sequence that starts with xs.
LEMMA PrefixIs ==
    ASSUME NEW n \in Nat, NEW xs \in [1 .. n -> F], NEW m \in Nat, n <= m,
           NEW ys \in [1 .. m -> Int], \A k \in 1 .. n : ys[k] = xs[k]
    PROVE  SubSeq(ys, 1, n) = xs
<1>1. ys \in Seq(Int) /\ Len(ys) = m
  BY ByElements
<1>2. SubSeq(ys, 1, n) \in Seq(Int) /\ Len(SubSeq(ys, 1, n)) = n
      /\ \A k \in 1 .. n : SubSeq(ys, 1, n)[k] = ys[k]
  BY <1>1
<1>3. DOMAIN SubSeq(ys, 1, n) = 1 .. n /\ SubSeq(ys, 1, n) = [k \in 1 .. n |-> SubSeq(ys, 1, n)[k]]
  BY <1>2
<1>4. xs = [k \in 1 .. n |-> xs[k]]
  OBVIOUS
<1> QED BY <1>2, <1>3, <1>4

\* The helper unpacks the message that was packed: it gets the inputs, and the predicate.
LEMMA HelperGetsInputs ==
    ASSUME NEW op, IsOpcode(op), op.op = "BlackBox", NEW v, IsValuation(v),
           InputWitnesses(op.ins) \subseteq DOMAIN v
    PROVE  Message(op.fn, HelperArgs(op, v)) = InputValues(op.ins \o op.pred, v)
<1> DEFINE xs == InputValues(op.ins, v)
           n == Len(op.ins)
<1>1. IsInputs(op.ins) /\ IsInputs(op.pred) /\ (op.fn # "Ecdsa" => op.pred = <<>>)
  BY DEF IsOpcode
<1>2. xs \in [1 .. n -> F] /\ n \in Nat
  BY <1>1, InputsAreFelts
<1>3. Len(xs) = n
  BY <1>2, ByElements
<1>4. ASSUME op.fn # "Ecdsa" PROVE xs = InputValues(op.ins \o op.pred, v)
  <2>1. op.ins \o op.pred = op.ins
    BY <1>1, <1>4, ConcatEmpty DEF IsInputs
  <2> QED BY <2>1
<1>5. PICK b \in Nat : /\ n <= b * BlockBytes /\ b * BlockBytes \in Nat
                      /\ Padded(xs) \in [1 .. b * BlockBytes -> F]
                      /\ \A k \in 1 .. n : Padded(xs)[k] = xs[k]
  <2> HIDE DEF xs, n
  <2> QED BY <1>2, PaddedStarts
<1> DEFINE len == b * BlockBytes
           padded == Padded(xs)
<1>6. len \in Nat /\ n <= len /\ padded \in [1 .. len -> F] /\ \A k \in 1 .. n : padded[k] = xs[k]
  BY <1>5
<1>7. BlockBytes \in Nat \ {0}
  BY ProgramsAssumption
<1> DEFINE ins == op.ins
           both == InputValues(op.ins \o op.pred, v)
<1>8. CASE op.fn = "Blake2s"
  <2> DEFINE word == TwoTo(WordBits)
             args == padded \o <<n % word, n \div word>>
  <2>1. word \in Nat \ {0}
    <3>1. WordBits \in Nat /\ WordBits \in 0 .. WordBits
      BY WidthAssumption
    <3> QED BY <3>1, PowersGrow
  <2>2. HelperArgs(op, v) = args
    BY <1>3, <1>8 DEF HelperArgs
  <2> HIDE DEF word, padded, len, xs, n
  <2>3. (n % word) + word * (n \div word) = n /\ n % word \in Int /\ n \div word \in Int
    BY <1>2, <2>1, TwoWords
  <2> DEFINE lo == n % word
             hi == n \div word
  <2>4. args \in [1 .. len + 2 -> Int] /\ Len(args) = len + 2 /\ args[len + 1] = lo
        /\ args[len + 2] = hi /\ \A k \in 1 .. n : args[k] = xs[k]
    <3>1. padded \in [1 .. len -> Int]
      BY <1>6, FeltIsResidue
    <3>2. args \in [1 .. len + 2 -> Int] /\ Len(args) = len + 2 /\ args[len + 1] = lo
          /\ args[len + 2] = hi /\ \A k \in 1 .. len : args[k] = padded[k]
      <4>1. lo \in Int /\ hi \in Int
        BY <2>3
      <4> HIDE DEF lo, hi
      <4>2. args = padded \o <<lo, hi>>
        BY DEF lo, hi
      <4> QED BY <1>6, <3>1, <4>1, <4>2, TwoMore
    <3> HIDE DEF args, lo, hi
    <3> QED BY <1>2, <1>6, <3>2
  <2>5. Message(op.fn, args) = SubSeq(args, 1, lo + word * hi)
    <3>1. (len + 2) - 1 = len + 1
      BY <1>6
    <3> HIDE DEF args, lo, hi
    <3> QED BY <1>8, <2>4, <3>1 DEF Message, word
  <2>6. lo + word * hi = n
    BY <2>3
  <2> HIDE DEF args, lo, hi
  <2>7. SubSeq(args, 1, n) = xs
    <3>1. len + 2 \in Nat /\ n <= len + 2
      BY <1>2, <1>6
    <3> QED BY <1>2, <2>4, <3>1, PrefixIs
  <2> QED BY <1>4, <1>8, <2>2, <2>5, <2>6, <2>7
<1>9. CASE op.fn = "Blake3"
  <2> DEFINE last == n - (Len(padded) \div BlockBytes - 1) * BlockBytes
             args == Append(padded, last)
  <2>1. HelperArgs(op, v) = args
    BY <1>3, <1>9 DEF HelperArgs
  <2>2. Len(padded) = len
    <3> HIDE DEF len, padded
    <3> QED BY <1>6, ByElements
  <2>3. last = n - len + BlockBytes
    <3>1. len \div BlockBytes = b
      <4>1. b * BlockBytes = BlockBytes * b + 0
        BY <1>5, <1>7
      <4>2. (BlockBytes * b) \div BlockBytes = b
        BY <1>5, <1>7, SMT
      <4> QED BY <4>1, <4>2, <1>5, <1>7
    <3>2. (b - 1) * BlockBytes = len - BlockBytes
      BY <1>5, <1>7
    <3> HIDE DEF len, padded, n
    <3>3. last = n - (b - 1) * BlockBytes
      BY <2>2, <3>1
    <3> HIDE DEF last
    <3> QED BY <1>2, <1>6, <1>7, <3>2, <3>3
  <2> HIDE DEF padded, len, xs, n, last
  <2>4. last \in Int
    BY <1>2, <1>6, <1>7, <2>3
  <2>5. args \in [1 .. len + 1 -> Int] /\ Len(args) = len + 1 /\ args[len + 1] = last
        /\ \A k \in 1 .. n : args[k] = xs[k]
    <3>1. padded \in Seq(Int)
      <4>1. padded \in [1 .. len -> Int]
        BY <1>6, FeltIsResidue
      <4> QED BY <1>6, <4>1, ByElements
    <3>2. /\ args \in Seq(Int) /\ Len(args) = len + 1 /\ args[len + 1] = last
          /\ \A k \in 1 .. len : args[k] = padded[k]
      BY <2>2, <2>4, <3>1
    <3> HIDE DEF args
    <3>3. args \in [1 .. len + 1 -> Int]
      BY <1>6, <3>2
    <3> QED BY <1>2, <1>6, <3>2, <3>3
  <2> HIDE DEF args
  <2>6. Message(op.fn, args) = SubSeq(args, 1, len + 1 - 1 - BlockBytes + last)
    <3>1. Message(op.fn, args) = SubSeq(args, 1, Len(args) - 1 - BlockBytes + args[Len(args)])
      BY <1>9 DEF Message
    <3>2. Len(args) = len + 1 /\ args[Len(args)] = last
      BY <2>5
    <3> QED BY <1>6, <1>7, <2>4, <3>1, <3>2
  <2>7. len + 1 - 1 - BlockBytes + last = n
    BY <1>2, <1>6, <1>7, <2>3
  <2>8. SubSeq(args, 1, n) = xs
    <3>1. len + 1 \in Nat /\ n <= len + 1
      BY <1>2, <1>6
    <3> QED BY <1>2, <2>5, <3>1, PrefixIs
  <2> QED BY <1>4, <1>9, <2>1, <2>6, <2>7, <2>8
<1>10. CASE op.fn \notin {"Blake2s", "Blake3"}
  <2>1. HelperArgs(op, v) = both
    BY <1>10 DEF HelperArgs
  <2> HIDE DEF both
  <2> QED BY <1>10, <2>1 DEF Message, both
<1> QED BY <1>8, <1>9, <1>10

---------------------------------------------------------------------------
\* Selectors

\* The selectors that are computed are a sequence of felts: one at the index, zeros elsewhere.
LEMMA SelectorsAreBits ==
    ASSUME NEW i \in F, NEW len \in Nat
    PROVE  /\ ComputedSelectors(i, len) \in [1 .. len -> F]
           /\ \A k \in 1 .. len : k # i + 1 => ComputedSelectors(i, len)[k] = 0
           /\ i + 1 \in 1 .. len => ComputedSelectors(i, len)[i + 1] = 1
BY SmallFelts, FeltIsResidue DEF ComputedSelectors

\* A cell's number is a felt, as the block has at most P cells.
LEMMA CellIsFelt ==
    ASSUME NEW len \in 1 .. P, NEW k \in 1 .. len
    PROVE  k - 1 \in F
BY PrimeAssumption DEF F

\* The constraints pin the selectors to the computed ones, and cannot be met when the index
\* lies outside the block.
LEMMA SelectorsPinned ==
    ASSUME NEW i \in F, NEW len \in 1 .. P
    PROVE  PinnedSelectors(i, len) = IF i < len THEN {ComputedSelectors(i, len)} ELSE {}
<1> DEFINE c == ComputedSelectors(i, len)
<1>1. len \in Nat /\ len > 0 /\ i \in Nat
  BY PrimeAssumption DEF F
<1>2. ASSUME NEW s \in PinnedSelectors(i, len) PROVE i < len /\ s = c
  <2>1. /\ s \in [1 .. len -> F] /\ Sum(s) = 1
        /\ \A k \in 1 .. len : Times(s[k], Minus(s[k], 1)) = 0 /\ Times(s[k], Minus(i, k - 1)) = 0
    BY <1>1 DEF PinnedSelectors
  <2>2. ASSUME NEW k \in 1 .. len, k # i + 1 PROVE s[k] = 0
    <3>1. k - 1 \in F /\ k - 1 # i /\ s[k] \in F
      BY <1>1, <2>1, <2>2, CellIsFelt
    <3>2. Minus(i, k - 1) \in F /\ Minus(i, k - 1) # 0
      BY <3>1, MinusZero
    <3> QED BY <2>1, <3>1, <3>2, TimesZero
  <2>3. i + 1 \in 1 .. len
    <3>1. SUFFICES ASSUME i + 1 \notin 1 .. len PROVE FALSE
      OBVIOUS
    <3>2. \A k \in 1 .. len : s[k] = 0
      BY <2>2, <3>1
    <3> QED BY <1>1, <2>1, <3>2, SumOfZeros
  <2>4. s[i + 1] = 1
    <3>1. Sum(s) = s[i + 1]
      BY <1>1, <2>1, <2>2, <2>3, SumOfOne
    <3> QED BY <2>1, <3>1
  <2>5. \A k \in 1 .. len : s[k] = c[k]
    BY <1>1, <2>2, <2>3, <2>4, SelectorsAreBits
  <2>6. c \in [1 .. len -> F]
    BY <1>1, SelectorsAreBits
  <2>7. s = c
    BY <2>1, <2>5, <2>6
  <2> QED BY <1>1, <2>3, <2>7
<1>3. ASSUME i < len PROVE c \in PinnedSelectors(i, len)
  <2>1. c \in [1 .. len -> F] /\ i + 1 \in 1 .. len /\ c[i + 1] = 1
        /\ \A k \in 1 .. len : k # i + 1 => c[k] = 0
    BY <1>1, <1>3, SelectorsAreBits
  <2> HIDE DEF c
  <2>2. ASSUME NEW k \in 1 .. len
        PROVE  Times(c[k], Minus(c[k], 1)) = 0 /\ Times(c[k], Minus(i, k - 1)) = 0
    <3>1. c[k] \in F /\ k - 1 \in F
      BY <2>1, CellIsFelt
    <3>2. c[k] \in {0, 1}
      BY <2>1
    <3>3. Times(c[k], Minus(c[k], 1)) = 0
      BY <3>1, <3>2, BitConstraint
    <3>4. CASE k = i + 1
      <4>1. k - 1 = i
        BY <1>1, <3>4
      <4> QED BY <3>1, <3>3, <4>1, MinusZero, TimesZero
    <3>5. CASE k # i + 1
      <4>1. Minus(i, k - 1) \in F /\ c[k] = 0
        BY <2>1, <3>1, <3>5, MinusZero
      <4> QED BY <3>1, <3>3, <4>1, TimesZero
    <3> QED BY <3>4, <3>5
  <2>3. Sum(c) = 1
    <3>1. Sum(c) = c[i + 1]
      BY <1>1, <2>1, SumOfOne
    <3> QED BY <2>1, <3>1
  <2> QED BY <2>1, <2>2, <2>3 DEF PinnedSelectors
<1> QED BY <1>2, <1>3

\* Multiplying by the selectors and adding up reads the cell.
LEMMA SelectReads ==
    ASSUME NEW i \in F, NEW len \in Nat, NEW arr \in [1 .. len -> F], i < len
    PROVE  SelectRead(ComputedSelectors(i, len), arr) = arr[i + 1]
<1> DEFINE c == ComputedSelectors(i, len)
           xs == [k \in 1 .. len |-> Times(c[k], arr[k])]
<1>1. i \in Nat /\ i + 1 \in 1 .. len
  BY FeltIsResidue DEF F
<1>2. c \in [1 .. len -> F] /\ c[i + 1] = 1 /\ \A k \in 1 .. len : k # i + 1 => c[k] = 0
  BY <1>1, SelectorsAreBits
<1> HIDE DEF c
<1>3. xs \in [1 .. len -> F]
  BY <1>2, TimesZero
<1>4. \A k \in 1 .. len : k # i + 1 => xs[k] = 0
  BY <1>2, TimesZero
<1>5. xs[i + 1] = arr[i + 1]
  <2>1. arr[i + 1] \in F
    BY <1>1
  <2> QED BY <1>1, <1>2, <2>1, TimesOne
<1>6. SelectRead(c, arr) = Sum(xs)
  <2>1. DOMAIN arr = 1 .. len
    OBVIOUS
  <2> QED BY <2>1 DEF SelectRead
<1> HIDE DEF xs
<1>7. Sum(xs) = xs[i + 1]
  BY <1>1, <1>3, <1>4, SumOfOne
<1> QED BY <1>5, <1>6, <1>7 DEF c

\* Adding the selected differences writes the cell.
LEMMA SelectWrites ==
    ASSUME NEW i \in F, NEW len \in Nat, NEW arr \in [1 .. len -> F], i < len, NEW x \in F
    PROVE  /\ SelectWrite(ComputedSelectors(i, len), arr, x) = [arr EXCEPT ![i + 1] = x]
           /\ [arr EXCEPT ![i + 1] = x] \in [1 .. len -> F]
<1> DEFINE c == ComputedSelectors(i, len)
           new(k) == Plus(arr[k], Times(c[k], Minus(x, arr[k])))
<1>1. i \in Nat /\ i + 1 \in 1 .. len
  BY FeltIsResidue DEF F
<1>2. c \in [1 .. len -> F] /\ c[i + 1] = 1 /\ \A k \in 1 .. len : k # i + 1 => c[k] = 0
  BY <1>1, SelectorsAreBits
<1> HIDE DEF c
<1>3. ASSUME NEW k \in 1 .. len PROVE new(k) = IF k = i + 1 THEN x ELSE arr[k]
  <2>1. arr[k] \in F /\ Minus(x, arr[k]) \in F /\ c[k] \in F
    BY <1>2, MinusZero
  <2>2. CASE k = i + 1
    <3>1. Times(c[k], Minus(x, arr[k])) = Minus(x, arr[k])
      BY <1>2, <2>1, <2>2, TimesOne
    <3> QED BY <2>1, <2>2, <3>1, PlusMinus
  <2>3. CASE k # i + 1
    <3>1. Times(c[k], Minus(x, arr[k])) = 0
      BY <1>2, <2>1, <2>3, TimesZero
    <3> QED BY <2>1, <2>3, <3>1, PlusZero
  <2> QED BY <2>2, <2>3
<1>4. SelectWrite(c, arr, x) = [k \in 1 .. len |-> new(k)]
  <2>1. DOMAIN arr = 1 .. len
    OBVIOUS
  <2> QED BY <2>1 DEF SelectWrite
<1> HIDE DEF new
<1>5. [arr EXCEPT ![i + 1] = x] = [k \in 1 .. len |-> new(k)]
  BY <1>1, <1>3
<1>6. [arr EXCEPT ![i + 1] = x] \in [1 .. len -> F]
  BY <1>1
<1> QED BY <1>4, <1>5, <1>6 DEF c

---------------------------------------------------------------------------
\* What translation guarantees

\* The witnesses that the writer may come to know from an opcode, and the blocks it makes.
Learnt(op) == Outputs(op) \cup (IF op.op = "AssertZero" THEN CollectWitnesses(op.e) ELSE {})
MadeBy(op) == IF op.op = "MemoryInit" THEN {op.block} ELSE {}
Writers(W, B) == [known : SUBSET W, blocks : SUBSET B, ok : BOOLEAN]

\* One step of the writer: a refusal is for good, a block is there only once it was made, and
\* a memory access is accepted only when its block is there.
LEMMA EmitStep ==
    ASSUME NEW W, NEW B, NEW wr \in Writers(W, B), NEW op,
           Learnt(op) \subseteq W, MadeBy(op) \subseteq B
    PROVE  LET after == EmitCompute(wr, op)
           IN  /\ after \in Writers(W, B)
               /\ after.ok => wr.ok
               /\ after.blocks \subseteq wr.blocks \cup MadeBy(op)
               /\ after.ok /\ op.op = "MemoryOp" => op.block \in wr.blocks
<1> DEFINE after == EmitCompute(wr, op)
<1>0. Outputs(op) \subseteq W
  BY DEF Learnt
<1>1. wr.known \subseteq W /\ wr.blocks \subseteq B /\ wr.ok \in BOOLEAN
  BY DEF Writers
<1>2. wr = [known |-> wr.known, blocks |-> wr.blocks, ok |-> wr.ok]
  BY DEF Writers
<1>3. ASSUME NEW ws \in SUBSET W
      PROVE  /\ Know(wr, ws) \in Writers(W, B) /\ Know(wr, ws).ok = wr.ok
             /\ Know(wr, ws).blocks = wr.blocks
  BY <1>1, <1>2 DEF Know, Writers
<1>4. Refuse(wr) \in Writers(W, B) /\ Refuse(wr).ok = FALSE /\ Refuse(wr).blocks = wr.blocks
  BY <1>1, <1>2 DEF Refuse, Writers
<1>5. CASE ~wr.ok
  <2>1. after = wr
    BY <1>5 DEF EmitCompute
  <2> QED BY <1>5, <2>1
<1>6. CASE wr.ok /\ op.op = "AssertZero"
  <2>1. after = EmitAssertZero(wr, op.e)
    BY <1>6 DEF EmitCompute
  <2>2. CollectWitnesses(op.e) \ wr.known \in SUBSET W
    BY <1>6 DEF Learnt
  <2>3. after = Refuse(wr) \/ after = Know(wr, CollectWitnesses(op.e) \ wr.known)
    BY <2>1 DEF EmitAssertZero
  <2> QED BY <1>3, <1>4, <1>6, <2>2, <2>3
<1>7. CASE wr.ok /\ op.op = "MemoryInit"
  <2>1. after = [wr EXCEPT !.blocks = @ \cup {op.block}]
    BY <1>7 DEF EmitCompute
  <2>2. MadeBy(op) = {op.block}
    BY <1>7 DEF MadeBy
  <2> QED BY <1>1, <1>2, <1>7, <2>1, <2>2 DEF Writers
<1>8. CASE wr.ok /\ op.op = "MemoryOp"
  <2>1. after = EmitMemoryOp(wr, op)
    BY <1>8 DEF EmitCompute
  <2>2. CASE op.block \in wr.blocks
    <3>1. after = Know(wr, Outputs(op))
      BY <2>1, <2>2 DEF EmitMemoryOp
    <3> QED BY <1>0, <1>3, <1>8, <2>2, <3>1
  <2>3. CASE op.block \notin wr.blocks
    <3>1. after = Refuse(wr)
      BY <2>1, <2>3 DEF EmitMemoryOp
    <3> QED BY <1>4, <1>8, <2>3, <3>1
  <2> QED BY <2>2, <2>3
<1>9. CASE wr.ok /\ op.op = "BrilligCall"
  <2>1. after = EmitBrilligCall(wr, op)
    BY <1>9 DEF EmitCompute
  <2>2. after = Refuse(wr) \/ after = Know(wr, Outputs(op))
    BY <2>1 DEF EmitBrilligCall
  <2> QED BY <1>0, <1>3, <1>4, <1>9, <2>2
<1>10. CASE wr.ok /\ op.op \notin {"AssertZero", "MemoryInit", "MemoryOp", "BrilligCall"}
  <2>1. after = Know(wr, Outputs(op))
    BY <1>10 DEF EmitCompute
  <2> QED BY <1>0, <1>3, <1>10, <2>1
<1> QED BY <1>5, <1>6, <1>7, <1>8, <1>9, <1>10

\* The writer's states, opcode by opcode, for the first n opcodes.
WriterStates(c, n, W, B, w) ==
    /\ w \in [0 .. n -> Writers(W, B)]
    /\ \A k \in 1 .. n :
          Learnt(c.opcodes[k]) \subseteq W /\ MadeBy(c.opcodes[k]) \subseteq B
    /\ WriterAfter(c, n) = w[n]
    /\ w[0] = Writer(c)
    /\ \A k \in 1 .. n : w[k] = EmitCompute(w[k - 1], c.opcodes[k])

\* The writer goes through such states.
LEMMA WriterUnfolds ==
    ASSUME NEW c, NEW n \in Nat
    PROVE  \E W, B, w : WriterStates(c, n, W, B, w)
<1> DEFINE ops == c.opcodes
           W == Params(c) \cup UNION {Learnt(ops[k]) : k \in 1 .. n}
           B == UNION {MadeBy(ops[k]) : k \in 1 .. n}
           T == Writers(W, B)
           step == [k \in 1 .. n |-> [a \in T |-> EmitCompute(a, ops[k])]]
           Emits(w) == w = [k \in 0 .. n |->
                               IF k = 0 THEN Writer(c) ELSE EmitCompute(w[k - 1], ops[k])]
           writer == CHOOSE w : Emits(w)
<1>1. n \in Nat
  OBVIOUS
<1>2. ASSUME NEW k \in 1 .. n PROVE Learnt(ops[k]) \subseteq W /\ MadeBy(ops[k]) \subseteq B
  OBVIOUS
<1>3. Writer(c) \in T
  BY DEF Writer, Writers
<1>4. WriterAfter(c, n) = writer[n]
  BY DEF WriterAfter
<1> HIDE DEF W, B, ops
<1>5. ASSUME NEW k \in 1 .. n, NEW a \in T PROVE EmitCompute(a, ops[k]) \in T
  BY <1>2, EmitStep
<1> HIDE DEF T
<1>6. step \in [1 .. n -> [T -> T]]
  BY <1>5
<1>7. \E f \in [0 .. n -> T] : Follows(f, n, Writer(c), step)
  <2> HIDE DEF step
  <2> QED BY <1>1, <1>3, <1>6, UpToRecursion
<1>8. PICK f \in [0 .. n -> T] : Follows(f, n, Writer(c), step)
  BY <1>7
<1>9. ASSUME NEW k \in 1 .. n PROVE f[k - 1] \in T /\ f[k] = EmitCompute(f[k - 1], ops[k])
  <2>1. k - 1 \in 0 .. n
    BY <1>1
  <2>2. f[k - 1] \in T
    BY <2>1
  <2> QED BY <1>8, <2>2 DEF Follows
<1>10. f[0] = Writer(c)
  BY <1>8 DEF Follows
<1> HIDE DEF step
<1>11. f = [k \in 0 .. n |-> IF k = 0 THEN Writer(c) ELSE EmitCompute(f[k - 1], ops[k])]
  BY <1>1, <1>9, <1>10
<1>12. Emits(f)
  BY <1>11
<1>13. Emits(writer)
  <2> HIDE DEF Emits
  <2> QED BY <1>12
<1> HIDE DEF writer
<1>14. writer[0] = Writer(c) /\ \A k \in 1 .. n : writer[k] = EmitCompute(writer[k - 1], ops[k])
  BY <1>1, <1>13
<1> DEFINE S == {k \in 0 .. n : writer[k] \in T}
<1>15. ASSUME NEW k \in 0 .. n - 1, k \in S PROVE k + 1 \in S
  <2>1. k + 1 \in 1 .. n /\ (k + 1) - 1 = k
    BY <1>1
  <2>2. writer[k + 1] = EmitCompute(writer[k], ops[k + 1])
    BY <1>14, <2>1
  <2> QED BY <1>5, <1>15, <2>1, <2>2
<1>16. 0 \in S
  BY <1>1, <1>3, <1>14
<1>17. \A k \in 0 .. n : k \in S
  <2> HIDE DEF S
  <2> QED BY <1>1, <1>15, <1>16, UpToInduction
<1>18. writer \in [0 .. n -> T]
  BY <1>13, <1>17
<1>19. \A k \in 1 .. n : Learnt(ops[k]) \subseteq W /\ MadeBy(ops[k]) \subseteq B
  BY <1>2
<1> HIDE DEF Emits, S
<1>20. WriterStates(c, n, W, B, writer)
  BY <1>4, <1>14, <1>18, <1>19 DEF WriterStates, T, ops
<1> QED BY <1>20

\* In a circuit that was translated, every block is initialised before it is accessed.
LEMMA BlockIsMade ==
    ASSUME NEW c, IsSequence(c.opcodes), Translates(c),
           NEW k \in DOMAIN c.opcodes, c.opcodes[k].op = "MemoryOp"
    PROVE  \E j \in 1 .. k - 1 :
              c.opcodes[j].op = "MemoryInit" /\ c.opcodes[j].block = c.opcodes[k].block
<1> DEFINE ops == c.opcodes
           n == Len(ops)
           Made(m) == {ops[j].block : j \in {i \in 1 .. m : ops[i].op = "MemoryInit"}}
<1>1. n \in Nat /\ DOMAIN ops = 1 .. n /\ k \in 1 .. n
  BY DEF IsSequence
<1>2. WriterAfter(c, n).ok
  BY DEF Translates
<1>3. PICK W, B, w : WriterStates(c, n, W, B, w)
  BY <1>1, WriterUnfolds
<1>4. /\ w \in [0 .. n -> Writers(W, B)]
      /\ \A m \in DOMAIN ops : Learnt(ops[m]) \subseteq W /\ MadeBy(ops[m]) \subseteq B
      /\ WriterAfter(c, n) = w[n] /\ w[0] = Writer(c)
      /\ \A m \in 1 .. n : w[m] = EmitCompute(w[m - 1], ops[m])
  BY <1>3 DEF WriterStates
<1> HIDE DEF ops, n
<1>5. ASSUME NEW m \in 1 .. n
      PROVE  /\ w[m].ok => w[m - 1].ok
             /\ w[m].blocks \subseteq w[m - 1].blocks \cup MadeBy(ops[m])
             /\ w[m].ok /\ ops[m].op = "MemoryOp" => ops[m].block \in w[m - 1].blocks
  <2>1. m - 1 \in 0 .. n /\ m \in DOMAIN ops
    BY <1>1
  <2>2. w[m - 1] \in Writers(W, B) /\ w[m] = EmitCompute(w[m - 1], ops[m])
    BY <1>4, <2>1
  <2> QED BY <1>4, <2>1, <2>2, EmitStep
<1> DEFINE S == {m \in 0 .. n : w[n - m].ok}
<1>6. ASSUME NEW m \in 0 .. n - 1, m \in S PROVE m + 1 \in S
  <2>1. n - m \in 1 .. n /\ (n - m) - 1 = n - (m + 1) /\ m + 1 \in 0 .. n
    BY <1>1
  <2>2. w[n - m].ok => w[(n - m) - 1].ok
    BY <1>5, <2>1
  <2> QED BY <1>6, <2>1, <2>2
<1>7. 0 \in S
  BY <1>1, <1>2, <1>4
<1>8. \A m \in 0 .. n : m \in S
  <2> HIDE DEF S
  <2> QED BY <1>1, <1>6, <1>7, UpToInduction
<1>9. w[k].ok
  <2>1. n - k \in 0 .. n /\ n - (n - k) = k
    BY <1>1
  <2> QED BY <1>8, <2>1
<1> DEFINE U == {m \in 0 .. n : w[m].blocks \subseteq Made(m)}
<1>10. ASSUME NEW m \in 0 .. n - 1, m \in U PROVE m + 1 \in U
  <2>1. m + 1 \in 1 .. n /\ (m + 1) - 1 = m
    BY <1>1
  <2>2. w[m + 1].blocks \subseteq w[m].blocks \cup MadeBy(ops[m + 1])
    BY <1>5, <2>1
  <2>3. Made(m) \subseteq Made(m + 1)
    <3>1. 1 .. m \subseteq 1 .. m + 1
      BY <2>1
    <3> QED BY <3>1
  <2>4. MadeBy(ops[m + 1]) \subseteq Made(m + 1)
    <3>1. m + 1 \in 1 .. m + 1
      BY <2>1
    <3> QED BY <3>1 DEF MadeBy
  <2> HIDE DEF Made
  <2> QED BY <1>10, <2>1, <2>2, <2>3, <2>4
<1>11. 0 \in U
  <2>1. w[0].blocks = {}
    BY <1>4 DEF Writer
  <2> QED BY <1>1, <2>1
<1>12. \A m \in 0 .. n : m \in U
  <2> HIDE DEF U
  <2> QED BY <1>1, <1>10, <1>11, UpToInduction
<1>13. k - 1 \in 0 .. n /\ ops[k].op = "MemoryOp"
  BY <1>1 DEF ops
<1>14. ops[k].block \in Made(k - 1)
  <2> HIDE DEF Made
  <2>1. ops[k].block \in w[k - 1].blocks
    BY <1>1, <1>5, <1>9, <1>13
  <2> QED BY <1>12, <1>13, <2>1
<1>15. PICK j \in 1 .. k - 1 : ops[j].op = "MemoryInit" /\ ops[j].block = ops[k].block
  BY <1>14
<1> QED BY <1>15 DEF ops

---------------------------------------------------------------------------
\* The inductive invariant

\* What translation has checked of the k-th opcode, and @constrain relies on.
Checked(cs, ops, k) ==
    LET op == ops[k]
    IN  /\ op.op = "MemoryOp" =>
              /\ \E j \in 1 .. k - 1 : ops[j].op = "MemoryInit" /\ ops[j].block = op.block
              /\ op.operation.qc \in {0, 1}
              /\ op.operation.qc = 0 =>
                    \E w \in CollectWitnesses(op.value) :
                       op.value = [mul |-> <<>>, lin |-> <<<<1, w>>>>, qc |-> 0]
        /\ op.op \in {"AND", "XOR", "RANGE"} => ConstantsFit(op.ins, op.bits)
        /\ op.op = "BlackBox" =>
              ConstantsFit(op.ins, InputBits(op.fn)) /\ ConstantsFit(op.pred, 1)
        /\ op.op = "Call" =>
              /\ op.id \in DOMAIN cs
              /\ Len(cs[op.id].returns) = Len(op.outs)
              /\ Len(op.ins) = Cardinality(Params(cs[op.id]))

WellFormed(cs) ==
    /\ 1 \in DOMAIN cs
    /\ \A c \in DOMAIN cs : IsCircuit(cs[c])
                            /\ \A k \in DOMAIN cs[c].opcodes : Checked(cs, cs[c].opcodes, k)

\* The blocks made before the opcode at pc; every one has cells, and no more than P.
BlocksBefore(ops, pc) == {ops[j].block : j \in {i \in 1 .. pc - 1 : ops[i].op = "MemoryInit"}}
MemoryFits(ops, pc, mem) ==
    /\ DOMAIN mem = BlocksBefore(ops, pc)
    /\ \A b \in DOMAIN mem : mem[b] \in [1 .. Len(mem[b]) -> F] /\ Len(mem[b]) \in 1 .. P

\* A frame of a running @constrain: the relation's memory is the code's.
FrameFits(cs, f) ==
    /\ f = [c |-> f.c, pc |-> f.pc, vals |-> f.vals, self |-> f.self, mem |-> f.mem,
            ref |-> [st |-> f.ref.st, sol |-> f.ref.sol, mem |-> f.mem]]
    /\ f.c \in DOMAIN cs /\ f.pc \in 1 .. Len(cs[f.c].opcodes) + 1
    /\ IsValuation(f.vals) /\ Params(cs[f.c]) \subseteq DOMAIN f.vals
    /\ MemoryFits(cs[f.c].opcodes, f.pc, f.mem)

\* A caller waits at a Call whose predicate is one.
Waits(cs, f, g) ==
    LET op == cs[f.c].opcodes[f.pc]
    IN  /\ f.pc \in DOMAIN cs[f.c].opcodes /\ op.op = "Call" /\ g.c = op.id
        /\ GetWitnesses(op) \subseteq DOMAIN f.vals
        /\ EmitExpression(op.pred, f.vals) = 1

StackFits(cs, fs) ==
    /\ fs \in Seq(ToSet(fs)) /\ fs # <<>>
    /\ \A k \in 1 .. Len(fs) : FrameFits(cs, fs[k])
    /\ \A k \in 1 .. Len(fs) - 1 : Waits(cs, fs[k], fs[k + 1])

IInv ==
    /\ prog \in Programs
    /\ accepted \in BOOLEAN /\ holds \in BOOLEAN /\ AcceptsExactlySolutions
    /\ phase \in {"compute", "constrain"} =>
          WellFormed(Circuits) /\ inputs \in [1 .. Cardinality(Params(Circuits[1])) -> F]
    /\ phase = "constrain" => StackFits(Circuits, stack)

\* Circuits that translate are well-formed.
LEMMA TranslatedFits ==
    ASSUME prog \in Programs, \A c \in ToSet(Circuits) : Translates(c)
    PROVE  WellFormed(Circuits)
<1>1. IsSequence(Circuits) /\ Circuits # <<>> /\ \A c \in DOMAIN Circuits : IsCircuit(Circuits[c])
  BY ProgramsAssumption DEF Circuits
<1>2. 1 \in DOMAIN Circuits
  BY <1>1 DEF IsSequence
<1>3. ASSUME NEW c \in DOMAIN Circuits, NEW k \in DOMAIN Circuits[c].opcodes
      PROVE  Checked(Circuits, Circuits[c].opcodes, k)
  <2> DEFINE ops == Circuits[c].opcodes
             op == ops[k]
  <2>1. Translates(Circuits[c]) /\ IsSequence(ops)
    BY <1>1 DEF ToSet, IsCircuit
  <2>2. ~HandlerRefuses(Circuits[c], op) /\ ~VerifierRefuses(Circuits[c], op)
    BY <2>1 DEF Translates, ToSet
  <2>3. op.op = "MemoryOp" =>
           \E j \in 1 .. k - 1 : ops[j].op = "MemoryInit" /\ ops[j].block = op.block
    BY <2>1, BlockIsMade
  <2>4. op.op = "MemoryOp" =>
           /\ op.operation.qc \in {0, 1}
           /\ op.operation.qc = 0 =>
                 \E w \in CollectWitnesses(op.value) :
                    op.value = [mul |-> <<>>, lin |-> <<<<1, w>>>>, qc |-> 0]
    <3> HIDE DEF op
    <3> QED BY <2>2 DEF HandlerRefuses
  <2>5. op.op \in {"AND", "XOR", "RANGE"} => ConstantsFit(op.ins, op.bits)
    <3> HIDE DEF op
    <3> QED BY <2>2 DEF HandlerRefuses
  <2>6. op.op = "BlackBox" => ConstantsFit(op.ins, InputBits(op.fn)) /\ ConstantsFit(op.pred, 1)
    <3> HIDE DEF op
    <3> QED BY <2>2 DEF HandlerRefuses
  <2>7. op.op = "Call" =>
           /\ op.id \in DOMAIN Circuits
           /\ Len(Circuits[op.id].returns) = Len(op.outs)
           /\ Len(op.ins) = Cardinality(Params(Circuits[op.id]))
    <3> HIDE DEF op
    <3> QED BY <2>2 DEF HandlerRefuses, VerifierRefuses
  <2> QED BY <2>3, <2>4, <2>5, <2>6, <2>7 DEF Checked
<1> QED BY <1>1, <1>2, <1>3 DEF WellFormed

\* The blocks after an opcode.
LEMMA BlocksGrow ==
    ASSUME NEW ops, NEW pc \in Nat \ {0}
    PROVE  /\ BlocksBefore(ops, pc + 1) = BlocksBefore(ops, pc) \cup MadeBy(ops[pc])
           /\ BlocksBefore(ops, 1) = {}
<1>1. 1 .. (pc + 1) - 1 = (1 .. pc - 1) \cup {pc}
  OBVIOUS
<1>2. 1 .. 1 - 1 = {}
  OBVIOUS
<1> QED BY <1>1, <1>2 DEF BlocksBefore, MadeBy

\* The place of an input in the parameter list.
LEMMA ParamIndexInRange ==
    ASSUME NEW c, IsCircuit(c), NEW w \in Params(c)
    PROVE  ParamIndex(c, w) \in 1 .. Cardinality(Params(c))
<1> DEFINE S == {u \in Params(c) : u <= w}
<1>1. IsFiniteSet(Params(c)) /\ Params(c) \subseteq Nat
  BY FS_Union DEF Params, IsCircuit
<1>2. S \subseteq Params(c) /\ w \in S
  BY <1>1
<1>3. IsFiniteSet(S) /\ Cardinality(S) <= Cardinality(Params(c))
  BY <1>1, <1>2, FS_Subset
<1>4. Cardinality(S) \in Nat /\ Cardinality(S) # 0 /\ Cardinality(Params(c)) \in Nat
  BY <1>1, <1>2, <1>3, FS_CardinalityType, FS_EmptySet
<1> QED BY <1>3, <1>4 DEF ParamIndex

\* A frame that begins fits.
LEMMA FrameBegins ==
    ASSUME WellFormed(Circuits), NEW c \in DOMAIN Circuits,
           NEW args \in [1 .. Cardinality(Params(Circuits[c])) -> F], NEW self, NEW sol
    PROVE  FrameFits(Circuits, Frame(c, args, self, Solver(sol)))
<1> DEFINE f == Frame(c, args, self, Solver(sol))
           vals == [w \in Params(Circuits[c]) |-> args[ParamIndex(Circuits[c], w)]]
<1>1. IsCircuit(Circuits[c])
  BY DEF WellFormed
<1>2. vals \in [Params(Circuits[c]) -> F]
  BY <1>1, ParamIndexInRange
<1> HIDE DEF vals
<1>3. f = [c |-> c, pc |-> 1, vals |-> vals, self |-> self, mem |-> <<>>,
           ref |-> [st |-> "solving", sol |-> sol, mem |-> <<>>]]
  BY DEF Frame, Solver, vals
<1>4. 1 \in 1 .. Len(Circuits[c].opcodes) + 1
  BY <1>1 DEF IsCircuit, IsSequence
<1>5. MemoryFits(Circuits[c].opcodes, 1, <<>>)
  <2>1. BlocksBefore(Circuits[c].opcodes, 1) = {}
    BY BlocksGrow
  <2>2. DOMAIN <<>> = {}
    OBVIOUS
  <2> QED BY <2>1, <2>2 DEF MemoryFits
<1> HIDE DEF f
<1> QED BY <1>2, <1>3, <1>4, <1>5 DEF FrameFits, IsValuation, f

---------------------------------------------------------------------------
\* The stack

\* The top frame may be replaced by another frame of the same circuit.
LEMMA ReplaceTop ==
    ASSUME NEW cs, NEW fs, StackFits(cs, fs),
           NEW g, FrameFits(cs, g), g.c = fs[Len(fs)].c
    PROVE  StackFits(cs, [fs EXCEPT ![Len(fs)] = g])
<1> DEFINE n == Len(fs)
           new == [fs EXCEPT ![n] = g]
<1>1. fs \in Seq(ToSet(fs)) /\ n \in Nat /\ n > 0 /\ DOMAIN fs = 1 .. n
  BY DEF StackFits
<1>2. new = [k \in 1 .. n |-> IF k = n THEN g ELSE fs[k]]
  BY <1>1
<1> HIDE DEF new
<1>3. new \in Seq(ToSet(new)) /\ Len(new) = n /\ new # <<>>
  <2>1. \A k \in 1 .. n : new[k] \in ToSet(new)
    BY <1>2 DEF ToSet
  <2>2. new \in [1 .. n -> ToSet(new)]
    BY <1>2, <2>1
  <2> QED BY <1>1, <2>2, ByElements
<1>4. \A k \in 1 .. n : FrameFits(cs, new[k])
  BY <1>1, <1>2 DEF StackFits
<1>5. ASSUME NEW k \in 1 .. n - 1 PROVE Waits(cs, new[k], new[k + 1])
  <2>1. k \in 1 .. n /\ k + 1 \in 1 .. n /\ k # n
    <3> HIDE DEF n
    <3> QED BY <1>1
  <2>2. new[k] = fs[k] /\ new[k + 1].c = fs[k + 1].c
    BY <1>2, <2>1
  <2>3. Waits(cs, fs[k], fs[k + 1])
    BY DEF StackFits
  <2> QED BY <2>2, <2>3 DEF Waits
<1> QED BY <1>3, <1>4, <1>5 DEF StackFits, new

\* The fields of a frame.
LEMMA FrameRecord ==
    ASSUME NEW cs, NEW f, FrameFits(cs, f)
    PROVE  /\ f = [c |-> f.c, pc |-> f.pc, vals |-> f.vals, self |-> f.self, mem |-> f.mem,
                   ref |-> f.ref]
           /\ f.ref = [st |-> f.ref.st, sol |-> f.ref.sol, mem |-> f.mem]
<1> DEFINE r == [st |-> f.ref.st, sol |-> f.ref.sol, mem |-> f.mem]
<1>1. f = [c |-> f.c, pc |-> f.pc, vals |-> f.vals, self |-> f.self, mem |-> f.mem, ref |-> r]
  BY DEF FrameFits
<1> HIDE DEF r
<1>2. f.ref = r
  BY <1>1
<1> QED BY <1>1, <1>2 DEF r

\* A callee's frame may be added when the top frame waits for it.
LEMMA AddFrame ==
    ASSUME NEW cs, NEW fs, StackFits(cs, fs),
           NEW g, FrameFits(cs, g), Waits(cs, fs[Len(fs)], g)
    PROVE  StackFits(cs, Append(fs, g))
<1> DEFINE n == Len(fs)
           new == Append(fs, g)
<1>1. fs \in Seq(ToSet(fs)) /\ n \in Nat /\ n > 0 /\ DOMAIN fs = 1 .. n
  BY DEF StackFits
<1>2. /\ DOMAIN new = 1 .. n + 1 /\ new[n + 1] = g
      /\ \A k \in 1 .. n : new[k] = fs[k]
  BY <1>1
<1>7. Waits(cs, fs[n], g)
  OBVIOUS
<1> HIDE DEF new, n
<1>3. new = [k \in 1 .. n + 1 |-> new[k]]
  <2>1. new \in Seq(ToSet(fs) \cup {g})
    BY <1>1 DEF new
  <2> QED BY <1>2, <2>1
<1>4. new \in Seq(ToSet(new)) /\ Len(new) = n + 1 /\ new # <<>>
  <2>1. \A k \in 1 .. n + 1 : new[k] \in ToSet(new)
    BY <1>2 DEF ToSet
  <2>2. new \in [1 .. n + 1 -> ToSet(new)]
    BY <1>3, <2>1
  <2>3. n + 1 \in Nat
    BY <1>1
  <2>4. new \in Seq(ToSet(new)) /\ Len(new) = n + 1
    BY <2>2, <2>3, ByElements
  <2> QED BY <1>1, <2>4
<1>5. ASSUME NEW k \in 1 .. n + 1 PROVE FrameFits(cs, new[k])
  BY <1>1, <1>2 DEF StackFits, n
<1>6. ASSUME NEW k \in 1 .. (n + 1) - 1 PROVE Waits(cs, new[k], new[k + 1])
  <2>1. CASE k = n
    BY <1>1, <1>2, <1>7, <2>1
  <2>2. CASE k # n
    <3>1. k \in 1 .. n - 1 /\ k \in 1 .. n /\ k + 1 \in 1 .. n
      BY <1>1, <2>2
    <3> QED BY <1>2, <3>1 DEF StackFits, n
  <2> QED BY <2>1, <2>2
<1> QED BY <1>4, <1>5, <1>6 DEF StackFits, new, n

\* The top frame may be dropped, and its caller go on.
LEMMA DropTop ==
    ASSUME NEW cs, NEW fs, StackFits(cs, fs), Len(fs) > 1,
           NEW g, FrameFits(cs, g), g.c = fs[Len(fs) - 1].c
    PROVE  StackFits(cs, Append(SubSeq(fs, 1, Len(fs) - 2), g))
<1> DEFINE n == Len(fs)
           init == SubSeq(fs, 1, n - 2)
           new == Append(init, g)
<1>1. fs \in Seq(ToSet(fs)) /\ n \in Nat /\ n > 1 /\ DOMAIN fs = 1 .. n
  BY DEF StackFits
<1>2. /\ init \in Seq(ToSet(fs)) /\ Len(init) = n - 2
      /\ \A k \in 1 .. n - 2 : init[k] = fs[k]
  BY <1>1
<1>8. g.c = fs[n - 1].c
  OBVIOUS
<1> HIDE DEF init, n
<1>3. /\ DOMAIN new = 1 .. n - 1 /\ new[n - 1] = g
      /\ \A k \in 1 .. n - 2 : new[k] = fs[k]
  BY <1>1, <1>2
<1> HIDE DEF new
<1>4. new = [k \in 1 .. n - 1 |-> new[k]]
  <2>1. new \in Seq(ToSet(fs) \cup {g})
    BY <1>1, <1>2 DEF new
  <2> QED BY <1>3, <2>1
<1>5. new \in Seq(ToSet(new)) /\ Len(new) = n - 1 /\ new # <<>>
  <2>1. \A k \in 1 .. n - 1 : new[k] \in ToSet(new)
    BY <1>3 DEF ToSet
  <2>2. new \in [1 .. n - 1 -> ToSet(new)]
    BY <1>4, <2>1
  <2>3. n - 1 \in Nat
    BY <1>1
  <2>4. new \in Seq(ToSet(new)) /\ Len(new) = n - 1
    BY <2>2, <2>3, ByElements
  <2> QED BY <1>1, <2>4
<1>6. ASSUME NEW k \in 1 .. n - 1 PROVE FrameFits(cs, new[k])
  <2>1. k = n - 1 \/ (k \in 1 .. n - 2 /\ k \in 1 .. n)
    BY <1>1
  <2> QED BY <1>3, <2>1 DEF StackFits, n
<1>7. ASSUME NEW k \in 1 .. (n - 1) - 1 PROVE Waits(cs, new[k], new[k + 1])
  <2>1. k \in 1 .. n - 1 /\ k \in 1 .. n - 2
    BY <1>1
  <2>2. Waits(cs, fs[k], fs[k + 1])
    BY <2>1 DEF StackFits, n
  <2>3. new[k] = fs[k]
    BY <1>3, <2>1
  <2>4. new[k + 1].c = fs[k + 1].c
    <3>1. CASE k = n - 2
      <4>1. k + 1 = n - 1
        BY <1>1, <3>1
      <4> QED BY <1>3, <1>8, <4>1
    <3>2. CASE k # n - 2
      <4>1. k + 1 \in 1 .. n - 2
        BY <1>1, <2>1, <3>2
      <4> QED BY <1>3, <4>1
    <3> QED BY <3>1, <3>2
  <2> QED BY <2>2, <2>3, <2>4 DEF Waits
<1> QED BY <1>5, <1>6, <1>7 DEF StackFits, new, init, n

---------------------------------------------------------------------------
\* A step of @constrain

\* What is known of the running opcode.
LEMMA Running_ ==
    ASSUME IInv, NEW ops, Constraining(ops)
    PROVE  /\ WellFormed(Circuits) /\ StackFits(Circuits, stack) /\ FrameFits(Circuits, Top)
           /\ Top.pc \in DOMAIN Circuits[Top.c].opcodes /\ Op = Circuits[Top.c].opcodes[Top.pc]
           /\ IsOpcode(Op) /\ Checked(Circuits, Circuits[Top.c].opcodes, Top.pc) /\ Op.op \in ops
           /\ accepted = TRUE /\ holds = TRUE /\ phase = "constrain"
<1>1. accepted = TRUE /\ phase = "constrain" /\ Op.op \in ops /\ ~AtEnd(Top)
  BY DEF Constraining, At, Running, IInv
<1>2. holds = TRUE
  BY <1>1 DEF IInv, AcceptsExactlySolutions
<1>3. WellFormed(Circuits) /\ StackFits(Circuits, stack)
  BY <1>1 DEF IInv
<1>4. Len(stack) \in 1 .. Len(stack)
  BY <1>3 DEF StackFits
<1>5. FrameFits(Circuits, Top)
  BY <1>3, <1>4 DEF StackFits, Top
<1>6. Top.c \in DOMAIN Circuits /\ Top.pc \in 1 .. Len(Circuits[Top.c].opcodes) + 1
  BY <1>5 DEF FrameFits
<1>7. IsSequence(Circuits[Top.c].opcodes)
  BY <1>3, <1>6 DEF WellFormed, IsCircuit
<1>8. Top.pc \in DOMAIN Circuits[Top.c].opcodes /\ Op = Circuits[Top.c].opcodes[Top.pc]
  <2>1. ~(Top.pc > Len(Circuits[Top.c].opcodes))
    BY <1>1 DEF AtEnd, Code
  <2>2. Op = Circuits[Top.c].opcodes[Top.pc]
    BY DEF Op, Code
  <2> QED BY <1>6, <1>7, <2>1, <2>2 DEF IsSequence
<1>9. IsOpcode(Op) /\ Checked(Circuits, Circuits[Top.c].opcodes, Top.pc)
  BY <1>3, <1>6, <1>8 DEF WellFormed, IsCircuit
<1> QED BY <1>1, <1>2, <1>3, <1>5, <1>8, <1>9

\* The witnesses that are read have some felts as their values; those known keep theirs.
LEMMA ReadIsValuation ==
    ASSUME IsValuation(Top.vals), NEW witnesses, NEW v \in Read(witnesses)
    PROVE  IsValuation(v) /\ DOMAIN Top.vals \subseteq DOMAIN v /\ witnesses \subseteq DOMAIN v
<1> DEFINE new == witnesses \ DOMAIN Top.vals
<1>1. PICK g \in [new -> F] : v = Override(Top.vals, g)
  BY DEF Read
<1> HIDE DEF new
<1>2. v = [w \in DOMAIN Top.vals \cup new |-> IF w \in new THEN g[w] ELSE Top.vals[w]]
  BY <1>1 DEF Override
<1>3. v \in [new \cup DOMAIN Top.vals -> F]
  BY <1>2 DEF IsValuation
<1> QED BY <1>3 DEF IsValuation, new

\* Check, whatever the constraints are.
Moves(v, mem) ==
    /\ stack' = [stack EXCEPT ![Len(stack)] = Advanced(Top, v, mem)]
    /\ holds' = (holds /\ Holds(Op, v, Top.ref.mem))
    /\ phase' = IF accepted' THEN phase ELSE "done"
    /\ UNCHANGED <<prog, inputs, mode, outcome, solved>>

\* The record of the frame after a step.
LEMMA RecordAdvances ==
    ASSUME NEW c, NEW pc, NEW vals, NEW self, NEW mem, NEW ref,
           NEW newpc, NEW newvals, NEW newmem, NEW newref, NEW f,
           f = [c |-> c, pc |-> pc, vals |-> vals, self |-> self, mem |-> mem, ref |-> ref]
    PROVE  [f EXCEPT !.vals = newvals, !.mem = newmem, !.pc = newpc, !.ref = newref]
             = [c |-> c, pc |-> newpc, vals |-> newvals, self |-> self, mem |-> newmem,
                ref |-> newref]
<1> DEFINE f1 == [f EXCEPT !.vals = newvals]
           f2 == [f1 EXCEPT !.mem = newmem]
           f3 == [f2 EXCEPT !.pc = newpc]
           f4 == [f3 EXCEPT !.ref = newref]
<1>1. f1 = [c |-> c, pc |-> pc, vals |-> newvals, self |-> self, mem |-> mem, ref |-> ref]
  OBVIOUS
<1> HIDE DEF f1
<1>2. f2 = [c |-> c, pc |-> pc, vals |-> newvals, self |-> self, mem |-> newmem, ref |-> ref]
  BY <1>1
<1> HIDE DEF f2
<1>3. f3 = [c |-> c, pc |-> newpc, vals |-> newvals, self |-> self, mem |-> newmem, ref |-> ref]
  BY <1>2
<1> HIDE DEF f3
<1>4. f4 = [c |-> c, pc |-> newpc, vals |-> newvals, self |-> self, mem |-> newmem,
            ref |-> newref]
  BY <1>3
<1> HIDE DEF f4
<1>5. [f EXCEPT !.vals = newvals, !.mem = newmem, !.pc = newpc, !.ref = newref] = f4
  BY DEF f1, f2, f3, f4
<1> QED BY <1>4, <1>5

\* A step keeps the invariant if its constraints say what the opcode means, and the memory
\* becomes what it becomes in ACVM.
LEMMA MovesKeep ==
    ASSUME IInv, NEW ops, Constraining(ops), NEW v, NEW mem, Moves(v, mem),
           IsValuation(v), DOMAIN Top.vals \subseteq DOMAIN v,
           accepted' \in BOOLEAN, accepted' <=> Holds(Op, v, Top.mem),
           accepted' => /\ mem = MemoryAfter(Op, v, Top.mem)
                        /\ MemoryFits(Circuits[Top.c].opcodes, Top.pc + 1, mem)
    PROVE  IInv'
<1> DEFINE f == Top
           code == Circuits[f.c].opcodes
           g == Advanced(f, v, mem)
<1>1. /\ WellFormed(Circuits) /\ StackFits(Circuits, stack) /\ FrameFits(Circuits, f)
      /\ f.pc \in DOMAIN code /\ IsOpcode(Op)
      /\ accepted = TRUE /\ holds = TRUE /\ phase = "constrain"
  BY Running_
<1>2. f.ref.mem = f.mem /\ f.c \in DOMAIN Circuits /\ IsSequence(code)
  <2>1. f.ref = [st |-> f.ref.st, sol |-> f.ref.sol, mem |-> f.mem]
    BY <1>1 DEF FrameFits
  <2>2. f.ref.mem = f.mem
    BY <2>1
  <2> QED BY <1>1, <2>2 DEF FrameFits, WellFormed, IsCircuit
<1>3. Circuits' = Circuits /\ prog' = prog /\ inputs' = inputs
  BY DEF Moves, Circuits
<1>4. (holds' <=> Holds(Op, v, f.mem)) /\ holds' \in BOOLEAN
  <2>1. holds' = (holds /\ Holds(Op, v, f.ref.mem))
    BY DEF Moves
  <2>2. holds' = (holds /\ Holds(Op, v, f.mem))
    BY <1>2, <2>1
  <2> QED BY <1>1, <2>2, Zenon
<1>5. AcceptsExactlySolutions'
  BY <1>4 DEF AcceptsExactlySolutions
<1>6. stack' = [stack EXCEPT ![Len(stack)] = g]
  BY DEF Moves
<1>7. ASSUME phase' = "constrain" PROVE StackFits(Circuits, stack')
  <2>1. accepted'
    BY <1>7 DEF Moves
  <2>2. mem = MemoryAfter(Op, v, f.ref.mem) /\ MemoryFits(code, f.pc + 1, mem)
    BY <1>2, <2>1
  <2>3. f = [c |-> f.c, pc |-> f.pc, vals |-> f.vals, self |-> f.self, mem |-> f.mem,
             ref |-> [st |-> f.ref.st, sol |-> f.ref.sol, mem |-> f.mem]]
    BY <1>1 DEF FrameFits
  <2>4. Params(Circuits[f.c]) \subseteq DOMAIN v
    BY <1>1 DEF FrameFits
  <2> HIDE DEF f
  <2> DEFINE ref == [st |-> f.ref.st, sol |-> f.ref.sol, mem |-> mem]
  <2>9. [f.ref EXCEPT !.mem = mem] = ref
    <3>1. f.ref = [st |-> f.ref.st, sol |-> f.ref.sol, mem |-> f.mem]
      BY <2>3
    <3> DEFINE r == f.ref
               st == r.st
               sol == r.sol
               old == f.mem
    <3>2. r = [st |-> st, sol |-> sol, mem |-> old]
      BY <3>1
    <3> HIDE DEF r, st, sol, old
    <3>3. [r EXCEPT !.mem = mem] = [st |-> st, sol |-> sol, mem |-> mem]
      BY <3>2
    <3> QED BY <3>3 DEF r, st, sol, old
  <2> HIDE DEF ref
  <2>5. g = [c |-> f.c, pc |-> f.pc + 1, vals |-> v, self |-> f.self, mem |-> mem, ref |-> ref]
    <3> DEFINE c == f.c
               pc == f.pc
               vals == f.vals
               self == f.self
               old == f.mem
               r == f.ref
               next == pc + 1
    <3>1. f = [c |-> c, pc |-> pc, vals |-> vals, self |-> self, mem |-> old, ref |-> r]
      BY <2>3
    <3>2. g = [f EXCEPT !.vals = v, !.mem = mem, !.pc = next, !.ref = ref]
      BY <2>2, <2>9 DEF Advanced
    <3> HIDE DEF g, c, pc, vals, self, old, r, next
    <3>3. g = [c |-> c, pc |-> next, vals |-> v, self |-> self, mem |-> mem, ref |-> ref]
      BY <3>1, <3>2, RecordAdvances
    <3> QED BY <3>3 DEF c, pc, self, next
  <2>6. f.pc + 1 \in 1 .. Len(code) + 1
    BY <1>1, <1>2 DEF IsSequence
  <2> HIDE DEF g
  <2>7. FrameFits(Circuits, g)
    BY <1>2, <2>2, <2>4, <2>5, <2>6 DEF FrameFits, ref
  <2>8. g.c = stack[Len(stack)].c
    BY <2>5 DEF f, Top
  <2> QED BY <1>1, <1>6, <2>7, <2>8, ReplaceTop
<1>8. phase' = "constrain" \/ phase' = "done"
  BY <1>1 DEF Moves
<1> QED BY <1>1, <1>3, <1>4, <1>5, <1>7, <1>8 DEF IInv

\* For an opcode that is not about memory, what matters is its relation.
LEMMA MemoryUntouched ==
    ASSUME IInv, NEW ops, Constraining(ops), Op.op \notin {"MemoryInit", "MemoryOp"}, NEW v
    PROVE  /\ Top.mem = MemoryAfter(Op, v, Top.mem)
           /\ MemoryFits(Circuits[Top.c].opcodes, Top.pc + 1, Top.mem)
<1> DEFINE f == Top
           code == Circuits[f.c].opcodes
<1>1. FrameFits(Circuits, f) /\ f.pc \in DOMAIN code /\ Op = code[f.pc] /\ WellFormed(Circuits)
  BY Running_
<1>2. MemoryAfter(Op, v, f.mem) = f.mem
  BY DEF MemoryAfter
<1>3. f.pc \in Nat \ {0}
  BY <1>1 DEF FrameFits, WellFormed, IsCircuit, IsSequence
<1>4. BlocksBefore(code, f.pc + 1) = BlocksBefore(code, f.pc)
  <2>1. MadeBy(code[f.pc]) = {}
    BY <1>1 DEF MadeBy
  <2> DEFINE pc == f.pc
  <2> HIDE DEF code, pc
  <2>2. BlocksBefore(code, pc + 1) = BlocksBefore(code, pc) \cup MadeBy(code[pc])
    BY <1>3, BlocksGrow DEF pc
  <2> QED BY <2>1, <2>2 DEF pc
<1>5. MemoryFits(code, f.pc, f.mem)
  BY <1>1 DEF FrameFits
<1> QED BY <1>2, <1>4, <1>5 DEF MemoryFits

\* What an opcode reads has values.
LEMMA ClaimIsValuation ==
    ASSUME IInv, NEW ops, Constraining(ops), NEW v \in Claims(Op)
    PROVE  IsValuation(v) /\ DOMAIN Top.vals \subseteq DOMAIN v /\ GetWitnesses(Op) \subseteq DOMAIN v
<1>1. IsValuation(Top.vals)
  BY Running_ DEF FrameFits
<1> QED BY <1>1, ReadIsValuation DEF Claims

---------------------------------------------------------------------------
\* The opcodes

\* An equation.
LEMMA AssertZeroKeeps == ASSUME IInv, ConstrainAssertZero PROVE IInv'
<1> DEFINE ops == {"AssertZero"}
<1>0. \A op \in ops : op = "AssertZero"
  OBVIOUS
<1>1. Constraining(ops)
  BY DEF ConstrainAssertZero
<1> HIDE DEF ops
<1>2. PICK v \in Claims(Op) : Check(v, Top.mem, EmitExpression(Op.e, v) = 0)
  BY DEF ConstrainAssertZero
<1>3. Moves(v, Top.mem) /\ accepted' = (EmitExpression(Op.e, v) = 0)
  BY <1>2 DEF Check, Moves
<1>4. Op.op = "AssertZero" /\ IsOpcode(Op)
  <2>1. Op.op \in ops /\ IsOpcode(Op)
    BY <1>1, Running_
  <2> QED BY <1>0, <2>1
<1>5. IsValuation(v) /\ DOMAIN Top.vals \subseteq DOMAIN v /\ CollectWitnesses(Op.e) \subseteq DOMAIN v
  BY <1>1, <1>4, ClaimIsValuation DEF GetWitnesses
<1>6. EmitExpression(Op.e, v) = Value(Op.e, v)
  BY <1>4, <1>5, ExpressionAgrees DEF IsOpcode
<1>7. accepted' \in BOOLEAN /\ (accepted' <=> Holds(Op, v, Top.mem))
  BY <1>3, <1>4, <1>6 DEF Holds
<1>8. Top.mem = MemoryAfter(Op, v, Top.mem) /\ MemoryFits(Circuits[Top.c].opcodes, Top.pc + 1, Top.mem)
  BY <1>1, <1>4, MemoryUntouched
<1> QED BY <1>1, <1>3, <1>5, <1>7, <1>8, MovesKeep

\* A bitwise operation.
LEMMA LogicKeeps == ASSUME IInv, ConstrainLogic PROVE IInv'
<1> DEFINE ops == {"AND", "XOR"}
<1>1. Constraining(ops)
  BY DEF ConstrainLogic
<1>2. PICK v \in Claims(Op) :
         Check(v, Top.mem, WidthMet(Op.ins, Op.bits, v)
                             /\ v[Op.out] = Bits(Op.op, InputValues(Op.ins, v)[1], InputValues(Op.ins, v)[2]))
  BY DEF ConstrainLogic
<1>3. /\ Moves(v, Top.mem)
      /\ accepted' = (WidthMet(Op.ins, Op.bits, v)
                        /\ v[Op.out] = Bits(Op.op, InputValues(Op.ins, v)[1], InputValues(Op.ins, v)[2]))
  BY <1>2 DEF Check, Moves
<1>4. Op.op \in ops /\ IsOpcode(Op) /\ Checked(Circuits, Circuits[Top.c].opcodes, Top.pc)
      /\ Op = Circuits[Top.c].opcodes[Top.pc]
  BY <1>1, Running_
<1>5. IsValuation(v) /\ DOMAIN Top.vals \subseteq DOMAIN v /\ InputWitnesses(Op.ins) \subseteq DOMAIN v
  BY <1>1, <1>4, ClaimIsValuation DEF GetWitnesses
<1>6. WidthMet(Op.ins, Op.bits, v) <=> AllFit(InputValues(Op.ins, v), Op.bits)
  <2>1. IsInputs(Op.ins) /\ Op.bits \in Nat
    BY <1>4 DEF IsOpcode
  <2>2. ConstantsFit(Op.ins, Op.bits)
    BY <1>4 DEF Checked
  <2> QED BY <1>5, <2>1, <2>2, WidthsAgree
<1>7. accepted' \in BOOLEAN /\ (accepted' <=> Holds(Op, v, Top.mem))
  BY <1>3, <1>4, <1>6 DEF Holds
<1>8. Top.mem = MemoryAfter(Op, v, Top.mem) /\ MemoryFits(Circuits[Top.c].opcodes, Top.pc + 1, Top.mem)
  BY <1>1, <1>4, MemoryUntouched
<1> QED BY <1>1, <1>3, <1>5, <1>7, <1>8, MovesKeep

\* A range check.
LEMMA RangeKeeps == ASSUME IInv, ConstrainRange PROVE IInv'
<1> DEFINE ops == {"RANGE"}
<1>0. \A op \in ops : op = "RANGE"
  OBVIOUS
<1>1. Constraining(ops)
  BY DEF ConstrainRange
<1> HIDE DEF ops
<1>2. PICK v \in Claims(Op) : Check(v, Top.mem, WidthMet(Op.ins, Op.bits, v))
  BY DEF ConstrainRange
<1>3. Moves(v, Top.mem) /\ accepted' = WidthMet(Op.ins, Op.bits, v)
  BY <1>2 DEF Check, Moves
<1>4. Op.op = "RANGE" /\ IsOpcode(Op) /\ Checked(Circuits, Circuits[Top.c].opcodes, Top.pc)
      /\ Op = Circuits[Top.c].opcodes[Top.pc]
  <2>1. Op.op \in ops /\ IsOpcode(Op) /\ Checked(Circuits, Circuits[Top.c].opcodes, Top.pc)
        /\ Op = Circuits[Top.c].opcodes[Top.pc]
    BY <1>1, Running_
  <2> QED BY <1>0, <2>1
<1>5. IsValuation(v) /\ DOMAIN Top.vals \subseteq DOMAIN v /\ InputWitnesses(Op.ins) \subseteq DOMAIN v
  BY <1>1, <1>4, ClaimIsValuation DEF GetWitnesses
<1>6. WidthMet(Op.ins, Op.bits, v) <=> AllFit(InputValues(Op.ins, v), Op.bits)
  <2>1. IsInputs(Op.ins) /\ Op.bits \in Nat
    BY <1>4 DEF IsOpcode
  <2>2. ConstantsFit(Op.ins, Op.bits)
    BY <1>4 DEF Checked
  <2> QED BY <1>5, <2>1, <2>2, WidthsAgree
<1>7. accepted' \in BOOLEAN /\ (accepted' <=> Holds(Op, v, Top.mem))
  BY <1>3, <1>4, <1>6 DEF Holds, WidthMet
<1>8. Top.mem = MemoryAfter(Op, v, Top.mem) /\ MemoryFits(Circuits[Top.c].opcodes, Top.pc + 1, Top.mem)
  BY <1>1, <1>4, MemoryUntouched
<1> QED BY <1>1, <1>3, <1>5, <1>7, <1>8, MovesKeep

\* A Brillig call.
LEMMA BrilligCallKeeps == ASSUME IInv, ConstrainBrilligCall PROVE IInv'
<1> DEFINE ops == {"BrilligCall"}
           v == Top.vals
<1>0. \A op \in ops : op = "BrilligCall"
  OBVIOUS
<1>1. Constraining(ops)
  BY DEF ConstrainBrilligCall
<1> HIDE DEF ops
<1>2. Moves(v, Top.mem) /\ accepted' = TRUE
  BY DEF ConstrainBrilligCall, Check, Moves
<1>3. Op.op = "BrilligCall" /\ FrameFits(Circuits, Top)
  <2>1. Op.op \in ops /\ FrameFits(Circuits, Top)
    BY <1>1, Running_
  <2> QED BY <1>0, <2>1
<1>4. IsValuation(v)
  BY <1>3 DEF FrameFits
<1>5. accepted' \in BOOLEAN /\ (accepted' <=> Holds(Op, v, Top.mem))
  BY <1>2, <1>3 DEF Holds
<1>6. Top.mem = MemoryAfter(Op, v, Top.mem) /\ MemoryFits(Circuits[Top.c].opcodes, Top.pc + 1, Top.mem)
  BY <1>1, <1>3, MemoryUntouched
<1> QED BY <1>1, <1>2, <1>4, <1>5, <1>6, MovesKeep

\* A Call that is not made: its predicate is zero, or no bit.
LEMMA SkippedCallKeeps == ASSUME IInv, ConstrainSkippedCall PROVE IInv'
<1> DEFINE ops == {"Call"}
<1>0. \A op \in ops : op = "Call"
  OBVIOUS
<1>1. Constraining(ops)
  BY DEF ConstrainSkippedCall
<1> HIDE DEF ops
<1>2. PICK v \in Claims(Op) : \E xs \in ReturnClaims(Op) :
         /\ EmitExpression(Op.pred, v) # 1
         /\ Check(v, Top.mem, BoolMet(EmitExpression(Op.pred, v))
                                /\ OutputsMet(Op, EmitExpression(Op.pred, v), v, xs))
  BY DEF ConstrainSkippedCall
<1>3. PICK xs \in ReturnClaims(Op) :
         /\ EmitExpression(Op.pred, v) # 1
         /\ Check(v, Top.mem, BoolMet(EmitExpression(Op.pred, v))
                                /\ OutputsMet(Op, EmitExpression(Op.pred, v), v, xs))
  BY <1>2
<1>4. Moves(v, Top.mem) /\ accepted' = (BoolMet(EmitExpression(Op.pred, v))
                                          /\ OutputsMet(Op, EmitExpression(Op.pred, v), v, xs))
  BY <1>3 DEF Check, Moves
<1>5. Op.op = "Call" /\ IsOpcode(Op)
  <2>1. Op.op \in ops /\ IsOpcode(Op)
    BY <1>1, Running_
  <2> QED BY <1>0, <2>1
<1>6. /\ IsValuation(v) /\ DOMAIN Top.vals \subseteq DOMAIN v /\ GetWitnesses(Op) \subseteq DOMAIN v
      /\ CollectWitnesses(Op.pred) \subseteq DOMAIN v
  BY <1>1, <1>5, ClaimIsValuation DEF GetWitnesses
<1> DEFINE p == EmitExpression(Op.pred, v)
<1>7. p = Value(Op.pred, v) /\ p \in F /\ p # 1
  BY <1>3, <1>5, <1>6, ExpressionAgrees DEF IsOpcode
<1>8. BoolMet(p) <=> p \in {0, 1}
  BY <1>7, BitConstraint DEF BoolMet
<1>9. ASSUME p = 0 PROVE OutputsMet(Op, p, v, xs)
  <2>1. Op.outs \in Seq(Nat) /\ ToSet(Op.outs) \subseteq DOMAIN v
    <3>1. Op.ins \in Seq(Nat) /\ Op.outs \in Seq(Nat)
      BY <1>5 DEF IsOpcode
    <3>2. ToSet(Op.ins \o Op.outs) \subseteq DOMAIN v
      BY <1>5, <1>6 DEF GetWitnesses
    <3> QED BY <3>1, <3>2, ConcatHolds
  <2>2. xs \in [DOMAIN Op.outs -> F]
    BY DEF ReturnClaims
  <2>3. ASSUME NEW k \in DOMAIN Op.outs PROVE GatedEq(p, v[Op.outs[k]], xs[k])
    <3>1. v[Op.outs[k]] \in F /\ xs[k] \in F
      BY <1>6, <2>1, <2>2 DEF ToSet, IsValuation
    <3>2. Minus(v[Op.outs[k]], xs[k]) \in F
      BY <3>1, MinusZero
    <3> QED BY <1>7, <1>9, <3>2, TimesZero DEF GatedEq
  <2> QED BY <2>3 DEF OutputsMet
<1>10. accepted' \in BOOLEAN /\ (accepted' <=> Holds(Op, v, Top.mem))
  <2>1. Holds(Op, v, Top.mem) <=> p \in {0, 1}
    BY <1>5, <1>7 DEF Holds
  <2>2. accepted' = (BoolMet(p) /\ OutputsMet(Op, p, v, xs))
    BY <1>4
  <2> HIDE DEF p
  <2> QED BY <1>7, <1>8, <1>9, <2>1, <2>2
<1>11. Top.mem = MemoryAfter(Op, v, Top.mem) /\ MemoryFits(Circuits[Top.c].opcodes, Top.pc + 1, Top.mem)
  BY <1>1, <1>5, MemoryUntouched
<1> QED BY <1>1, <1>4, <1>6, <1>10, <1>11, MovesKeep

\* The initialisation of a block.
LEMMA MemoryInitKeeps == ASSUME IInv, ConstrainMemoryInit PROVE IInv'
<1> DEFINE ops == {"MemoryInit"}
           code == Circuits[Top.c].opcodes
<1>0. \A op \in ops : op = "MemoryInit"
  OBVIOUS
<1>1. Constraining(ops)
  BY DEF ConstrainMemoryInit
<1> HIDE DEF ops
<1>2. PICK v \in Claims(Op) :
         Check(v, With(Top.mem, Op.block, [k \in DOMAIN Op.init |-> v[Op.init[k]]]), TRUE)
  BY DEF ConstrainMemoryInit
<1> DEFINE arr == [k \in DOMAIN Op.init |-> v[Op.init[k]]]
           mem == With(Top.mem, Op.block, arr)
<1>3. Moves(v, mem) /\ accepted' = TRUE
  BY <1>2 DEF Check, Moves
<1>4. Op.op = "MemoryInit" /\ IsOpcode(Op) /\ FrameFits(Circuits, Top) /\ WellFormed(Circuits)
      /\ Top.pc \in DOMAIN code /\ Op = code[Top.pc]
  <2>1. Op.op \in ops /\ IsOpcode(Op) /\ FrameFits(Circuits, Top) /\ WellFormed(Circuits)
        /\ Top.pc \in DOMAIN code /\ Op = code[Top.pc]
    BY <1>1, Running_
  <2> QED BY <1>0, <2>1
<1>5. IsValuation(v) /\ DOMAIN Top.vals \subseteq DOMAIN v /\ ToSet(Op.init) \subseteq DOMAIN v
  BY <1>1, <1>4, ClaimIsValuation DEF GetWitnesses
<1>6. arr \in [1 .. Len(arr) -> F] /\ Len(arr) \in 1 .. P
  <2> DEFINE init == Op.init
             n == Len(init)
  <2>1. init \in Seq(Nat) /\ n \in 1 .. P
    BY <1>4 DEF IsOpcode
  <2>2. DOMAIN init = 1 .. n /\ n \in Nat
    BY <2>1
  <2>3. \A k \in DOMAIN init : v[init[k]] \in F
    BY <1>5 DEF IsValuation, ToSet
  <2> HIDE DEF n
  <2>4. arr \in [1 .. n -> F]
    BY <2>2, <2>3
  <2> HIDE DEF arr, init
  <2> QED BY <2>1, <2>2, <2>4, ByElements
<1>7. mem = MemoryAfter(Op, v, Top.mem)
  BY <1>4 DEF MemoryAfter
<1>8. MemoryFits(code, Top.pc + 1, mem)
  <2>1. MemoryFits(code, Top.pc, Top.mem)
    BY <1>4 DEF FrameFits
  <2>2. Top.pc \in Nat \ {0}
    BY <1>4 DEF FrameFits, WellFormed, IsCircuit, IsSequence
  <2>3. MadeBy(code[Top.pc]) = {Op.block}
    BY <1>4 DEF MadeBy
  <2> DEFINE pc == Top.pc
             old == Top.mem
             block == Op.block
  <2> HIDE DEF code, pc, old, block, arr
  <2>4. BlocksBefore(code, pc + 1) = BlocksBefore(code, pc) \cup {block}
    BY <2>2, <2>3, BlocksGrow DEF pc, block
  <2>5. mem = [b \in {block} \cup DOMAIN old |-> IF b = block THEN arr ELSE old[b]]
    BY DEF With, old, block
  <2> HIDE DEF mem
  <2>6. DOMAIN mem = BlocksBefore(code, pc + 1)
    BY <2>1, <2>4, <2>5 DEF MemoryFits, pc, old
  <2>7. ASSUME NEW b \in DOMAIN mem
        PROVE  mem[b] \in [1 .. Len(mem[b]) -> F] /\ Len(mem[b]) \in 1 .. P
    <3>1. CASE b = block
      <4>1. mem[b] = arr
        BY <2>5, <3>1
      <4> QED BY <1>6, <4>1
    <3>2. CASE b # block
      <4>1. mem[b] = old[b] /\ b \in DOMAIN old
        BY <2>5, <3>2
      <4> QED BY <2>1, <4>1 DEF MemoryFits, old
    <3> QED BY <3>1, <3>2
  <2> QED BY <2>6, <2>7 DEF MemoryFits, pc
<1>9. accepted' \in BOOLEAN /\ (accepted' <=> Holds(Op, v, Top.mem))
  BY <1>3, <1>4 DEF Holds
<1> HIDE DEF mem
<1> QED BY <1>1, <1>3, <1>5, <1>7, <1>8, <1>9, MovesKeep

\* An expression that is a witness has the value of the witness.
LEMMA WitnessValue ==
    ASSUME NEW v, IsValuation(v), NEW w \in DOMAIN v, NEW e,
           e = [mul |-> <<>>, lin |-> <<<<1, w>>>>, qc |-> 0], IsExpression(e),
           CollectWitnesses(e) \subseteq DOMAIN v
    PROVE  Value(e, v) = v[w] /\ e.lin[1][2] = w
<1> DEFINE xs == TermValues(<<>>, v)
           ys == TermValues(<<<<1, w>>>>, v)
<1>1. v[w] \in F /\ 0 \in F
  BY SmallFelts DEF IsValuation
<1>2. Sum(xs) = 0
  <2>1. xs \in [1 .. 0 -> F] /\ \A k \in 1 .. 0 : xs[k] = 0
    BY DEF TermValues
  <2> HIDE DEF xs
  <2> QED BY <2>1, SumOfZeros
<1>3. Sum(ys) = v[w]
  <2>1. TermValue(<<1, w>>, v) = v[w]
    BY <1>1, TimesOne DEF TermValue
  <2>2. ys \in [1 .. 1 -> F] /\ ys[1] = v[w]
    <3>1. DOMAIN <<<<1, w>>>> = 1 .. 1 /\ <<<<1, w>>>>[1] = <<1, w>>
      OBVIOUS
    <3> QED BY <1>1, <2>1, <3>1 DEF TermValues
  <2> HIDE DEF ys
  <2>3. 1 \in 1 .. 1 /\ \A k \in 1 .. 1 : k # 1 => ys[k] = 0
    OBVIOUS
  <2>4. Sum(ys) = ys[1]
    BY <2>2, <2>3, SumOfOne
  <2> QED BY <2>2, <2>4
<1>4. EmitExpression(e, v) = Plus(Sum(xs), Plus(Sum(ys), 0))
  BY DEF EmitExpression
<1>5. Plus(0, Plus(v[w], 0)) = v[w]
  BY <1>1, PlusZero
<1>6. EmitExpression(e, v) = Value(e, v)
  BY ExpressionAgrees
<1> QED BY <1>2, <1>3, <1>4, <1>5, <1>6

\* A memory access: its block is there, with between one and P cells, and its expressions
\* have the values the code computes.
LEMMA AccessFacts ==
    ASSUME IInv, Constraining({"MemoryOp"}), NEW v \in Claims(Op)
    PROVE  LET arr == Top.mem[Op.block]
               i == EmitExpression(Op.index, v)
           IN  /\ Op.op = "MemoryOp" /\ IsOpcode(Op)
               /\ IsValuation(v) /\ DOMAIN Top.vals \subseteq DOMAIN v
               /\ Op.block \in DOMAIN Top.mem
               /\ Len(arr) \in 1 .. P /\ arr \in [1 .. Len(arr) -> F]
               /\ i = Value(Op.index, v) /\ i \in F
               /\ i + 1 \in DOMAIN arr <=> i < Len(arr)
               /\ EmitExpression(Op.value, v) = Value(Op.value, v) /\ Value(Op.value, v) \in F
               /\ Op.operation.qc = 0 => Value(Op.value, v) = v[Op.value.lin[1][2]]
               /\ MemoryFits(Circuits[Top.c].opcodes, Top.pc + 1, Top.mem)
<1> DEFINE ops == {"MemoryOp"}
           code == Circuits[Top.c].opcodes
           block == Op.block
           arr == Top.mem[block]
           i == EmitExpression(Op.index, v)
<1>0. \A op \in ops : op = "MemoryOp"
  OBVIOUS
<1>1. Constraining(ops)
  OBVIOUS
<1> HIDE DEF ops
<1>2. Op.op = "MemoryOp" /\ IsOpcode(Op) /\ FrameFits(Circuits, Top) /\ WellFormed(Circuits)
      /\ Top.pc \in DOMAIN code /\ Op = code[Top.pc] /\ Checked(Circuits, code, Top.pc)
  <2>1. Op.op \in ops /\ IsOpcode(Op) /\ FrameFits(Circuits, Top) /\ WellFormed(Circuits)
        /\ Top.pc \in DOMAIN code /\ Op = code[Top.pc] /\ Checked(Circuits, code, Top.pc)
    BY <1>1, Running_
  <2> QED BY <1>0, <2>1
<1>3. /\ IsValuation(v) /\ DOMAIN Top.vals \subseteq DOMAIN v
      /\ CollectWitnesses(Op.index) \subseteq DOMAIN v /\ CollectWitnesses(Op.value) \subseteq DOMAIN v
  <2>1. IsValuation(v) /\ DOMAIN Top.vals \subseteq DOMAIN v /\ GetWitnesses(Op) \subseteq DOMAIN v
    BY <1>1, ClaimIsValuation
  <2>2. GetWitnesses(Op) = CollectWitnesses(Op.index) \cup CollectWitnesses(Op.value)
    BY <1>2 DEF GetWitnesses
  <2> QED BY <2>1, <2>2
<1>4. IsExpression(Op.index) /\ IsExpression(Op.value)
  BY <1>2 DEF IsOpcode
<1>5. i = Value(Op.index, v) /\ i \in F
      /\ EmitExpression(Op.value, v) = Value(Op.value, v) /\ Value(Op.value, v) \in F
  BY <1>3, <1>4, ExpressionAgrees
<1>6. MemoryFits(code, Top.pc, Top.mem)
  BY <1>2 DEF FrameFits
<1>7. block \in DOMAIN Top.mem
  <2>1. PICK j \in 1 .. Top.pc - 1 : code[j].op = "MemoryInit" /\ code[j].block = block
    BY <1>2 DEF Checked
  <2>2. block \in BlocksBefore(code, Top.pc)
    BY <2>1 DEF BlocksBefore
  <2> QED BY <1>6, <2>2 DEF MemoryFits
<1>8. Len(arr) \in 1 .. P /\ arr \in [1 .. Len(arr) -> F]
  BY <1>6, <1>7 DEF MemoryFits
<1>9. i + 1 \in DOMAIN arr <=> i < Len(arr)
  <2> DEFINE n == Len(arr)
  <2>1. DOMAIN arr = 1 .. n /\ n \in 1 .. P
    BY <1>8
  <2>2. i \in Nat
    BY <1>5, FeltIsResidue DEF F
  <2>3. P \in Nat
    BY PrimeAssumption
  <2> HIDE DEF n, i, arr
  <2>4. i + 1 \in 1 .. n <=> i < n
    BY <2>1, <2>2, <2>3
  <2> QED BY <2>1, <2>4 DEF n
<1>10. ASSUME Op.operation.qc = 0 PROVE Value(Op.value, v) = v[Op.value.lin[1][2]]
  <2>1. PICK w \in CollectWitnesses(Op.value) :
           Op.value = [mul |-> <<>>, lin |-> <<<<1, w>>>>, qc |-> 0]
    BY <1>2, <1>10 DEF Checked
  <2>2. w \in DOMAIN v
    BY <1>3
  <2> DEFINE e == Op.value
  <2>3. /\ e = [mul |-> <<>>, lin |-> <<<<1, w>>>>, qc |-> 0] /\ IsExpression(e)
        /\ CollectWitnesses(e) \subseteq DOMAIN v
    BY <1>3, <1>4, <2>1
  <2> HIDE DEF e
  <2>4. Value(e, v) = v[w] /\ e.lin[1][2] = w
    BY <1>3, <2>2, <2>3, WitnessValue
  <2> QED BY <2>4 DEF e
<1>11. MemoryFits(code, Top.pc + 1, Top.mem)
  <2>1. Top.pc \in Nat \ {0}
    BY <1>2 DEF FrameFits, WellFormed, IsCircuit, IsSequence
  <2>2. MadeBy(code[Top.pc]) = {}
    BY <1>2 DEF MadeBy
  <2> DEFINE pc == Top.pc
  <2> HIDE DEF code, pc
  <2>3. BlocksBefore(code, pc + 1) = BlocksBefore(code, pc) \cup MadeBy(code[pc])
    BY <2>1, BlocksGrow DEF pc
  <2> QED BY <1>6, <2>2, <2>3 DEF MemoryFits, pc
<1> QED BY <1>2, <1>3, <1>5, <1>7, <1>8, <1>9, <1>10, <1>11

\* A read from memory.
LEMMA MemoryReadKeeps == ASSUME IInv, ConstrainMemoryRead PROVE IInv'
<1> DEFINE ops == {"MemoryOp"}
           arr == Top.mem[Op.block]
           len == Len(arr)
<1>1. Constraining(ops) /\ Op.operation.qc = 0
  BY DEF ConstrainMemoryRead
<1>2. PICK v \in Claims(Op) :
         \/ SelectorsFor(Op, v) = {} /\ Check(v, Top.mem, FALSE)
         \/ \E s \in SelectorsFor(Op, v) :
               Check(v, Top.mem, v[Op.value.lin[1][2]] = SelectRead(s, arr))
  BY DEF ConstrainMemoryRead
<1> DEFINE i == EmitExpression(Op.index, v)
           x == v[Op.value.lin[1][2]]
<1>3. /\ Op.op = "MemoryOp" /\ IsOpcode(Op) /\ IsValuation(v) /\ DOMAIN Top.vals \subseteq DOMAIN v
      /\ len \in 1 .. P /\ arr \in [1 .. len -> F]
      /\ i = Value(Op.index, v) /\ i \in F /\ (i + 1 \in DOMAIN arr <=> i < len)
      /\ Value(Op.value, v) = x
      /\ MemoryFits(Circuits[Top.c].opcodes, Top.pc + 1, Top.mem)
  BY <1>1, AccessFacts
<1>4. SelectorsFor(Op, v) = IF i < len THEN {ComputedSelectors(i, len)} ELSE {}
  <2>1. SelectorsFor(Op, v) = PinnedSelectors(i, len)
    BY DEF SelectorsFor
  <2> HIDE DEF i, len
  <2> QED BY <1>3, <2>1, SelectorsPinned
<1>5. i < len => SelectRead(ComputedSelectors(i, len), arr) = arr[i + 1]
  <2>1. len \in Nat
    BY <1>3
  <2> HIDE DEF i, len, arr
  <2> QED BY <1>3, <2>1, SelectReads
<1>6. Holds(Op, v, Top.mem) <=> (i < len /\ x = arr[i + 1])
  <2>1. Holds(Op, v, Top.mem) <=>
           /\ Value(Op.index, v) + 1 \in DOMAIN Top.mem[Op.block]
           /\ Op.operation.qc = 0 => Value(Op.value, v) = Top.mem[Op.block][Value(Op.index, v) + 1]
    BY <1>3 DEF Holds
  <2> QED BY <1>1, <1>3, <2>1
<1>7. Moves(v, Top.mem) /\ accepted' \in BOOLEAN /\ (accepted' <=> i < len /\ x = arr[i + 1])
  <2>1. CASE SelectorsFor(Op, v) = {} /\ Check(v, Top.mem, FALSE)
    <3>1. ~(i < len)
      BY <1>4, <2>1
    <3>2. Moves(v, Top.mem) /\ accepted' = FALSE
      BY <2>1 DEF Check, Moves
    <3> QED BY <3>1, <3>2
  <2>2. CASE \E s \in SelectorsFor(Op, v) : Check(v, Top.mem, x = SelectRead(s, arr))
    <3>1. PICK s \in SelectorsFor(Op, v) : Check(v, Top.mem, x = SelectRead(s, arr))
      BY <2>2
    <3>2. i < len /\ s = ComputedSelectors(i, len)
      BY <1>4
    <3>3. Moves(v, Top.mem) /\ accepted' = (x = SelectRead(s, arr))
      BY <3>1 DEF Check, Moves
    <3> HIDE DEF x, arr, i, len
    <3> QED BY <1>5, <3>2, <3>3
  <2> QED BY <1>2, <2>1, <2>2
<1>8. Top.mem = MemoryAfter(Op, v, Top.mem)
  BY <1>1, <1>3 DEF MemoryAfter
<1>9. accepted' <=> Holds(Op, v, Top.mem)
  BY <1>6, <1>7
<1> HIDE DEF ops
<1> QED BY <1>1, <1>3, <1>7, <1>8, <1>9, MovesKeep

\* A write to memory.
LEMMA MemoryWriteKeeps == ASSUME IInv, ConstrainMemoryWrite PROVE IInv'
<1> DEFINE ops == {"MemoryOp"}
           block == Op.block
           arr == Top.mem[block]
           len == Len(arr)
<1>1. Constraining(ops) /\ Op.operation.qc = 1
  BY DEF ConstrainMemoryWrite
<1>2. PICK v \in Claims(Op) :
         \/ SelectorsFor(Op, v) = {} /\ Check(v, Top.mem, FALSE)
         \/ \E s \in SelectorsFor(Op, v) :
               Check(v, [Top.mem EXCEPT ![Op.block] =
                            SelectWrite(s, Top.mem[Op.block], EmitExpression(Op.value, v))], TRUE)
  BY DEF ConstrainMemoryWrite
<1> DEFINE i == EmitExpression(Op.index, v)
           x == EmitExpression(Op.value, v)
           new == [arr EXCEPT ![i + 1] = x]
           mem == [Top.mem EXCEPT ![block] = new]
<1>3. /\ Op.op = "MemoryOp" /\ IsOpcode(Op) /\ IsValuation(v) /\ DOMAIN Top.vals \subseteq DOMAIN v
      /\ block \in DOMAIN Top.mem /\ len \in 1 .. P /\ arr \in [1 .. len -> F]
      /\ i = Value(Op.index, v) /\ i \in F /\ (i + 1 \in DOMAIN arr <=> i < len)
      /\ x = Value(Op.value, v) /\ x \in F
      /\ MemoryFits(Circuits[Top.c].opcodes, Top.pc + 1, Top.mem)
  BY <1>1, AccessFacts
<1>4. SelectorsFor(Op, v) = IF i < len THEN {ComputedSelectors(i, len)} ELSE {}
  <2>1. SelectorsFor(Op, v) = PinnedSelectors(i, len)
    BY DEF SelectorsFor
  <2> HIDE DEF i, len
  <2> QED BY <1>3, <2>1, SelectorsPinned
<1>5. i < len => SelectWrite(ComputedSelectors(i, len), arr, x) = new /\ new \in [1 .. len -> F]
  <2>1. len \in Nat
    BY <1>3
  <2>2. SUFFICES ASSUME i < len
                 PROVE  SelectWrite(ComputedSelectors(i, len), arr, x) = new /\ new \in [1 .. len -> F]
    OBVIOUS
  <2> HIDE DEF i, len, arr, x
  <2>3. i \in F /\ arr \in [1 .. len -> F] /\ x \in F /\ i < len
    BY <1>3, <2>2
  <2> QED BY ONLY <2>1, <2>3, SelectWrites DEF new
<1>6. Holds(Op, v, Top.mem) <=> i < len
  <2>1. Holds(Op, v, Top.mem) <=>
           /\ Value(Op.index, v) + 1 \in DOMAIN Top.mem[Op.block]
           /\ Op.operation.qc = 0 => Value(Op.value, v) = Top.mem[Op.block][Value(Op.index, v) + 1]
    BY <1>3 DEF Holds
  <2> QED BY <1>1, <1>3, <2>1
<1>7. CASE SelectorsFor(Op, v) = {} /\ Check(v, Top.mem, FALSE)
  <2>1. ~(i < len)
    BY <1>4, <1>7
  <2>2. Moves(v, Top.mem) /\ accepted' = FALSE
    BY <1>7 DEF Check, Moves
  <2>3. accepted' \in BOOLEAN /\ (accepted' <=> Holds(Op, v, Top.mem)) /\ ~accepted'
    BY <1>6, <2>1, <2>2
  <2> HIDE DEF ops
  <2> QED BY <1>1, <1>3, <2>2, <2>3, MovesKeep
<1>8. CASE \E s \in SelectorsFor(Op, v) :
              Check(v, [Top.mem EXCEPT ![Op.block] =
                           SelectWrite(s, Top.mem[Op.block], EmitExpression(Op.value, v))], TRUE)
  <2>1. PICK s \in SelectorsFor(Op, v) :
           Check(v, [Top.mem EXCEPT ![Op.block] =
                        SelectWrite(s, Top.mem[Op.block], EmitExpression(Op.value, v))], TRUE)
    BY <1>8
  <2>2. i < len /\ s = ComputedSelectors(i, len)
    BY <1>4
  <2>3. SelectWrite(s, Top.mem[Op.block], EmitExpression(Op.value, v)) = new
    <3>1. SelectWrite(s, arr, x) = new
      BY <1>5, <2>2
    <3> QED BY <3>1
  <2>4. Check(v, mem, TRUE)
    BY <2>1, <2>3
  <2>5. Moves(v, mem) /\ accepted' = TRUE
    BY <2>4 DEF Check, Moves
  <2>6. mem = MemoryAfter(Op, v, Top.mem)
    <3>1. MemoryAfter(Op, v, Top.mem)
             = [Top.mem EXCEPT ![Op.block][Value(Op.index, v) + 1] = Value(Op.value, v)]
      BY <1>1, <1>3, <2>2 DEF MemoryAfter
    <3>2. [Top.mem EXCEPT ![Op.block][Value(Op.index, v) + 1] = Value(Op.value, v)]
             = [Top.mem EXCEPT ![Op.block] =
                   [Top.mem[Op.block] EXCEPT ![Value(Op.index, v) + 1] = Value(Op.value, v)]]
      OBVIOUS
    <3> QED BY <1>3, <3>1, <3>2
  <2>7. MemoryFits(Circuits[Top.c].opcodes, Top.pc + 1, mem)
    <3> DEFINE old == Top.mem
               code == Circuits[Top.c].opcodes
               pc == Top.pc + 1
    <3>1. new \in [1 .. len -> F] /\ Len(new) = len
      <4>1. new \in [1 .. len -> F] /\ len \in Nat
        BY <1>3, <1>5, <2>2
      <4> HIDE DEF new, len
      <4> QED BY <4>1, ByElements
    <3>2. mem = [b \in DOMAIN old |-> IF b = block THEN new ELSE old[b]]
      BY <1>3
    <3> HIDE DEF old, code, pc, mem, new, len, block
    <3>3. MemoryFits(code, pc, old) /\ len \in 1 .. P
      BY <1>3 DEF code, pc, old
    <3>4. ASSUME NEW b \in DOMAIN mem
          PROVE  mem[b] \in [1 .. Len(mem[b]) -> F] /\ Len(mem[b]) \in 1 .. P
      <4>1. CASE b = block
        <5>1. mem[b] = new
          BY <3>2, <4>1
        <5> QED BY <3>1, <3>3, <5>1
      <4>2. CASE b # block
        <5>1. mem[b] = old[b] /\ b \in DOMAIN old
          BY <3>2, <4>2
        <5> QED BY <3>3, <5>1 DEF MemoryFits
      <4> QED BY <4>1, <4>2
    <3> QED BY <3>2, <3>3, <3>4 DEF MemoryFits, code, pc
  <2>8. accepted' \in BOOLEAN /\ (accepted' <=> Holds(Op, v, Top.mem))
    BY <1>6, <2>2, <2>5
  <2> HIDE DEF ops, mem
  <2> QED BY <1>1, <1>3, <2>5, <2>6, <2>7, <2>8, MovesKeep
<1> QED BY <1>2, <1>7, <1>8

\* A black box.
LEMMA BlackBoxKeeps == ASSUME IInv, ConstrainBlackBox PROVE IInv'
<1> DEFINE ops == {"BlackBox"}
<1>0. \A op \in ops : op = "BlackBox"
  OBVIOUS
<1>1. Constraining(ops)
  BY DEF ConstrainBlackBox
<1> HIDE DEF ops
<1>2. PICK v \in Claims(Op) :
         Check(v, Top.mem, /\ WidthMet(Op.ins, InputBits(Op.fn), v)
                           /\ \A x \in ToSet(InputValues(Op.pred, v)) : BoolMet(x)
                           /\ [k \in DOMAIN Op.outs |-> v[Op.outs[k]]] = CallHelper(Op, v))
  BY DEF ConstrainBlackBox
<1>3. /\ Moves(v, Top.mem)
      /\ accepted' = (/\ WidthMet(Op.ins, InputBits(Op.fn), v)
                      /\ \A x \in ToSet(InputValues(Op.pred, v)) : BoolMet(x)
                      /\ [k \in DOMAIN Op.outs |-> v[Op.outs[k]]] = CallHelper(Op, v))
  BY <1>2 DEF Check, Moves
<1>4. Op.op = "BlackBox" /\ IsOpcode(Op) /\ Checked(Circuits, Circuits[Top.c].opcodes, Top.pc)
      /\ Op = Circuits[Top.c].opcodes[Top.pc]
  <2>1. Op.op \in ops /\ IsOpcode(Op) /\ Checked(Circuits, Circuits[Top.c].opcodes, Top.pc)
        /\ Op = Circuits[Top.c].opcodes[Top.pc]
    BY <1>1, Running_
  <2> QED BY <1>0, <2>1
<1>5. IsInputs(Op.ins) /\ IsInputs(Op.pred)
  BY <1>4 DEF IsOpcode
<1>6. /\ IsValuation(v) /\ DOMAIN Top.vals \subseteq DOMAIN v
      /\ InputWitnesses(Op.ins) \subseteq DOMAIN v /\ InputWitnesses(Op.pred) \subseteq DOMAIN v
  <2>1. IsValuation(v) /\ DOMAIN Top.vals \subseteq DOMAIN v /\ GetWitnesses(Op) \subseteq DOMAIN v
    BY <1>1, ClaimIsValuation
  <2>2. InputWitnesses(Op.ins \o Op.pred) \subseteq DOMAIN v
    BY <1>4, <2>1 DEF GetWitnesses
  <2> QED BY <1>5, <2>1, <2>2, InputsOfBoth
<1>7. WidthMet(Op.ins, InputBits(Op.fn), v) <=> AllFit(InputValues(Op.ins, v), InputBits(Op.fn))
  <2>1. InputBits(Op.fn) \in Nat
    BY <1>4, WidthsAreNumbers DEF IsOpcode
  <2>2. ConstantsFit(Op.ins, InputBits(Op.fn))
    BY <1>4 DEF Checked
  <2> QED BY <1>5, <1>6, <2>1, <2>2, WidthsAgree
<1>8. (\A x \in ToSet(InputValues(Op.pred, v)) : BoolMet(x)) <=> AllFit(InputValues(Op.pred, v), 1)
  <2> DEFINE xs == InputValues(Op.pred, v)
             n == Len(Op.pred)
  <2>1. xs \in [1 .. n -> F]
    BY <1>5, <1>6, InputsAreFelts
  <2> HIDE DEF xs, n
  <2>2. ASSUME NEW x \in F PROVE BoolMet(x) <=> Fits(x, 1)
    BY BitConstraint, BitFits DEF BoolMet
  <2>3. ToSet(xs) = {xs[k] : k \in DOMAIN xs} /\ \A k \in DOMAIN xs : xs[k] \in F
    BY <2>1 DEF ToSet
  <2> QED BY <2>2, <2>3 DEF AllFit, xs
<1>9. CallHelper(Op, v) = BlackBox(Op.fn, InputValues(Op.ins \o Op.pred, v), Len(Op.outs))
  BY <1>4, <1>6, HelperGetsInputs DEF CallHelper
<1>10. accepted' \in BOOLEAN /\ (accepted' <=> Holds(Op, v, Top.mem))
  <2>1. Holds(Op, v, Top.mem) <=>
           /\ AllFit(InputValues(Op.ins, v), InputBits(Op.fn))
           /\ AllFit(InputValues(Op.pred, v), 1)
           /\ [k \in DOMAIN Op.outs |-> v[Op.outs[k]]]
                = BlackBox(Op.fn, InputValues(Op.ins \o Op.pred, v), Len(Op.outs))
    BY <1>4 DEF Holds
  <2> QED BY <1>3, <1>7, <1>8, <1>9, <2>1
<1>11. Top.mem = MemoryAfter(Op, v, Top.mem) /\ MemoryFits(Circuits[Top.c].opcodes, Top.pc + 1, Top.mem)
  BY <1>1, <1>4, MemoryUntouched
<1> QED BY <1>1, <1>3, <1>6, <1>10, <1>11, MovesKeep

---------------------------------------------------------------------------
\* Calls

\* A Call that is made: the caller waits, and the callee's frame begins.
LEMMA CallKeeps == ASSUME IInv, ConstrainCall PROVE IInv'
<1> DEFINE ops == {"Call"}
           f == Top
           code == Circuits[f.c].opcodes
<1>0. \A op \in ops : op = "Call"
  OBVIOUS
<1>1. Constraining(ops)
  BY DEF ConstrainCall
<1> HIDE DEF ops
<1>2. PICK v \in Claims(Op) :
         /\ EmitExpression(Op.pred, v) = 1
         /\ stack' = Append([stack EXCEPT ![Len(stack)].vals = v],
                            Frame(Op.id, [k \in DOMAIN Op.ins |-> v[Op.ins[k]]],
                                  Subcircuit(Top), Solver(<<>>)))
  BY DEF ConstrainCall
<1> DEFINE args == [k \in DOMAIN Op.ins |-> v[Op.ins[k]]]
           callee == Frame(Op.id, args, Subcircuit(Top), Solver(<<>>))
           caller == [f EXCEPT !.vals = v]
           mid == [stack EXCEPT ![Len(stack)] = caller]
<1>3. /\ prog' = prog /\ inputs' = inputs /\ phase' = phase
      /\ accepted' = accepted /\ holds' = holds
  BY DEF ConstrainCall
<1>4. Op.op = "Call" /\ IsOpcode(Op) /\ FrameFits(Circuits, f) /\ WellFormed(Circuits)
      /\ StackFits(Circuits, stack) /\ f.pc \in DOMAIN code /\ Op = code[f.pc]
      /\ Checked(Circuits, code, f.pc)
  <2>1. Op.op \in ops /\ IsOpcode(Op) /\ FrameFits(Circuits, f) /\ WellFormed(Circuits)
        /\ StackFits(Circuits, stack) /\ f.pc \in DOMAIN code /\ Op = code[f.pc]
        /\ Checked(Circuits, code, f.pc)
    BY <1>1, Running_
  <2> QED BY <1>0, <2>1
<1>5. IsValuation(v) /\ DOMAIN f.vals \subseteq DOMAIN v /\ GetWitnesses(Op) \subseteq DOMAIN v
  BY <1>1, ClaimIsValuation
<1>6. /\ Op.id \in DOMAIN Circuits /\ Len(Op.ins) = Cardinality(Params(Circuits[Op.id]))
      /\ Op.ins \in Seq(Nat) /\ Op.outs \in Seq(Nat)
  BY <1>4 DEF Checked, IsOpcode
<1>7. args \in [1 .. Cardinality(Params(Circuits[Op.id])) -> F]
  <2>1. ToSet(Op.ins \o Op.outs) \subseteq DOMAIN v
    BY <1>4, <1>5 DEF GetWitnesses
  <2>2. ToSet(Op.ins) \subseteq DOMAIN v
    BY <1>6, <2>1, ConcatHolds
  <2>3. \A k \in DOMAIN Op.ins : v[Op.ins[k]] \in F
    BY <1>5, <2>2 DEF ToSet, IsValuation
  <2>4. DOMAIN Op.ins = 1 .. Cardinality(Params(Circuits[Op.id]))
    BY <1>6
  <2> QED BY <2>3, <2>4
<1>8. FrameFits(Circuits, callee)
  <2> HIDE DEF args
  <2> QED BY <1>4, <1>6, <1>7, FrameBegins
<1>9. callee.c = Op.id
  BY DEF Frame
<1>10. caller = [c |-> f.c, pc |-> f.pc, vals |-> v, self |-> f.self, mem |-> f.mem, ref |-> f.ref]
  <2> DEFINE c == f.c
             pc == f.pc
             vals == f.vals
             self == f.self
             mem == f.mem
             ref == f.ref
  <2>1. f = [c |-> c, pc |-> pc, vals |-> vals, self |-> self, mem |-> mem, ref |-> ref]
    BY <1>4, FrameRecord
  <2> HIDE DEF c, pc, vals, self, mem, ref, f
  <2>2. caller = [c |-> c, pc |-> pc, vals |-> v, self |-> self, mem |-> mem, ref |-> ref]
    BY <2>1
  <2> QED BY <2>2 DEF c, pc, vals, self, mem, ref
<1>11. FrameFits(Circuits, caller)
  <2>1. f.ref = [st |-> f.ref.st, sol |-> f.ref.sol, mem |-> f.mem]
    BY <1>4, FrameRecord
  <2> HIDE DEF f, caller
  <2>2. caller.c = f.c /\ caller.pc = f.pc /\ caller.vals = v /\ caller.self = f.self
        /\ caller.mem = f.mem /\ caller.ref = f.ref
    BY <1>10
  <2>3. Params(Circuits[f.c]) \subseteq DOMAIN v
    BY <1>4, <1>5 DEF FrameFits
  <2>4. /\ f.c \in DOMAIN Circuits /\ f.pc \in 1 .. Len(Circuits[f.c].opcodes) + 1
        /\ MemoryFits(Circuits[f.c].opcodes, f.pc, f.mem)
    BY <1>4 DEF FrameFits
  <2>5. caller = [c |-> caller.c, pc |-> caller.pc, vals |-> caller.vals, self |-> caller.self,
                  mem |-> caller.mem,
                  ref |-> [st |-> caller.ref.st, sol |-> caller.ref.sol, mem |-> caller.mem]]
    BY <1>10, <2>1, <2>2
  <2> QED BY <1>5, <2>2, <2>3, <2>4, <2>5 DEF FrameFits
<1>12. caller.c = f.c /\ caller.pc = f.pc /\ caller.vals = v
  <2> HIDE DEF caller, f
  <2> QED BY <1>10
<1>13. StackFits(Circuits, mid)
  <2>1. caller.c = stack[Len(stack)].c
    BY <1>12 DEF Top
  <2> HIDE DEF caller
  <2> QED BY <1>4, <1>11, <2>1, ReplaceTop
<1>14. mid[Len(mid)] = caller
  <2> DEFINE n == Len(stack)
  <2>1. stack \in Seq(ToSet(stack)) /\ n \in Nat /\ n > 0 /\ DOMAIN stack = 1 .. n
    BY <1>4 DEF StackFits
  <2>2. mid \in Seq(ToSet(mid)) /\ DOMAIN mid = 1 .. n
    BY <1>13, <2>1 DEF StackFits
  <2> HIDE DEF n, caller
  <2>3. mid[n] = caller
    BY <2>1 DEF n
  <2> HIDE DEF mid
  <2>4. Len(mid) = n
    BY <2>1, <2>2
  <2> QED BY <2>3, <2>4
<1>15. Waits(Circuits, mid[Len(mid)], callee)
  <2> HIDE DEF caller, callee, f, mid
  <2> QED BY <1>2, <1>4, <1>5, <1>9, <1>12, <1>14 DEF Waits, code
<1>16. StackFits(Circuits, stack')
  <2>1. stack' = Append(mid, callee)
    BY <1>2 DEF Top
  <2> HIDE DEF mid, callee
  <2> QED BY <1>8, <1>13, <1>15, <2>1, AddFrame
<1>17. Circuits' = Circuits
  BY <1>3 DEF Circuits
<1> QED BY <1>3, <1>16, <1>17 DEF IInv, AcceptsExactlySolutions

\* The return of a callee: its results are compared, and the caller goes on.
LEMMA ReturnKeeps == ASSUME IInv, ConstrainReturn PROVE IInv'
<1> DEFINE n == Len(stack)
           f == Caller
           code == Circuits[f.c].opcodes
           op == code[f.pc]
           v == f.vals
           next == [f EXCEPT !.pc = f.pc + 1]
<1>1. /\ phase = "constrain" /\ accepted = TRUE /\ n > 1
      /\ prog' = prog /\ inputs' = inputs /\ phase' = IF accepted' THEN phase ELSE "done"
      /\ stack' = Append(SubSeq(stack, 1, Len(stack) - 2), next)
  BY DEF ConstrainReturn, Running, IInv
<1>2. op = Code(Caller)[Caller.pc]
  BY DEF Code
<1> DEFINE Met(o, w) ==
             \E callee \in Read(ToSet(Returns(o))) :
                LET ys == [k \in DOMAIN o.outs |-> callee[Returns(o)[k]]]
                IN  /\ accepted' = OutputsMet(o, EmitExpression(o.pred, w), w, ys)
                    /\ holds' = (holds /\ \A k \in DOMAIN o.outs : w[o.outs[k]] = ys[k])
<1>2a. Met(op, v)
  <2>1. Met(Code(Caller)[Caller.pc], Caller.vals)
    BY Zenon DEF ConstrainReturn
  <2> HIDE DEF Met
  <2> QED BY <1>2, <2>1
<1>3. PICK callee \in Read(ToSet(Returns(op))) :
         LET ys == [k \in DOMAIN op.outs |-> callee[Returns(op)[k]]]
         IN  /\ accepted' = OutputsMet(op, EmitExpression(op.pred, v), v, ys)
             /\ holds' = (holds /\ \A k \in DOMAIN op.outs : v[op.outs[k]] = ys[k])
  BY Zenon, <1>2a
<1> DEFINE xs == [k \in DOMAIN op.outs |-> callee[Returns(op)[k]]]
<1>4. StackFits(Circuits, stack) /\ WellFormed(Circuits) /\ holds = TRUE
  BY <1>1 DEF IInv, AcceptsExactlySolutions
<1>5. stack \in Seq(ToSet(stack)) /\ n \in Nat /\ n - 1 \in 1 .. n - 1 /\ n - 1 \in 1 .. n /\ n \in 1 .. n
  <2>1. stack \in Seq(ToSet(stack)) /\ n \in Nat
    BY <1>4 DEF StackFits
  <2> HIDE DEF n
  <2> QED BY <1>1, <2>1
<1>6. FrameFits(Circuits, f) /\ FrameFits(Circuits, Top) /\ Waits(Circuits, f, Top)
  <2>1. FrameFits(Circuits, stack[n - 1]) /\ FrameFits(Circuits, stack[n])
    BY <1>4, <1>5 DEF StackFits
  <2>2. Waits(Circuits, stack[n - 1], stack[(n - 1) + 1])
    BY <1>4, <1>5 DEF StackFits
  <2>3. (n - 1) + 1 = n
    BY <1>5
  <2> QED BY <2>1, <2>2, <2>3 DEF Caller, Top
<1>7. /\ f.pc \in DOMAIN code /\ op.op = "Call" /\ Top.c = op.id
      /\ GetWitnesses(op) \subseteq DOMAIN v /\ EmitExpression(op.pred, v) = 1
  BY <1>6 DEF Waits
<1>8. f.c \in DOMAIN Circuits /\ IsValuation(v) /\ f.pc \in 1 .. Len(code) + 1
      /\ Params(Circuits[f.c]) \subseteq DOMAIN v /\ MemoryFits(code, f.pc, f.mem)
  BY <1>6 DEF FrameFits
<1>9. IsOpcode(op) /\ Checked(Circuits, code, f.pc) /\ IsSequence(code)
  BY <1>4, <1>7, <1>8 DEF WellFormed, IsCircuit
<1>10. /\ op.ins \in Seq(Nat) /\ op.outs \in Seq(Nat) /\ op.id \in DOMAIN Circuits
       /\ Len(Circuits[op.id].returns) = Len(op.outs)
  BY <1>7, <1>9 DEF IsOpcode, Checked
<1>11. Circuits[op.id].returns \in Seq(Nat)
  BY <1>4, <1>10 DEF WellFormed, IsCircuit
<1>12. ASSUME NEW k \in DOMAIN op.outs
       PROVE  v[op.outs[k]] \in F /\ xs[k] \in F
  <2>1. IsValuation(callee) /\ ToSet(Returns(op)) \subseteq DOMAIN callee
    <3>1. IsValuation(Top.vals)
      BY <1>6 DEF FrameFits
    <3> HIDE DEF op
    <3> QED BY <3>1, ReadIsValuation
  <2>2. k \in DOMAIN Returns(op)
    <3>1. op.outs \in Seq(Nat) /\ Returns(op) \in Seq(Nat) /\ Len(Returns(op)) = Len(op.outs)
      BY <1>10, <1>11 DEF Returns
    <3> HIDE DEF op
    <3>2. DOMAIN op.outs = 1 .. Len(op.outs) /\ DOMAIN Returns(op) = 1 .. Len(op.outs)
      BY <3>1
    <3> QED BY <3>2
  <2>3. xs[k] \in F
    BY <2>1, <2>2 DEF ToSet, IsValuation
  <2>4. ToSet(op.ins \o op.outs) \subseteq DOMAIN v
    <3> HIDE DEF op, v
    <3> QED BY <1>7 DEF GetWitnesses
  <2>5. ToSet(op.outs) \subseteq DOMAIN v
    <3> HIDE DEF op, v
    <3> QED BY <1>10, <2>4, ConcatHolds
  <2> QED BY <1>8, <2>3, <2>5 DEF ToSet, IsValuation
<1>13. /\ accepted' = (\A k \in DOMAIN op.outs : GatedEq(1, v[op.outs[k]], xs[k]))
       /\ holds' = (holds /\ \A k \in DOMAIN op.outs : v[op.outs[k]] = xs[k])
  <2>1. accepted' = OutputsMet(op, 1, v, xs)
    BY <1>3, <1>7
  <2>2. OutputsMet(op, 1, v, xs) = (\A k \in DOMAIN op.outs : GatedEq(1, v[op.outs[k]], xs[k]))
    BY DEF OutputsMet
  <2> QED BY <1>3, <2>1, <2>2
<1>14. ASSUME NEW k \in DOMAIN op.outs
       PROVE  GatedEq(1, v[op.outs[k]], xs[k]) <=> v[op.outs[k]] = xs[k]
  <2> DEFINE a == v[op.outs[k]]
             b == xs[k]
  <2>1. a \in F /\ b \in F
    BY <1>12
  <2> HIDE DEF a, b
  <2>2. Minus(a, b) \in F /\ (Minus(a, b) = 0 <=> a = b)
    BY <2>1, MinusZero
  <2>3. GatedEq(1, a, b) <=> a = b
    BY <2>2, TimesOne DEF GatedEq
  <2> QED BY <2>3 DEF a, b
<1>15. accepted' \in BOOLEAN /\ holds' \in BOOLEAN /\ (accepted' <=> holds')
  <2> HIDE DEF xs, op, v
  <2>1. accepted' <=> \A k \in DOMAIN op.outs : v[op.outs[k]] = xs[k]
    BY <1>13, <1>14
  <2>2. holds' <=> \A k \in DOMAIN op.outs : v[op.outs[k]] = xs[k]
    BY <1>4, <1>13
  <2> QED BY <1>13, <2>1, <2>2
<1>16. StackFits(Circuits, stack')
  <2> DEFINE c == f.c
             pc == f.pc
             self == f.self
             mem == f.mem
             ref == f.ref
             at == pc + 1
  <2>1. /\ f = [c |-> c, pc |-> pc, vals |-> v, self |-> self, mem |-> mem, ref |-> ref]
        /\ ref = [st |-> ref.st, sol |-> ref.sol, mem |-> mem]
    BY <1>6, FrameRecord
  <2>2. c = stack[Len(stack) - 1].c
    BY DEF Caller
  <2>3. c \in DOMAIN Circuits /\ at \in 1 .. Len(Circuits[c].opcodes) + 1
        /\ Params(Circuits[c]) \subseteq DOMAIN v /\ IsValuation(v)
    BY <1>7, <1>8, <1>9 DEF IsSequence
  <2>4. MemoryFits(Circuits[c].opcodes, at, mem)
    <3>1. pc \in Nat \ {0}
      BY <1>7, <1>9 DEF IsSequence
    <3>2. MadeBy(code[pc]) = {}
      BY <1>7 DEF MadeBy
    <3>3. MemoryFits(code, pc, mem)
      BY <1>8
    <3> HIDE DEF code, pc, mem
    <3>4. BlocksBefore(code, pc + 1) = BlocksBefore(code, pc) \cup MadeBy(code[pc])
      BY <3>1, BlocksGrow
    <3>5. MemoryFits(code, pc + 1, mem)
      BY <3>2, <3>3, <3>4 DEF MemoryFits
    <3> QED BY <3>5 DEF code
  <2>5. next = [f EXCEPT !.pc = at]
    OBVIOUS
  <2> HIDE DEF c, pc, self, mem, ref, at, f, v, next
  <2>6. next = [c |-> c, pc |-> at, vals |-> v, self |-> self, mem |-> mem, ref |-> ref]
    BY <2>1, <2>5
  <2>7. next.c = c /\ next.pc = at /\ next.vals = v /\ next.self = self /\ next.mem = mem
        /\ next.ref = ref
    BY <2>6
  <2>8. next = [c |-> next.c, pc |-> next.pc, vals |-> next.vals, self |-> next.self,
                mem |-> next.mem,
                ref |-> [st |-> next.ref.st, sol |-> next.ref.sol, mem |-> next.mem]]
    BY <2>1, <2>6, <2>7
  <2>9. FrameFits(Circuits, next)
    BY <2>3, <2>4, <2>7, <2>8 DEF FrameFits
  <2>10. Len(stack) > 1 /\ next.c = stack[Len(stack) - 1].c
    BY <1>1, <2>2, <2>7
  <2>11. StackFits(Circuits, Append(SubSeq(stack, 1, Len(stack) - 2), next))
    BY <1>4, <2>9, <2>10, DropTop
  <2> QED BY <1>1, <2>11
<1>17. Circuits' = Circuits
  BY <1>1 DEF Circuits
<1> QED BY <1>1, <1>15, <1>16, <1>17 DEF IInv, AcceptsExactlySolutions

\* The end of the entry circuit.
LEMMA EndsKeeps == ASSUME IInv, ConstrainEnds PROVE IInv'
<1>1. /\ phase = "constrain" /\ accepted = TRUE /\ phase' = "done"
      /\ prog' = prog /\ inputs' = inputs
  BY DEF ConstrainEnds, Running, IInv
<1>2. \E unit : accepted' = (unit = 0) /\ holds' = (holds /\ unit = 0)
  BY DEF ConstrainEnds
<1>3. PICK unit : accepted' = (unit = 0) /\ holds' = (holds /\ unit = 0)
  BY <1>2
<1>4. holds = TRUE
  BY <1>1 DEF IInv, AcceptsExactlySolutions
<1>5. accepted' \in BOOLEAN /\ holds' \in BOOLEAN /\ (accepted' <=> holds')
  BY <1>3, <1>4
<1> QED BY <1>1, <1>5 DEF IInv, AcceptsExactlySolutions

---------------------------------------------------------------------------
\* Translation and @compute

\* A single frame is a stack.
LEMMA OneFrame ==
    ASSUME NEW cs, NEW f, FrameFits(cs, f)
    PROVE  StackFits(cs, <<f>>)
<1> DEFINE fs == <<f>>
<1>1. fs \in Seq({f}) /\ Len(fs) = 1 /\ fs[1] = f /\ fs # <<>> /\ DOMAIN fs = 1 .. 1
  OBVIOUS
<1> HIDE DEF fs
<1>2. ToSet(fs) = {f}
  BY <1>1 DEF ToSet
<1> QED BY <1>1, <1>2 DEF StackFits, fs

\* Initially.
LEMMA InitHolds == Init => IInv
BY DEF Init, IInv, AcceptsExactlySolutions

\* Translation, and the start of the entry circuit's function.
LEMMA TranslateKeeps == ASSUME IInv, Translate PROVE IInv'
<1>1. /\ prog' = prog /\ accepted' = accepted /\ holds' = holds
      /\ \A c \in ToSet(Circuits) : Translates(c)
      /\ inputs' \in [1 .. Cardinality(Params(Circuits[1])) -> F]
      /\ stack' = <<Frame(1, inputs', Struct,
                          Solver([k \in 0 .. (Len(inputs') - 1) |-> inputs'[k + 1]]))>>
  BY DEF Translate
<1>2. Circuits' = Circuits
  BY <1>1 DEF Circuits
<1>3. WellFormed(Circuits)
  BY <1>1, TranslatedFits DEF IInv
<1>4. StackFits(Circuits, stack')
  <2> DEFINE sol == [k \in 0 .. (Len(inputs') - 1) |-> inputs'[k + 1]]
             f == Frame(1, inputs', Struct, Solver(sol))
  <2>1. 1 \in DOMAIN Circuits
    BY <1>3 DEF WellFormed
  <2>2. FrameFits(Circuits, f)
    <3> HIDE DEF sol
    <3> QED BY <1>1, <1>3, <2>1, FrameBegins
  <2>3. stack' = <<f>>
    BY <1>1
  <2> HIDE DEF f
  <2> QED BY <2>2, <2>3, OneFrame
<1> QED BY <1>1, <1>2, <1>3, <1>4 DEF IInv, AcceptsExactlySolutions

\* The end of @compute, and the start of @constrain.
LEMMA ComputeEndsKeeps == ASSUME IInv, ComputeEnds PROVE IInv'
<1>1. /\ phase = "compute" /\ prog' = prog /\ inputs' = inputs
      /\ accepted' = accepted /\ holds' = holds
      /\ \E self : stack' = <<Frame(1, inputs, self, Solver(<<>>))>>
  BY DEF ComputeEnds, Running
<1>2. Circuits' = Circuits
  BY <1>1 DEF Circuits
<1>3. WellFormed(Circuits) /\ inputs \in [1 .. Cardinality(Params(Circuits[1])) -> F]
  BY <1>1 DEF IInv
<1>4. PICK self : stack' = <<Frame(1, inputs, self, Solver(<<>>))>>
  BY <1>1
<1>5. FrameFits(Circuits, Frame(1, inputs, self, Solver(<<>>)))
  BY <1>3, FrameBegins DEF WellFormed
<1>6. StackFits(Circuits, stack')
  BY <1>4, <1>5, OneFrame
<1> QED BY <1>1, <1>2, <1>3, <1>6 DEF IInv, AcceptsExactlySolutions

\* The other steps of @compute, and those that end a run, touch nothing the invariant is about.
Untouched ==
    /\ prog' = prog /\ inputs' = inputs /\ accepted' = accepted /\ holds' = holds
    /\ phase' = phase
    /\ phase = "constrain" => stack' = stack

LEMMA UntouchedKeeps == ASSUME IInv, Untouched PROVE IInv'
<1>1. Circuits' = Circuits
  BY DEF Untouched, Circuits
<1> QED BY <1>1 DEF IInv, Untouched, AcceptsExactlySolutions

\* Replacing the top frame in @compute is such a step.
LEMMA ReplaceUntouched ==
    ASSUME phase = "compute", NEW f, NEW out, Replace(f, out)
    PROVE  Untouched
BY DEF Replace, Untouched

\* A step of @compute.
LEMMA ComputeKeeps == ASSUME IInv, Compute PROVE IInv'
<1>1. CASE ComputeSatisfied
  BY <1>1, ReplaceUntouched, UntouchedKeeps DEF ComputeSatisfied, Computing, At, Running
<1>2. CASE ComputeSolve
  <2>1. phase = "compute"
    BY <1>2 DEF ComputeSolve, Computing, At, Running
  <2>2. \E f, out : Replace(f, out)
    BY <1>2 DEF ComputeSolve
  <2> QED BY <2>1, <2>2, ReplaceUntouched, UntouchedKeeps
<1>3. CASE ComputeMemoryInit
  <2>1. phase = "compute" /\ \E f, out : Replace(f, out)
    BY <1>3 DEF ComputeMemoryInit, Computing, At, Running
  <2> QED BY <2>1, ReplaceUntouched, UntouchedKeeps
<1>4. CASE ComputeMemoryRead
  <2>1. phase = "compute" /\ \E f, out : Replace(f, out)
    BY <1>4 DEF ComputeMemoryRead, Computing, At, Running
  <2> QED BY <2>1, ReplaceUntouched, UntouchedKeeps
<1>5. CASE ComputeMemoryWrite
  <2>1. phase = "compute" /\ \E f, out : Replace(f, out)
    BY <1>5 DEF ComputeMemoryWrite, Computing, At, Running
  <2> QED BY <2>1, ReplaceUntouched, UntouchedKeeps
<1>6. CASE ComputeLogic
  <2>1. phase = "compute" /\ \E f, out : Replace(f, out)
    BY <1>6 DEF ComputeLogic, Computing, At, Running
  <2> QED BY <2>1, ReplaceUntouched, UntouchedKeeps
<1>7. CASE ComputeRange
  <2>1. phase = "compute" /\ \E f, out : Replace(f, out)
    BY <1>7 DEF ComputeRange, Computing, At, Running
  <2> QED BY <2>1, ReplaceUntouched, UntouchedKeeps
<1>8. CASE ComputeBlackBox
  <2>1. phase = "compute" /\ \E f, out : Replace(f, out)
    BY <1>8 DEF ComputeBlackBox, Computing, At, Running
  <2> QED BY <2>1, ReplaceUntouched, UntouchedKeeps
<1>9. CASE ComputeBrilligCall
  <2>1. phase = "compute" /\ \E f, out : Replace(f, out)
    BY <1>9 DEF ComputeBrilligCall, Computing, At, Running
  <2> QED BY <2>1, ReplaceUntouched, UntouchedKeeps
<1>10. CASE ComputeCall
  BY <1>10, UntouchedKeeps DEF ComputeCall, Computing, At, Running, Untouched
<1>11. CASE ComputeReturn
  BY <1>11, UntouchedKeeps DEF ComputeReturn, Running, Untouched
<1>12. CASE ComputeUndefined
  BY <1>12, UntouchedKeeps DEF ComputeUndefined, Running, Replace, Untouched
<1>13. CASE ComputeEnds
  BY <1>13, ComputeEndsKeeps
<1> QED BY <1>1, <1>2, <1>3, <1>4, <1>5, <1>6, <1>7, <1>8, <1>9, <1>10, <1>11, <1>12, <1>13
     DEF Compute

\* A step of @constrain.
LEMMA ConstrainKeeps == ASSUME IInv, Constrain PROVE IInv'
BY AssertZeroKeeps, MemoryInitKeeps, MemoryReadKeeps, MemoryWriteKeeps, LogicKeeps, RangeKeeps,
   BlackBoxKeeps, BrilligCallKeeps, SkippedCallKeeps, CallKeeps, ReturnKeeps, EndsKeeps
DEF Constrain

\* Every step keeps the invariant.
LEMMA NextKeeps == ASSUME IInv, [Next]_vars PROVE IInv'
<1>1. CASE Translate
  BY <1>1, TranslateKeeps
<1>2. CASE TranslationFails
  BY <1>2, UntouchedKeeps DEF TranslationFails, Untouched
<1>3. CASE Compute
  BY <1>3, ComputeKeeps
<1>4. CASE Constrain
  BY <1>4, ConstrainKeeps
<1>5. CASE UNCHANGED vars
  BY <1>5, UntouchedKeeps DEF vars, Untouched
<1>6. CASE Ended
  BY <1>5, <1>6 DEF Ended
<1> QED BY <1>1, <1>2, <1>3, <1>4, <1>5, <1>6 DEF Next

---------------------------------------------------------------------------
\* The theorems

\* In every reachable state of every program of Programs the translated circuits are
\* well-formed, the frames of @constrain fit them, the memory of the relation is the memory of
\* the code, and a frame that waits stands at a Call whose predicate is one.
THEOREM Invariance == Spec => []IInv
<1>1. Init => IInv
  BY InitHolds
<1>2. IInv /\ [Next]_vars => IInv'
  BY NextKeeps
<1> QED BY <1>1, <1>2, PTL DEF Spec

\* The constraints emitted by @constrain are met exactly when the relation of the opcodes
\* holds, for every program, every field, every width and every choice of the helpers.
THEOREM Exactness == Spec => []AcceptsExactlySolutions
<1>1. IInv => AcceptsExactlySolutions
  BY DEF IInv
<1> QED BY <1>1, Invariance, PTL

---------------------------------------------------------------------------
\* Assignments

\* The last of several writes to the same place is one of them.
LEMMA LastWriteIsOne ==
    ASSUME NEW n \in Nat, NEW S, NEW ws \in [1 .. n -> S], NEW w \in ToSet(ws)
    PROVE  LastWrite(ws, w) \in 1 .. n /\ ws[LastWrite(ws, w)] = w
<1> DEFINE K == {k \in 1 .. n : ws[k] = w}
           R == {x \in Nat : n - x \in K}
<1>1. PICK k \in 1 .. n : ws[k] = w
  BY DEF ToSet
<1>2. R \in SUBSET Nat /\ n - k \in R
  <2>1. n - k \in Nat /\ n - (n - k) = k
    OBVIOUS
  <2> QED BY <1>1, <2>1
<1>3. PICK x \in R : \A y \in R : ~(y < x)
  <2> HIDE DEF R
  <2> QED BY <1>2, LeastNat
<1>4. n - x \in K /\ x \in Nat
  BY <1>3
<1>5. ASSUME NEW m \in DOMAIN ws, ws[m] = w PROVE m <= n - x
  <2>1. m \in 1 .. n
    OBVIOUS
  <2>2. n - m \in R
    <3>1. n - m \in Nat /\ n - (n - m) = m
      BY <2>1
    <3> QED BY <1>5, <2>1, <3>1
  <2>3. ~(n - m < x)
    BY <1>3, <2>2
  <2> QED BY <1>4, <2>1, <2>3
<1>6. \E j \in DOMAIN ws : ws[j] = w /\ \A m \in DOMAIN ws : ws[m] = w => m <= j
  BY <1>4, <1>5
<1> QED BY <1>6 DEF LastWrite

\* What is written are felts.
LEMMA WrittenAreFelts ==
    ASSUME NEW n \in Nat, NEW S, NEW ws \in [1 .. n -> S], NEW xs \in [1 .. n -> F]
    PROVE  Written(ws, xs) \in [ToSet(ws) -> F]
BY LastWriteIsOne DEF Written

\* A single write.
LEMMA WrittenOne ==
    ASSUME NEW w, NEW x \in F
    PROVE  Written(<<w>>, <<x>>) \in [{w} -> F] /\ ToSet(<<w>>) = {w}
<1>1. <<w>> \in [1 .. 1 -> {w}] /\ <<x>> \in [1 .. 1 -> F] /\ 1 \in Nat
  OBVIOUS
<1>2. ToSet(<<w>>) = {w}
  BY DEF ToSet
<1> QED BY <1>1, <1>2, WrittenAreFelts

\* One map overridden by another.
LEMMA Overridden ==
    ASSUME NEW v, IsValuation(v), NEW g, IsValuation(g)
    PROVE  /\ IsValuation(Override(v, g)) /\ DOMAIN Override(v, g) = DOMAIN v \cup DOMAIN g
           /\ g = [x \in {} |-> 0] => Override(v, g) = v
BY DEF Override, IsValuation

---------------------------------------------------------------------------
\* ACVM

\* The solver is a record, and has one of four states.
IsSolver(r) ==
    /\ r = [st |-> r.st, sol |-> r.sol, mem |-> r.mem]
    /\ r.st \in {"solving", "stalled", "failed", "skipped"}

\* r2 comes from r1: it goes on, stalls or fails.
Continues(r1, r2) == IsSolver(r2) /\ r2.st \in {r1.st, "failed", "stalled"}

\* A failure, and a step past an equation.
LEMMA FailContinues ==
    ASSUME NEW r, IsSolver(r)
    PROVE  /\ Continues(r, Fail(r)) /\ Fail(r).st = "failed"
           /\ Fail(r).sol = r.sol /\ Fail(r).mem = r.mem
           /\ Continues(r, [r EXCEPT !.st = "stalled"]) /\ [r EXCEPT !.st = "stalled"].st = "stalled"
           /\ Continues(r, r)
<1> DEFINE st == r.st
           sol == r.sol
           mem == r.mem
<1>1. r = [st |-> st, sol |-> sol, mem |-> mem] /\ st \in {"solving", "stalled", "failed", "skipped"}
  BY DEF IsSolver
<1> HIDE DEF st, sol, mem
<1>2. /\ Fail(r) = [st |-> "failed", sol |-> sol, mem |-> mem]
      /\ [r EXCEPT !.st = "stalled"] = [st |-> "stalled", sol |-> sol, mem |-> mem]
  BY <1>1 DEF Fail
<1> QED BY <1>1, <1>2 DEF Continues, IsSolver

\* An assignment succeeds or fails.
LEMMA AssignContinues ==
    ASSUME NEW r, IsSolver(r), NEW ws, NEW xs
    PROVE  LET a == AssignAll(r, ws, xs)
           IN  /\ Continues(r, a) /\ a.mem = r.mem /\ a.st \in {r.st, "failed"}
               /\ a.st # "failed" => a.sol = Override(r.sol, Written(ws, xs))
<1> DEFINE st == r.st
           sol == r.sol
           mem == r.mem
           a == AssignAll(r, ws, xs)
           new == Override(sol, Written(ws, xs))
<1>1. r = [st |-> st, sol |-> sol, mem |-> mem] /\ st \in {"solving", "stalled", "failed", "skipped"}
  BY DEF IsSolver
<1>2. a = Fail(r) \/ a = [r EXCEPT !.sol = new]
  BY DEF AssignAll
<1> HIDE DEF st, sol, mem, a, new
<1>3. [r EXCEPT !.sol = new] = [st |-> st, sol |-> new, mem |-> mem]
  BY <1>1
<1>4. Fail(r) = [st |-> "failed", sol |-> sol, mem |-> mem]
  BY <1>1 DEF Fail
<1>5. CASE a = Fail(r)
  BY <1>1, <1>4, <1>5 DEF Continues, IsSolver, a, new, sol, mem
<1>6. CASE a = [r EXCEPT !.sol = new]
  <2>1. a.st = st /\ a.sol = new /\ a.mem = mem /\ a = [st |-> a.st, sol |-> a.sol, mem |-> a.mem]
    BY <1>3, <1>6
  <2>2. Continues(r, a)
    BY <1>1, <2>1 DEF Continues, IsSolver
  <2> QED BY <2>1, <2>2 DEF a, new, sol, mem, st
<1> QED BY <1>2, <1>5, <1>6

\* What is left of an equation besides the unknown witnesses.
Rest(e, v, unknown) == Plus(SumOf(e, v, LAMBDA t : TermWitnesses(t) \cap unknown = {}), e.qc)

\* An equation is true, or is solved for the one unknown whose coefficient is not zero.
LEMMA AssertZeroContinues ==
    ASSUME NEW r, IsSolver(r), NEW e
    PROVE  LET a == AcvmAssertZero(r, e)
               unknown == Support(e) \ DOMAIN r.sol
           IN  /\ Continues(r, a) /\ a.mem = r.mem
               /\ unknown = {} /\ a.st = "solving" => a.sol = r.sol
               /\ \A w : unknown = {w} /\ a.st = "solving" =>
                     /\ Coefficient(e, w, r.sol) # 0
                     /\ a.sol = Override(r.sol, Written(<<w>>,
                           <<Div(Neg(Rest(e, r.sol, unknown)), Coefficient(e, w, r.sol))>>))
<1> DEFINE a == AcvmAssertZero(r, e)
           unknown == Support(e) \ DOMAIN r.sol
           live == {w \in unknown : Coefficient(e, w, r.sol) # 0}
           rest == Rest(e, r.sol, unknown)
           x == CHOOSE u \in live : TRUE
           q(w) == Div(Neg(rest), Coefficient(e, w, r.sol))
           onlyUnknown == \E t \in Terms(e.mul) : TermWitnesses(t) \subseteq unknown
<1>1. a = IF onlyUnknown THEN Fail(r)
          ELSE CASE live = {} /\ rest # 0 -> Fail(r)
                 [] live = {} /\ rest = 0 -> IF unknown = {} THEN r ELSE [r EXCEPT !.st = "stalled"]
                 [] Cardinality(live) = 1 -> Assign(r, x, q(x))
                 [] OTHER -> Fail(r)
  BY DEF AcvmAssertZero, Rest
<1>2. live = {} => Cardinality(live) # 1
  BY FS_EmptySet
<1>3. \A w : (unknown = {w} /\ live # {}) =>
                 (live = {w} /\ x = w /\ Coefficient(e, w, r.sol) # 0)
  <2>1. ASSUME NEW w, unknown = {w}, live # {}
        PROVE  live = {w} /\ x = w /\ Coefficient(e, w, r.sol) # 0
    <3>1. live \subseteq unknown
      OBVIOUS
    <3>2. live = {w}
      <4> HIDE DEF live, unknown
      <4> QED BY <2>1, <3>1
    <3>3. w \in live
      BY <3>2
    <3>4. Coefficient(e, w, r.sol) # 0
      BY <3>3
    <3>5. x = w
      <4> HIDE DEF live
      <4>1. x \in live
        BY <3>3
      <4> QED BY <3>2, <4>1
    <3> QED BY <3>2, <3>4, <3>5
  <2> HIDE DEF live, unknown, x
  <2> QED BY <2>1
<1>4. \A w : live = {w} => Cardinality(live) = 1
  BY FS_Singleton
<1>5. Continues(r, Fail(r)) /\ Continues(r, r) /\ Continues(r, [r EXCEPT !.st = "stalled"])
      /\ Fail(r).st = "failed" /\ [r EXCEPT !.st = "stalled"].st = "stalled"
      /\ Fail(r).mem = r.mem /\ [r EXCEPT !.st = "stalled"].mem = r.mem
  BY FailContinues DEF IsSolver
<1>6. LET b == Assign(r, x, q(x))
      IN  /\ Continues(r, b) /\ b.mem = r.mem
          /\ b.st # "failed" => b.sol = Override(r.sol, Written(<<x>>, <<q(x)>>))
  BY AssignContinues DEF Assign
<1> HIDE DEF x, rest, onlyUnknown, q
<1>7. a = Fail(r) \/ a = r \/ a = [r EXCEPT !.st = "stalled"] \/ a = Assign(r, x, q(x))
  BY <1>1
<1>8. Continues(r, a) /\ a.mem = r.mem
  BY <1>5, <1>6, <1>7
<1>9. ASSUME unknown = {}, a.st = "solving" PROVE a.sol = r.sol
  <2>1. live = {}
    BY <1>9
  <2>2. a = Fail(r) \/ a = r
    <3> HIDE DEF live, unknown, a
    <3> QED BY <1>1, <1>2, <1>9, <2>1
  <2> QED BY <1>5, <1>9, <2>2
<1>10. ASSUME NEW w, unknown = {w}, a.st = "solving"
       PROVE  /\ Coefficient(e, w, r.sol) # 0
              /\ a.sol = Override(r.sol, Written(<<w>>, <<q(w)>>))
  <2>1. CASE live = {}
    <3>1. a = Fail(r) \/ a = [r EXCEPT !.st = "stalled"]
      <4>1. unknown # {}
        BY <1>10
      <4> HIDE DEF live, unknown, a
      <4> QED BY <1>1, <1>2, <2>1, <4>1
    <3> QED BY <1>5, <1>10, <3>1
  <2>2. CASE live # {}
    <3>1. live = {w} /\ x = w /\ Coefficient(e, w, r.sol) # 0
      BY <1>3, <1>10, <2>2
    <3>2. Cardinality(live) = 1
      BY <1>4, <3>1
    <3>3. a = Fail(r) \/ a = Assign(r, x, q(x))
      <4> HIDE DEF live, unknown, a
      <4> QED BY <1>1, <2>2, <3>2
    <3> QED BY <1>5, <1>6, <1>10, <3>1, <3>3
  <2> QED BY <2>1, <2>2
<1> QED BY <1>8, <1>9, <1>10 DEF q, rest

\* The other opcodes that write witnesses.
LEMMA LogicContinues ==
    ASSUME NEW r, IsSolver(r), NEW op
    PROVE  LET a == AcvmLogic(r, op)
               xs == InputValues(op.ins, r.sol)
           IN  /\ Continues(r, a) /\ a.mem = r.mem
               /\ a.st = "solving" =>
                     a.sol = Override(r.sol, Written(<<op.out>>, <<Bits(op.op, xs[1], xs[2])>>))
<1> DEFINE a == AcvmLogic(r, op)
           xs == InputValues(op.ins, r.sol)
           x == Bits(op.op, xs[1], xs[2])
<1>1. a = Fail(r) \/ a = AssignAll(r, <<op.out>>, <<x>>)
  BY DEF AcvmLogic, Assign
<1> DEFINE b == AssignAll(r, <<op.out>>, <<x>>)
<1>2. /\ Continues(r, b) /\ b.mem = r.mem
      /\ b.st # "failed" => b.sol = Override(r.sol, Written(<<op.out>>, <<x>>))
  BY AssignContinues
<1>3. Continues(r, Fail(r)) /\ Fail(r).st = "failed" /\ Fail(r).mem = r.mem
  BY FailContinues
<1>4. a = Fail(r) \/ a = b
  BY <1>1
<1> HIDE DEF a, b, x
<1>5. /\ Continues(r, a) /\ a.mem = r.mem
      /\ a.st = "solving" => a.sol = Override(r.sol, Written(<<op.out>>, <<x>>))
  BY <1>2, <1>3, <1>4
<1> QED BY <1>5 DEF a, x

LEMMA RangeContinues ==
    ASSUME NEW r, IsSolver(r), NEW op
    PROVE  LET a == AcvmRange(r, op)
           IN  Continues(r, a) /\ a.mem = r.mem /\ a.sol = r.sol
<1> DEFINE a == AcvmRange(r, op)
<1>1. a = Fail(r) \/ a = r
  BY DEF AcvmRange
<1> HIDE DEF a
<1> QED BY <1>1, FailContinues DEF a

LEMMA BlackBoxContinues ==
    ASSUME NEW r, IsSolver(r), NEW op
    PROVE  LET a == AcvmBlackBox(r, op)
               xs == BlackBox(op.fn, InputValues(op.ins \o op.pred, r.sol), Len(op.outs))
           IN  /\ Continues(r, a) /\ a.mem = r.mem
               /\ a.st = "solving" => a.sol = Override(r.sol, Written(op.outs, xs))
<1> DEFINE a == AcvmBlackBox(r, op)
           xs == BlackBox(op.fn, InputValues(op.ins \o op.pred, r.sol), Len(op.outs))
<1>1. a = Fail(r) \/ a = AssignAll(r, op.outs, xs)
  BY DEF AcvmBlackBox
<1> DEFINE b == AssignAll(r, op.outs, xs)
<1>2. /\ Continues(r, b) /\ b.mem = r.mem
      /\ b.st # "failed" => b.sol = Override(r.sol, Written(op.outs, xs))
  BY AssignContinues
<1>3. Continues(r, Fail(r)) /\ Fail(r).st = "failed" /\ Fail(r).mem = r.mem
  BY FailContinues
<1>4. a = Fail(r) \/ a = b
  BY <1>1
<1> HIDE DEF a, b, xs
<1>5. /\ Continues(r, a) /\ a.mem = r.mem
      /\ a.st = "solving" => a.sol = Override(r.sol, Written(op.outs, xs))
  BY <1>2, <1>3, <1>4
<1> QED BY <1>5 DEF a, xs

\* A Brillig call is skipped, fails with the bytecode, or has its results.
LEMMA BrilligContinues ==
    ASSUME NEW r, IsSolver(r), NEW op
    PROVE  LET a == AcvmBrilligCall(r, op)
               xs == Brillig(op.id, BrilligArguments(op.ins, r.sol, r.mem))
               p == Value(op.pred, r.sol)
           IN  /\ Continues(r, a) /\ a.mem = r.mem
               /\ a.st = "solving" =>
                     /\ Support(op.pred) \subseteq DOMAIN r.sol
                     /\ \/ p = 0 /\ a.sol = Override(r.sol, Written(op.outs, Zeros(op.outs)))
                        \/ /\ p = 1 /\ BrilligSupport(op.ins) \subseteq DOMAIN r.sol /\ xs # Trap
                           /\ a.sol = Override(r.sol, Written(op.outs, xs))
<1> DEFINE a == AcvmBrilligCall(r, op)
           xs == Brillig(op.id, BrilligArguments(op.ins, r.sol, r.mem))
           p == Value(op.pred, r.sol)
<1>1. \/ a = Fail(r)
      \/ /\ PredicateKnown(r, op) /\ p = 0
         /\ a = AssignAll(r, op.outs, Zeros(op.outs))
      \/ /\ PredicateKnown(r, op) /\ p # 0
         /\ BrilligSupport(op.ins) \subseteq DOMAIN r.sol /\ xs # Trap
         /\ a = AssignAll(r, op.outs, xs)
  BY DEF AcvmBrilligCall
<1>2. PredicateKnown(r, op) => Support(op.pred) \subseteq DOMAIN r.sol /\ p \in {0, 1}
  BY DEF PredicateKnown
<1> DEFINE b == AssignAll(r, op.outs, xs)
           z == AssignAll(r, op.outs, Zeros(op.outs))
<1>3. /\ Continues(r, b) /\ b.mem = r.mem
      /\ b.st # "failed" => b.sol = Override(r.sol, Written(op.outs, xs))
  BY AssignContinues
<1>4. /\ Continues(r, z) /\ z.mem = r.mem
      /\ z.st # "failed" => z.sol = Override(r.sol, Written(op.outs, Zeros(op.outs)))
  BY AssignContinues
<1>5. Continues(r, Fail(r)) /\ Fail(r).st = "failed" /\ Fail(r).mem = r.mem
  BY FailContinues
<1> HIDE DEF a, b, z, xs, p
<1>6. CASE a = Fail(r)
  BY <1>5, <1>6 DEF a, xs, p
<1>7. CASE PredicateKnown(r, op) /\ p = 0 /\ a = z
  BY <1>2, <1>4, <1>7 DEF a, xs, p
<1>8. CASE /\ PredicateKnown(r, op) /\ p # 0 /\ BrilligSupport(op.ins) \subseteq DOMAIN r.sol
           /\ xs # Trap /\ a = b
  <2>1. p = 1
    BY <1>2, <1>8
  <2> QED BY <1>2, <1>3, <1>8, <2>1 DEF a, xs, p
<1> QED BY <1>1, <1>6, <1>7, <1>8 DEF b, z

\* A block is made of solved witnesses.
LEMMA MemoryInitContinues ==
    ASSUME NEW r, IsSolver(r), NEW op
    PROVE  LET a == AcvmMemoryInit(r, op)
           IN  /\ Continues(r, a)
               /\ a.st = "solving" =>
                     /\ ToSet(op.init) \subseteq DOMAIN r.sol /\ a.sol = r.sol
                     /\ a.mem = With(r.mem, op.block, [k \in DOMAIN op.init |-> r.sol[op.init[k]]])
<1> DEFINE st == r.st
           sol == r.sol
           mem == r.mem
           a == AcvmMemoryInit(r, op)
           new == With(mem, op.block, [k \in DOMAIN op.init |-> sol[op.init[k]]])
           b == [r EXCEPT !.mem = new]
           known == ToSet(op.init) \subseteq DOMAIN sol
<1>1. r = [st |-> st, sol |-> sol, mem |-> mem] /\ st \in {"solving", "stalled", "failed", "skipped"}
  BY DEF IsSolver
<1>2. a = Fail(r) \/ (known /\ a = b)
  BY DEF AcvmMemoryInit
<1>3. Continues(r, Fail(r)) /\ Fail(r).st = "failed"
  BY FailContinues
<1> HIDE DEF a, new, known
<1>4. b = [st |-> st, sol |-> sol, mem |-> new]
  <2> HIDE DEF st, sol, mem
  <2> QED BY <1>1
<1>5. Continues(r, b) /\ b.sol = sol /\ b.mem = new
  <2>1. b = [st |-> b.st, sol |-> b.sol, mem |-> b.mem] /\ b.st = st /\ b.sol = sol /\ b.mem = new
    <3> HIDE DEF b, st, sol, mem
    <3> QED BY <1>4
  <2> HIDE DEF b
  <2> QED BY <1>1, <2>1 DEF Continues, IsSolver
<1> HIDE DEF b
<1>6. Continues(r, a) /\ (a.st = "solving" => known /\ a.sol = sol /\ a.mem = new)
  BY <1>2, <1>3, <1>5
<1> QED BY <1>6 DEF a, known, new, sol, mem

\* A memory access out of bounds fails; a read assigns, a write changes one cell.
LEMMA MemoryOpContinues ==
    ASSUME NEW r, IsSolver(r), NEW op
    PROVE  LET a == AcvmMemoryOp(r, op)
               i == Value(op.index, r.sol) + 1
               x == Value(op.value, r.sol)
           IN  /\ Continues(r, a)
               /\ a.st = "solving" =>
                     /\ op.block \in DOMAIN r.mem /\ Support(op.index) \subseteq DOMAIN r.sol
                     /\ i \in DOMAIN r.mem[op.block]
                     /\ op.operation.qc = 0 =>
                           /\ a.mem = r.mem
                           /\ a.sol = Override(r.sol, Written(<<op.value.lin[1][2]>>,
                                                              <<r.mem[op.block][i]>>))
                     /\ op.operation.qc # 0 =>
                           /\ Support(op.value) \subseteq DOMAIN r.sol /\ a.sol = r.sol
                           /\ a.mem = [r.mem EXCEPT ![op.block] = [r.mem[op.block] EXCEPT ![i] = x]]
<1> DEFINE st == r.st
           sol == r.sol
           mem == r.mem
           i == Value(op.index, sol) + 1
           x == Value(op.value, sol)
           w == op.value.lin[1][2]
           cell == mem[op.block][i]
           a == AcvmMemoryOp(r, op)
           new == [mem EXCEPT ![op.block] = [mem[op.block] EXCEPT ![i] = x]]
           b == AssignAll(r, <<w>>, <<cell>>)
           c == [r EXCEPT !.mem = new]
           inside == /\ op.block \in DOMAIN mem /\ Support(op.index) \subseteq DOMAIN sol
                     /\ i \in DOMAIN mem[op.block]
           known == Support(op.value) \subseteq DOMAIN sol
           reads == op.operation.qc = 0
<1>1. r = [st |-> st, sol |-> sol, mem |-> mem] /\ st \in {"solving", "stalled", "failed", "skipped"}
  BY DEF IsSolver
<1>2. a = Fail(r) \/ (inside /\ reads /\ a = b) \/ (inside /\ ~reads /\ known /\ a = c)
  <2>1. [r EXCEPT !.mem[op.block][i] = x] = c
    BY <1>1
  <2>2. a = IF op.block \notin DOMAIN mem \/ ~(Support(op.index) \subseteq DOMAIN sol) THEN Fail(r)
            ELSE IF i \notin DOMAIN mem[op.block] THEN Fail(r)
            ELSE IF reads THEN Assign(r, w, cell)
            ELSE IF known THEN [r EXCEPT !.mem[op.block][i] = x] ELSE Fail(r)
    BY DEF AcvmMemoryOp
  <2>3. Assign(r, w, cell) = b
    BY DEF Assign
  <2> HIDE DEF a, b, c, known, reads, i, x, w, cell
  <2> QED BY <2>1, <2>2, <2>3
<1>3. Continues(r, Fail(r)) /\ Fail(r).st = "failed"
  BY FailContinues
<1>4. Continues(r, b) /\ b.mem = mem /\ (b.st # "failed" => b.sol = Override(sol, Written(<<w>>, <<cell>>)))
  BY AssignContinues
<1> HIDE DEF a, b, new, known, inside, reads
<1>5. c = [st |-> st, sol |-> sol, mem |-> new]
  <2> HIDE DEF st, sol, mem
  <2> QED BY <1>1
<1>6. Continues(r, c) /\ c.sol = sol /\ c.mem = new
  <2>1. c = [st |-> c.st, sol |-> c.sol, mem |-> c.mem] /\ c.st = st /\ c.sol = sol /\ c.mem = new
    <3> HIDE DEF c, st, sol, mem
    <3> QED BY <1>5
  <2> HIDE DEF c
  <2> QED BY <1>1, <2>1 DEF Continues, IsSolver
<1> HIDE DEF c
<1>7. /\ Continues(r, a)
      /\ a.st = "solving" =>
            /\ inside
            /\ reads => a.mem = mem /\ a.sol = Override(sol, Written(<<w>>, <<cell>>))
            /\ ~reads => known /\ a.sol = sol /\ a.mem = new
  BY <1>2, <1>3, <1>4, <1>6
<1> QED BY <1>7 DEF a, inside, reads, known, new, mem, sol, w, cell, i, x

\* What a caller learns from a callee.
LEMMA ReturnContinues ==
    ASSUME NEW r, IsSolver(r), NEW op, NEW callee, NEW returns
    PROVE  LET a == AcvmReturn(r, op, callee, returns)
               xs == [k \in DOMAIN returns |-> callee.sol[returns[k]]]
           IN  /\ Continues(r, a) /\ a.mem = r.mem
               /\ a.st = "solving" =>
                     \/ /\ callee.st = "skipped"
                        /\ a.sol = Override(r.sol, Written(op.outs, Zeros(op.outs)))
                     \/ /\ callee.st \notin {"skipped", "failed", "stalled"}
                        /\ ToSet(returns) \subseteq DOMAIN callee.sol
                        /\ a.sol = Override(r.sol, Written(op.outs, xs))
<1> DEFINE a == AcvmReturn(r, op, callee, returns)
           xs == [k \in DOMAIN returns |-> callee.sol[returns[k]]]
           s == [r EXCEPT !.st = "stalled"]
           z == AssignAll(r, op.outs, Zeros(op.outs))
           b == AssignAll(r, op.outs, xs)
           c == AssignAll(s, op.outs, xs)
<1>1. IF callee.st = "skipped" THEN a = z
      ELSE IF callee.st = "failed" \/ ~(ToSet(returns) \subseteq DOMAIN callee.sol) THEN a = Fail(r)
      ELSE IF callee.st = "stalled" THEN a = c ELSE a = b
  BY DEF AcvmReturn
<1>2. Continues(r, Fail(r)) /\ Fail(r).st = "failed" /\ Fail(r).mem = r.mem
  BY FailContinues
<1>3. Continues(r, s) /\ s.st = "stalled" /\ s.mem = r.mem
  <2>1. [r EXCEPT !.st = "stalled"].mem = r.mem
    BY DEF IsSolver
  <2> QED BY <2>1, FailContinues
<1>4. Continues(r, z) /\ z.mem = r.mem
      /\ (z.st # "failed" => z.sol = Override(r.sol, Written(op.outs, Zeros(op.outs))))
  BY AssignContinues
<1>5. Continues(r, b) /\ b.mem = r.mem
      /\ (b.st # "failed" => b.sol = Override(r.sol, Written(op.outs, xs)))
  BY AssignContinues
<1>6. Continues(r, c) /\ c.mem = r.mem /\ c.st # "solving"
  <2> HIDE DEF s, xs
  <2>1. IsSolver(s)
    BY <1>3 DEF Continues
  <2>2. Continues(s, c) /\ c.mem = s.mem
    BY <2>1, AssignContinues
  <2> HIDE DEF c
  <2> QED BY <1>3, <2>2 DEF Continues
<1> HIDE DEF a, xs, s, z, b, c
<1>7. CASE callee.st = "skipped"
  BY <1>1, <1>4, <1>7 DEF a, xs
<1>8. CASE callee.st # "skipped" /\ (callee.st = "failed" \/ ~(ToSet(returns) \subseteq DOMAIN callee.sol))
  BY <1>1, <1>2, <1>8 DEF a, xs
<1>9. CASE callee.st # "skipped" /\ callee.st # "failed" /\ ToSet(returns) \subseteq DOMAIN callee.sol
  BY <1>1, <1>5, <1>6, <1>9 DEF a, xs
<1> QED BY <1>7, <1>8, <1>9

\* What a callee is asked.
LEMMA CalleeContinues ==
    ASSUME NEW r, NEW op
    PROVE  LET a == AcvmCallee(r, op)
           IN  /\ IsSolver(a)
               /\ a.st = "skipped" => PredicateKnown(r, op) /\ Value(op.pred, r.sol) = 0
               /\ a.st = "stalled" => FALSE
               /\ a.st = "solving" =>
                     /\ PredicateKnown(r, op) /\ Value(op.pred, r.sol) = 1
                     /\ ToSet(op.ins) \subseteq DOMAIN r.sol
                     /\ a.sol = [k \in 0 .. (Len(op.ins) - 1) |-> r.sol[op.ins[k + 1]]]
                     /\ a.mem = <<>>
<1> DEFINE a == AcvmCallee(r, op)
           sol == [k \in 0 .. (Len(op.ins) - 1) |-> r.sol[op.ins[k + 1]]]
           p == Value(op.pred, r.sol)
<1>1. IF ~PredicateKnown(r, op) THEN a = Fail(Solver(<<>>))
      ELSE IF p = 0 THEN a = [Solver(<<>>) EXCEPT !.st = "skipped"]
      ELSE IF ~(ToSet(op.ins) \subseteq DOMAIN r.sol) THEN a = Fail(Solver(<<>>))
      ELSE a = Solver(sol)
  BY DEF AcvmCallee
<1>2. Fail(Solver(<<>>)) = [st |-> "failed", sol |-> <<>>, mem |-> <<>>]
  BY DEF Fail, Solver
<1>3. [Solver(<<>>) EXCEPT !.st = "skipped"] = [st |-> "skipped", sol |-> <<>>, mem |-> <<>>]
  BY DEF Solver
<1>4. Solver(sol) = [st |-> "solving", sol |-> sol, mem |-> <<>>]
  BY DEF Solver
<1>5. PredicateKnown(r, op) => p \in {0, 1}
  BY DEF PredicateKnown
<1> HIDE DEF a, sol, p
<1>6. CASE a = [st |-> "failed", sol |-> <<>>, mem |-> <<>>]
  BY <1>6 DEF IsSolver, a
<1>7. CASE PredicateKnown(r, op) /\ p = 0 /\ a = [st |-> "skipped", sol |-> <<>>, mem |-> <<>>]
  BY <1>7 DEF IsSolver, a, p
<1>8. CASE /\ PredicateKnown(r, op) /\ p = 1 /\ ToSet(op.ins) \subseteq DOMAIN r.sol
           /\ a = [st |-> "solving", sol |-> sol, mem |-> <<>>]
  BY <1>8 DEF IsSolver, a, p, sol
<1> QED BY <1>1, <1>2, <1>3, <1>4, <1>5, <1>6, <1>7, <1>8

\* What ACVM does with an opcode.
LEMMA ReferenceIs ==
    ASSUME NEW f, NEW op
    PROVE  /\ f.ref.st \notin {"solving", "stalled"} => Reference(f, op) = f.ref
           /\ f.ref.st \in {"solving", "stalled"} =>
                 /\ op.op = "AssertZero" => Reference(f, op) = AcvmAssertZero(f.ref, op.e)
                 /\ op.op = "MemoryInit" => Reference(f, op) = AcvmMemoryInit(f.ref, op)
                 /\ op.op = "MemoryOp" => Reference(f, op) = AcvmMemoryOp(f.ref, op)
                 /\ op.op \in {"AND", "XOR"} => Reference(f, op) = AcvmLogic(f.ref, op)
                 /\ op.op = "RANGE" => Reference(f, op) = AcvmRange(f.ref, op)
                 /\ op.op = "BlackBox" => Reference(f, op) = AcvmBlackBox(f.ref, op)
                 /\ op.op = "BrilligCall" => Reference(f, op) = AcvmBrilligCall(f.ref, op)
                 /\ op.op = "Call" =>
                       Reference(f, op) = AcvmReturn(f.ref, op, AcvmCallee(f.ref, op), Returns(op))
<1> DEFINE r == Reference(f, op)
<1>1. r = IF f.ref.st \notin {"solving", "stalled"} THEN f.ref
          ELSE CASE op.op = "AssertZero" -> AcvmAssertZero(f.ref, op.e)
                 [] op.op = "MemoryInit" -> AcvmMemoryInit(f.ref, op)
                 [] op.op = "MemoryOp" -> AcvmMemoryOp(f.ref, op)
                 [] op.op \in {"AND", "XOR"} -> AcvmLogic(f.ref, op)
                 [] op.op = "RANGE" -> AcvmRange(f.ref, op)
                 [] op.op = "BlackBox" -> AcvmBlackBox(f.ref, op)
                 [] op.op = "BrilligCall" -> AcvmBrilligCall(f.ref, op)
                 [] op.op = "Call" -> AcvmReturn(f.ref, op, AcvmCallee(f.ref, op), Returns(op))
  BY DEF Reference
<1> HIDE DEF r
<1> QED BY <1>1 DEF r

\* Whatever the opcode, ACVM goes on, stalls or fails.
LEMMA ReferenceContinues ==
    ASSUME NEW f, IsSolver(f.ref), NEW op, IsOpcode(op)
    PROVE  Continues(f.ref, Reference(f, op))
<1> DEFINE r == f.ref
<1>0. op.op \in {"AssertZero", "MemoryInit", "MemoryOp", "AND", "XOR", "RANGE", "BlackBox",
                 "Call", "BrilligCall"}
  BY DEF IsOpcode
<1>1. Continues(r, r)
  BY FailContinues
<1>2. Continues(r, AcvmAssertZero(r, op.e))
  BY AssertZeroContinues
<1>3. Continues(r, AcvmMemoryInit(r, op))
  BY MemoryInitContinues
<1>4. Continues(r, AcvmMemoryOp(r, op))
  BY MemoryOpContinues
<1>5. Continues(r, AcvmLogic(r, op))
  BY LogicContinues
<1>6. Continues(r, AcvmRange(r, op))
  BY RangeContinues
<1>7. Continues(r, AcvmBlackBox(r, op))
  BY BlackBoxContinues
<1>8. Continues(r, AcvmBrilligCall(r, op))
  BY BrilligContinues
<1>9. Continues(r, AcvmReturn(r, op, AcvmCallee(r, op), Returns(op)))
  <2> DEFINE callee == AcvmCallee(r, op)
             returns == Returns(op)
  <2> HIDE DEF callee, returns
  <2>1. Continues(r, AcvmReturn(r, op, callee, returns))
    BY ReturnContinues
  <2> QED BY <2>1 DEF callee, returns
<1>10. \/ Reference(f, op) = r
       \/ /\ r.st \in {"solving", "stalled"}
          /\ Reference(f, op) \in
               {AcvmAssertZero(r, op.e), AcvmMemoryInit(r, op), AcvmMemoryOp(r, op),
                AcvmLogic(r, op), AcvmRange(r, op), AcvmBlackBox(r, op), AcvmBrilligCall(r, op),
                AcvmReturn(r, op, AcvmCallee(r, op), Returns(op))}
  BY <1>0, ReferenceIs
<1> QED BY <1>1, <1>2, <1>3, <1>4, <1>5, <1>6, <1>7, <1>8, <1>9, <1>10

---------------------------------------------------------------------------
\* The writer

\* The states of the writer are a sequence: each one follows the one before.
LEMMA WriterSteps ==
    ASSUME NEW c, NEW m \in Nat
    PROVE  /\ WriterAfter(c, 0) = Writer(c)
           /\ WriterAfter(c, m + 1) = EmitCompute(WriterAfter(c, m), c.opcodes[m + 1])
<1>1. PICK W1, B1, f : WriterStates(c, m, W1, B1, f)
  BY WriterUnfolds
<1>2. PICK W2, B2, g : WriterStates(c, m + 1, W2, B2, g)
  <2>1. m + 1 \in Nat
    OBVIOUS
  <2> QED BY <2>1, WriterUnfolds
<1>3. PICK W3, B3, h : WriterStates(c, 0, W3, B3, h)
  BY WriterUnfolds
<1> DEFINE S == {k \in 0 .. m : f[k] = g[k]}
<1>4. 0 \in S
  BY <1>1, <1>2 DEF WriterStates
<1>5. ASSUME NEW k \in 0 .. m - 1, k \in S PROVE k + 1 \in S
  <2>1. k + 1 \in 1 .. m /\ k + 1 \in 1 .. m + 1 /\ (k + 1) - 1 = k
    OBVIOUS
  <2>2. f[k + 1] = EmitCompute(f[k], c.opcodes[k + 1])
    BY <1>1, <2>1 DEF WriterStates
  <2>3. g[k + 1] = EmitCompute(g[k], c.opcodes[k + 1])
    BY <1>2, <2>1 DEF WriterStates
  <2> QED BY <1>5, <2>1, <2>2, <2>3
<1>6. \A k \in 0 .. m : k \in S
  <2> HIDE DEF S
  <2> QED BY <1>4, <1>5, UpToInduction
<1>7. f[m] = g[m]
  BY <1>6
<1>8. g[m + 1] = EmitCompute(g[m], c.opcodes[m + 1])
  <2>1. m + 1 \in 1 .. m + 1 /\ (m + 1) - 1 = m
    OBVIOUS
  <2> QED BY <1>2, <2>1 DEF WriterStates
<1> QED BY <1>1, <1>2, <1>3, <1>7, <1>8 DEF WriterStates

\* In a circuit that was translated no opcode was refused.
LEMMA WriterIsOk ==
    ASSUME NEW c, IsSequence(c.opcodes), Translates(c), NEW k \in 0 .. Len(c.opcodes)
    PROVE  /\ WriterAfter(c, k).ok
           /\ \E W, B : WriterAfter(c, k) \in Writers(W, B)
<1> DEFINE n == Len(c.opcodes)
<1>1. n \in Nat /\ DOMAIN c.opcodes = 1 .. n /\ WriterAfter(c, n).ok
  BY DEF IsSequence, Translates
<1> HIDE DEF n
<1>2. ASSUME NEW m \in Nat PROVE \E W, B : WriterAfter(c, m) \in Writers(W, B)
  <2>1. PICK W, B, f : WriterStates(c, m, W, B, f)
    BY WriterUnfolds
  <2>2. f[m] \in Writers(W, B) /\ WriterAfter(c, m) = f[m]
    BY <2>1 DEF WriterStates
  <2> QED BY <2>2
<1>3. ASSUME NEW m \in Nat, WriterAfter(c, m + 1).ok PROVE WriterAfter(c, m).ok
  <2> DEFINE op == c.opcodes[m + 1]
  <2>1. PICK W, B : WriterAfter(c, m) \in Writers(W, B)
    BY <1>2
  <2> DEFINE V == W \cup Learnt(op)
             C == B \cup MadeBy(op)
  <2>2. WriterAfter(c, m) \in Writers(V, C)
    BY <2>1 DEF Writers
  <2>3. Learnt(op) \subseteq V /\ MadeBy(op) \subseteq C
    OBVIOUS
  <2> HIDE DEF op, V, C
  <2>4. LET after == EmitCompute(WriterAfter(c, m), op) IN after.ok => WriterAfter(c, m).ok
    BY <2>2, <2>3, EmitStep
  <2> QED BY <1>3, <2>4, WriterSteps DEF op
<1> DEFINE S == {m \in 0 .. n : WriterAfter(c, n - m).ok}
<1>4. ASSUME NEW m \in 0 .. n - 1, m \in S PROVE m + 1 \in S
  <2>1. n - (m + 1) \in Nat /\ (n - (m + 1)) + 1 = n - m /\ m + 1 \in 0 .. n
    BY <1>1
  <2> QED BY <1>3, <1>4, <2>1
<1>5. 0 \in S
  BY <1>1
<1>6. \A m \in 0 .. n : m \in S
  <2> HIDE DEF S
  <2> QED BY <1>1, <1>4, <1>5, UpToInduction
<1>7. n - k \in 0 .. n /\ n - (n - k) = k /\ k \in Nat
  BY <1>1 DEF n
<1>8. WriterAfter(c, k).ok
  BY <1>6, <1>7
<1> QED BY <1>2, <1>7, <1>8

\* The witnesses known after an opcode: those it writes, or the only unknown of an equation,
\* for which it can be solved.
LEMMA KnownAfter ==
    ASSUME NEW c, IsSequence(c.opcodes), Translates(c), NEW k \in DOMAIN c.opcodes
    PROVE  LET op == c.opcodes[k]
               old == WriterAfter(c, k - 1).known
               unknown == CollectWitnesses(op.e) \ old
           IN  /\ k - 1 \in 0 .. Len(c.opcodes) /\ k \in Nat \ {0}
               /\ op.op # "AssertZero" => WriterAfter(c, k).known = old \cup Outputs(op)
               /\ op.op = "AssertZero" =>
                     /\ WriterAfter(c, k).known = old \cup unknown
                     /\ ~(Cardinality(unknown) > 1) /\ \A w \in unknown : ~Unsolvable(op.e, w)
               /\ op.op = "BrilligCall" =>
                     \A x \in ToSet(op.ins) :
                        x.kind = "MemoryArray" => x.block \in WriterAfter(c, k - 1).blocks
               /\ WriterAfter(c, k).blocks \subseteq WriterAfter(c, k - 1).blocks \cup MadeBy(op)
<1> DEFINE wr == WriterAfter(c, k - 1)
           op == c.opcodes[k]
           next == WriterAfter(c, k)
           known == wr.known
           blocks == wr.blocks
           unknown == CollectWitnesses(op.e) \ known
           hard == Cardinality(unknown) > 1 \/ \E w \in unknown : Unsolvable(op.e, w)
           missing == \E x \in ToSet(op.ins) : x.kind = "MemoryArray" /\ x.block \notin blocks
<1>1. /\ k \in Nat \ {0} /\ k - 1 \in Nat /\ k - 1 \in 0 .. Len(c.opcodes)
      /\ k \in 0 .. Len(c.opcodes) /\ (k - 1) + 1 = k
  BY DEF IsSequence
<1>2. next = EmitCompute(wr, op)
  BY <1>1, WriterSteps
<1>3. wr.ok /\ next.ok
  BY <1>1, WriterIsOk
<1>4. PICK W, B : wr \in Writers(W, B)
  BY <1>1, WriterIsOk
<1>5. next.blocks \subseteq blocks \cup MadeBy(op)
  <2> DEFINE V == W \cup Learnt(op)
             C == B \cup MadeBy(op)
  <2>1. wr \in Writers(V, C)
    BY <1>4 DEF Writers
  <2>2. Learnt(op) \subseteq V /\ MadeBy(op) \subseteq C
    OBVIOUS
  <2> HIDE DEF op, V, C, wr, next
  <2>3. LET after == EmitCompute(wr, op) IN after.blocks \subseteq wr.blocks \cup MadeBy(op)
    BY <2>1, <2>2, EmitStep
  <2> QED BY <1>2, <2>3
<1>7. next = CASE op.op = "AssertZero" -> EmitAssertZero(wr, op.e)
               [] op.op = "MemoryInit" -> [wr EXCEPT !.blocks = @ \cup {op.block}]
               [] op.op = "MemoryOp" -> EmitMemoryOp(wr, op)
               [] op.op = "BrilligCall" -> EmitBrilligCall(wr, op)
               [] OTHER -> Know(wr, Outputs(op))
  <2>1. EmitCompute(wr, op) =
           CASE ~wr.ok -> wr
             [] wr.ok /\ op.op = "AssertZero" -> EmitAssertZero(wr, op.e)
             [] wr.ok /\ op.op = "MemoryInit" -> [wr EXCEPT !.blocks = @ \cup {op.block}]
             [] wr.ok /\ op.op = "MemoryOp" -> EmitMemoryOp(wr, op)
             [] wr.ok /\ op.op = "BrilligCall" -> EmitBrilligCall(wr, op)
             [] OTHER -> Know(wr, Outputs(op))
    BY DEF EmitCompute
  <2> HIDE DEF wr, op, next
  <2> QED BY <1>2, <1>3, <2>1
<1>8. /\ \A ws : Know(wr, ws).known = known \cup ws
      /\ Refuse(wr).ok = FALSE
      /\ [wr EXCEPT !.blocks = @ \cup {op.block}].known = known
  <2> DEFINE bs == blocks \cup {op.block}
  <2> HIDE DEF wr, bs
  <2>1. ASSUME NEW ws PROVE Know(wr, ws).known = wr.known \cup ws
    BY <1>4 DEF Writers, Know
  <2>2. Refuse(wr).ok = FALSE
    BY <1>4 DEF Writers, Refuse
  <2>3. [wr EXCEPT !.blocks = bs].known = wr.known
    BY <1>4 DEF Writers
  <2> QED BY <2>1, <2>2, <2>3 DEF bs
<1>11. /\ EmitAssertZero(wr, op.e) = IF hard THEN Refuse(wr) ELSE Know(wr, unknown)
       /\ EmitMemoryOp(wr, op) = IF op.block \in blocks THEN Know(wr, Outputs(op)) ELSE Refuse(wr)
       /\ EmitBrilligCall(wr, op) = IF missing THEN Refuse(wr) ELSE Know(wr, Outputs(op))
  BY DEF EmitAssertZero, EmitMemoryOp, EmitBrilligCall
<1>12. op.op = "MemoryInit" => Outputs(op) = {}
  BY DEF Outputs
<1> HIDE DEF hard, missing
<1>13. /\ op.op # "AssertZero" => next.known = known \cup Outputs(op)
       /\ op.op = "AssertZero" => next.known = known \cup unknown /\ ~hard
       /\ op.op = "BrilligCall" => ~missing
  <2> HIDE DEF wr, next, known, blocks, unknown, op
  <2>1. CASE op.op = "AssertZero"
    BY <1>3, <1>7, <1>8, <1>11, <2>1
  <2>2. CASE op.op = "MemoryInit"
    <3>1. next = [wr EXCEPT !.blocks = @ \cup {op.block}]
      BY <1>7, <2>2
    <3>2. next.known = known
      BY <1>8, <3>1
    <3> QED BY <1>12, <2>2, <3>2
  <2>3. CASE op.op = "MemoryOp"
    BY <1>3, <1>7, <1>8, <1>11, <2>3
  <2>4. CASE op.op = "BrilligCall"
    BY <1>3, <1>7, <1>8, <1>11, <2>4
  <2>5. CASE op.op \notin {"AssertZero", "MemoryInit", "MemoryOp", "BrilligCall"}
    BY <1>3, <1>7, <1>8, <1>11, <2>5
  <2> QED BY <2>1, <2>2, <2>3, <2>4, <2>5
<1> QED BY <1>1, <1>5, <1>13 DEF hard, missing

\* A block that the writer has made was initialised before.
LEMMA WriterBlocks ==
    ASSUME NEW c, IsSequence(c.opcodes), Translates(c), NEW k \in 0 .. Len(c.opcodes)
    PROVE  WriterAfter(c, k).blocks \subseteq BlocksBefore(c.opcodes, k + 1)
<1> DEFINE n == Len(c.opcodes)
           S == {m \in 0 .. n : WriterAfter(c, m).blocks \subseteq BlocksBefore(c.opcodes, m + 1)}
<1>1. n \in Nat /\ DOMAIN c.opcodes = 1 .. n
  BY DEF IsSequence
<1>2. 0 \in S
  <2>1. WriterAfter(c, 0).blocks = {}
    BY WriterSteps DEF Writer
  <2> QED BY <1>1, <2>1
<1>3. ASSUME NEW m \in 0 .. n - 1, m \in S PROVE m + 1 \in S
  <2>1. m + 1 \in DOMAIN c.opcodes /\ (m + 1) - 1 = m /\ m + 1 \in Nat \ {0} /\ m + 1 \in 0 .. n
    BY <1>1
  <2>2. WriterAfter(c, m + 1).blocks
          \subseteq WriterAfter(c, (m + 1) - 1).blocks \cup MadeBy(c.opcodes[m + 1])
    BY <2>1, KnownAfter
  <2>3. BlocksBefore(c.opcodes, (m + 1) + 1)
          = BlocksBefore(c.opcodes, m + 1) \cup MadeBy(c.opcodes[m + 1])
    BY <2>1, BlocksGrow
  <2>4. WriterAfter(c, m).blocks \subseteq BlocksBefore(c.opcodes, m + 1)
    BY <1>3
  <2> QED BY <2>1, <2>2, <2>3, <2>4
<1> HIDE DEF n
<1>4. \A m \in 0 .. n : m \in S
  <2> HIDE DEF S
  <2> QED BY <1>1, <1>2, <1>3, UpToInduction
<1> QED BY <1>4 DEF n
---------------------------------------------------------------------------
\* The inductive invariant

\* The members that have been written: the solved witnesses that are not inputs.
Solved(c, v) == [w \in DOMAIN v \ Params(c) |-> v[w]]

\* A frame of a running @compute knows the witnesses that the writer knew at this opcode.
ComputeFits(cs, f) ==
    /\ f = [c |-> f.c, pc |-> f.pc, vals |-> f.vals,
            self |-> [w |-> Solved(cs[f.c], f.vals), subs |-> f.self.subs],
            mem |-> f.mem, ref |-> f.ref]
    /\ f.c \in DOMAIN cs /\ f.pc \in 1 .. Len(cs[f.c].opcodes) + 1
    /\ IsValuation(f.vals) /\ Params(cs[f.c]) \subseteq DOMAIN f.vals
    /\ DOMAIN f.vals = WriterAfter(cs[f.c], f.pc - 1).known
    /\ MemoryFits(cs[f.c].opcodes, f.pc, f.mem)
    /\ IsSolver(f.ref)

\* ACVM has the same witnesses and the same memory.
Mirrors(f) == f.ref.sol = f.vals /\ f.ref.mem = f.mem

\* ACVM executes the program in the first k frames.
Solving(fs, k) == \A j \in 1 .. k : fs[j].ref.st = "solving"

\* A caller waits at a Call; ACVM has asked the callee when the predicate is one.
Awaits(cs, f, g) ==
    LET op == cs[f.c].opcodes[f.pc]
    IN  /\ f.pc \in DOMAIN cs[f.c].opcodes /\ op.op = "Call" /\ g.c = op.id
        /\ Support(op.pred) \subseteq DOMAIN f.vals
Asked(cs, f, g) ==
    LET p == Value(cs[f.c].opcodes[f.pc].pred, f.vals)
    IN  /\ g.ref.st = "skipped" => p = 0
        /\ g.ref.st = "solving" => p = 1

ComputeStackFits(cs, fs) ==
    /\ fs \in Seq(ToSet(fs)) /\ fs # <<>>
    /\ \A k \in 1 .. Len(fs) : ComputeFits(cs, fs[k]) /\ (Solving(fs, k) => Mirrors(fs[k]))
    /\ \A k \in 1 .. Len(fs) - 1 :
          Awaits(cs, fs[k], fs[k + 1]) /\ (Solving(fs, k) => Asked(cs, fs[k], fs[k + 1]))

\* Every circuit is translated.
AllTranslate == \A c \in DOMAIN Circuits : Translates(Circuits[c])

CInv ==
    /\ phase = "compute" => AllTranslate
    /\ phase = "compute" /\ outcome = "ok" => ComputeStackFits(Circuits, stack)
    /\ FollowsAcvm /\ SameMemory

---------------------------------------------------------------------------
\* The stack

\* The frame at n becomes the top frame h, in the same circuit; those above it are dropped.
LEMMA TopChanges ==
    ASSUME NEW cs, NEW fs, ComputeStackFits(cs, fs), NEW n \in 1 .. Len(fs),
           NEW h, ComputeFits(cs, h), h.c = fs[n].c, Continues(fs[n].ref, h.ref),
           NEW gs, gs = [k \in 1 .. n |-> IF k = n THEN h ELSE fs[k]],
           Solving(gs, n) => Mirrors(h)
    PROVE  ComputeStackFits(cs, gs) /\ Len(gs) = n
<1>1. Len(fs) \in Nat /\ n \in Nat \ {0} /\ n <= Len(fs)
  BY DEF ComputeStackFits
<1>2. /\ DOMAIN gs = 1 .. n /\ gs[n] = h
      /\ \A k \in 1 .. n - 1 : k \in 1 .. n /\ k \in 1 .. Len(fs) /\ k \in 1 .. Len(fs) - 1
                               /\ k + 1 \in 1 .. n /\ gs[k] = fs[k]
  BY <1>1
<1>3. gs \in Seq(ToSet(gs)) /\ Len(gs) = n /\ gs # <<>>
  <2>1. \A k \in 1 .. n : gs[k] \in ToSet(gs)
    BY <1>2 DEF ToSet
  <2>2. gs \in [1 .. n -> ToSet(gs)]
    BY <1>2, <2>1
  <2> QED BY <1>1, <2>2, ByElements
<1>4. ASSUME NEW k \in 1 .. n - 1, Solving(gs, k) PROVE Solving(fs, k)
  <2>1. \A j \in 1 .. k : j \in 1 .. n - 1
    BY <1>1
  <2> QED BY <1>2, <1>4, <2>1 DEF Solving
<1>5. ASSUME NEW k \in 1 .. n PROVE ComputeFits(cs, gs[k]) /\ (Solving(gs, k) => Mirrors(gs[k]))
  <2>1. CASE k = n
    BY <1>2, <2>1
  <2>2. CASE k # n
    <3>1. k \in 1 .. n - 1
      BY <1>1, <2>2
    <3> QED BY <1>2, <1>4, <3>1 DEF ComputeStackFits
  <2> QED BY <2>1, <2>2
<1>6. ASSUME NEW k \in 1 .. n - 1
      PROVE  Awaits(cs, gs[k], gs[k + 1]) /\ (Solving(gs, k) => Asked(cs, gs[k], gs[k + 1]))
  <2>1. Awaits(cs, fs[k], fs[k + 1]) /\ (Solving(gs, k) => Asked(cs, fs[k], fs[k + 1]))
    BY <1>2, <1>4 DEF ComputeStackFits
  <2>2. CASE k + 1 # n
    <3>1. k + 1 \in 1 .. n - 1
      BY <1>1, <2>2
    <3> QED BY <1>2, <2>1, <3>1
  <2>3. CASE k + 1 = n
    <3>1. gs[k + 1] = h /\ fs[k + 1] = fs[n] /\ gs[k] = fs[k]
      BY <1>2, <2>3
    <3>2. h.ref.st \in {fs[n].ref.st, "failed", "stalled"}
      BY DEF Continues
    <3> QED BY <2>1, <3>1, <3>2 DEF Awaits, Asked
  <2> QED BY <2>2, <2>3
<1> QED BY <1>3, <1>5, <1>6 DEF ComputeStackFits

\* A callee's frame is added.
LEMMA CalleeAdded ==
    ASSUME NEW cs, NEW fs, ComputeStackFits(cs, fs),
           NEW h, ComputeFits(cs, h), Awaits(cs, fs[Len(fs)], h),
           Solving(fs, Len(fs)) => Asked(cs, fs[Len(fs)], h),
           Solving(fs, Len(fs)) /\ h.ref.st = "solving" => Mirrors(h)
    PROVE  ComputeStackFits(cs, Append(fs, h))
<1> DEFINE n == Len(fs)
           gs == Append(fs, h)
<1>1. fs \in Seq(ToSet(fs)) /\ n \in Nat \ {0} /\ DOMAIN fs = 1 .. n
  BY DEF ComputeStackFits
<1>2. /\ DOMAIN gs = 1 .. n + 1 /\ gs[n + 1] = h
      /\ \A k \in 1 .. n : gs[k] = fs[k]
  BY <1>1
<1>3. gs \in Seq(ToSet(fs) \cup {h})
  BY <1>1
<1>4. Awaits(cs, fs[n], h) /\ (Solving(fs, n) => Asked(cs, fs[n], h))
      /\ (Solving(fs, n) /\ h.ref.st = "solving" => Mirrors(h))
  OBVIOUS
<1> HIDE DEF gs, n
<1>5. gs \in Seq(ToSet(gs)) /\ Len(gs) = n + 1 /\ gs # <<>>
  <2>1. \A k \in 1 .. n + 1 : gs[k] \in ToSet(gs)
    BY <1>2 DEF ToSet
  <2>2. gs = [k \in 1 .. n + 1 |-> gs[k]]
    BY <1>2, <1>3
  <2>3. gs \in [1 .. n + 1 -> ToSet(gs)]
    BY <2>1, <2>2
  <2>4. n + 1 \in Nat
    BY <1>1
  <2>5. gs \in Seq(ToSet(gs)) /\ Len(gs) = n + 1
    BY <2>3, <2>4, ByElements
  <2> QED BY <1>1, <2>5
<1>6. ASSUME NEW k \in 1 .. n PROVE Solving(gs, k) <=> Solving(fs, k)
  <2>1. \A j \in 1 .. k : j \in 1 .. n
    BY <1>1
  <2> QED BY <1>2, <2>1 DEF Solving
<1>7. ASSUME NEW k \in 1 .. n + 1 PROVE ComputeFits(cs, gs[k]) /\ (Solving(gs, k) => Mirrors(gs[k]))
  <2>1. CASE k \in 1 .. n
    BY <1>2, <1>6, <2>1 DEF ComputeStackFits, n
  <2>2. CASE k = n + 1
    <3>1. Solving(gs, k) => Solving(gs, n) /\ h.ref.st = "solving"
      <4>1. \A j \in 1 .. n : j \in 1 .. k
        BY <1>1, <2>2
      <4>2. k \in 1 .. k /\ gs[k] = h
        BY <1>1, <1>2, <2>2
      <4> QED BY <4>1, <4>2 DEF Solving
    <3>2. n \in 1 .. n
      BY <1>1
    <3> QED BY <1>2, <1>4, <1>6, <2>2, <3>1, <3>2
  <2>3. k \in 1 .. n \/ k = n + 1
    BY <1>1
  <2> QED BY <2>1, <2>2, <2>3
<1>8. ASSUME NEW k \in 1 .. (n + 1) - 1
      PROVE  Awaits(cs, gs[k], gs[k + 1]) /\ (Solving(gs, k) => Asked(cs, gs[k], gs[k + 1]))
  <2>0. k \in 1 .. n
    BY <1>1
  <2>1. CASE k = n
    BY <1>2, <1>4, <1>6, <2>0, <2>1
  <2>2. CASE k # n
    <3>1. k \in 1 .. n - 1 /\ k + 1 \in 1 .. n
      BY <1>1, <2>0, <2>2
    <3>2. gs[k] = fs[k] /\ gs[k + 1] = fs[k + 1]
      BY <1>2, <2>0, <3>1
    <3> QED BY <1>6, <2>0, <3>1, <3>2 DEF ComputeStackFits, n
  <2> QED BY <2>1, <2>2
<1> QED BY <1>5, <1>7, <1>8 DEF ComputeStackFits, gs, n

\* While the stack fits, @compute and ACVM agree.
LEMMA FitsAgrees ==
    ASSUME NEW cs, NEW fs, ComputeStackFits(cs, fs),
           \A k \in DOMAIN fs : fs[k].ref.st = "solving"
    PROVE  \A k \in DOMAIN fs : Agree(fs[k]) /\ fs[k].mem = fs[k].ref.mem /\ Mirrors(fs[k])
<1>1. DOMAIN fs = 1 .. Len(fs) /\ Len(fs) \in Nat
  BY DEF ComputeStackFits
<1> SUFFICES ASSUME NEW k \in DOMAIN fs
             PROVE  Agree(fs[k]) /\ fs[k].mem = fs[k].ref.mem /\ Mirrors(fs[k])
  OBVIOUS
<1>2. Solving(fs, k)
  <2>1. \A j \in 1 .. k : j \in DOMAIN fs
    BY <1>1
  <2> QED BY <2>1 DEF Solving
<1>3. Mirrors(fs[k])
  BY <1>1, <1>2 DEF ComputeStackFits
<1> QED BY <1>3 DEF Agree, Mirrors

---------------------------------------------------------------------------
\* A step of @compute

\* What is known of the stack.
LEMMA ComputeFacts ==
    ASSUME IInv, CInv, Running("compute")
    PROVE  /\ WellFormed(Circuits) /\ ComputeStackFits(Circuits, stack)
           /\ \A c \in DOMAIN Circuits : Translates(Circuits[c])
           /\ Len(stack) \in 1 .. Len(stack) /\ Top = stack[Len(stack)] /\ DOMAIN stack = 1 .. Len(stack)
           /\ ComputeFits(Circuits, Top) /\ (Solving(stack, Len(stack)) => Mirrors(Top))
           /\ outcome = "ok" /\ phase = "compute" /\ prog \in Programs
           /\ inputs \in [1 .. Cardinality(Params(Circuits[1])) -> F]
<1>1. phase = "compute" /\ outcome = "ok"
  BY DEF Running
<1>2. ComputeStackFits(Circuits, stack) /\ WellFormed(Circuits)
  BY <1>1 DEF IInv, CInv
<1>3. Len(stack) \in 1 .. Len(stack) /\ DOMAIN stack = 1 .. Len(stack)
  BY <1>2 DEF ComputeStackFits
<1>4. ComputeFits(Circuits, Top) /\ (Solving(stack, Len(stack)) => Mirrors(Top))
  BY <1>2, <1>3 DEF ComputeStackFits, Top
<1> QED BY <1>1, <1>2, <1>3, <1>4 DEF IInv, CInv, Top, AllTranslate

\* What is known of the running opcode.
LEMMA OpFacts ==
    ASSUME IInv, CInv, Running("compute"), ~AtEnd(Top)
    PROVE  LET c == Circuits[Top.c]
           IN  /\ Top.c \in DOMAIN Circuits /\ IsCircuit(c) /\ IsSequence(c.opcodes) /\ Translates(c)
               /\ Top.pc \in DOMAIN c.opcodes /\ Op = c.opcodes[Top.pc] /\ Op \in ToSet(c.opcodes)
               /\ Top.pc \in Nat \ {0} /\ Top.pc + 1 \in 1 .. Len(c.opcodes) + 1
               /\ Top.pc - 1 \in 0 .. Len(c.opcodes) /\ (Top.pc - 1) + 1 = Top.pc
               /\ IsOpcode(Op) /\ Checked(Circuits, c.opcodes, Top.pc) /\ Op \in AllOpcodes
               /\ ~HandlerRefuses(c, Op) /\ ~VerifierRefuses(c, Op)
<1> DEFINE c == Circuits[Top.c]
<1>1. /\ WellFormed(Circuits) /\ ComputeFits(Circuits, Top) /\ prog \in Programs
      /\ \A i \in DOMAIN Circuits : Translates(Circuits[i])
  BY ComputeFacts
<1>2. Top.c \in DOMAIN Circuits /\ Top.pc \in 1 .. Len(c.opcodes) + 1
  BY <1>1 DEF ComputeFits
<1>3. IsCircuit(c) /\ IsSequence(c.opcodes) /\ Translates(c)
  BY <1>1, <1>2 DEF WellFormed, IsCircuit
<1>4. Top.pc \in DOMAIN c.opcodes /\ Op = c.opcodes[Top.pc]
  <2>1. ~(Top.pc > Len(c.opcodes))
    BY DEF AtEnd, Code
  <2>2. Op = c.opcodes[Top.pc]
    BY DEF Op, Code
  <2> QED BY <1>2, <1>3, <2>1, <2>2 DEF IsSequence
<1>5. IsOpcode(Op) /\ Checked(Circuits, c.opcodes, Top.pc)
  BY <1>1, <1>2, <1>3, <1>4 DEF WellFormed, IsCircuit
<1>6. Op \in ToSet(c.opcodes)
  BY <1>4 DEF ToSet
<1>7. Op \in AllOpcodes
  <2>1. c \in ToSet(prog.circuits)
    BY <1>2 DEF Circuits, ToSet
  <2> HIDE DEF c
  <2> QED BY <1>1, <1>6, <2>1 DEF AllOpcodes
<1>8. ~HandlerRefuses(c, Op) /\ ~VerifierRefuses(c, Op)
  BY <1>3, <1>6 DEF Translates
<1>9. /\ Top.pc \in Nat \ {0} /\ Top.pc + 1 \in 1 .. Len(c.opcodes) + 1
      /\ Top.pc - 1 \in 0 .. Len(c.opcodes) /\ (Top.pc - 1) + 1 = Top.pc
  BY <1>2, <1>3, <1>4 DEF IsSequence
<1> QED BY <1>2, <1>3, <1>4, <1>5, <1>6, <1>7, <1>8, <1>9

\* What the next frame is: the values v, the memory mem, and ACVM at ref.
Next_(f, v, subs, mem, ref) ==
    [c |-> f.c, pc |-> f.pc + 1, vals |-> v,
     self |-> [w |-> Solved(Circuits[f.c], v), subs |-> subs], mem |-> mem, ref |-> ref]

\* The writer of the next opcode.
KnowsNext(f, v) == DOMAIN v = WriterAfter(Circuits[f.c], f.pc).known

\* The next frame fits.
LEMMA NextFits ==
    ASSUME NEW f, ComputeFits(Circuits, f), f.pc \in DOMAIN Circuits[f.c].opcodes,
           IsSequence(Circuits[f.c].opcodes),
           NEW v, IsValuation(v), DOMAIN f.vals \subseteq DOMAIN v, KnowsNext(f, v),
           NEW subs, NEW mem, MemoryFits(Circuits[f.c].opcodes, f.pc + 1, mem),
           NEW ref, IsSolver(ref)
    PROVE  LET h == Next_(f, v, subs, mem, ref)
           IN  /\ ComputeFits(Circuits, h) /\ h.c = f.c /\ h.ref = ref
               /\ h.vals = v /\ h.mem = mem
<1> DEFINE h == Next_(f, v, subs, mem, ref)
           c == f.c
           pc == f.pc + 1
           w == Solved(Circuits[c], v)
           self == [w |-> w, subs |-> subs]
<1>1. h = [c |-> c, pc |-> pc, vals |-> v, self |-> self, mem |-> mem, ref |-> ref]
  BY DEF Next_
<1>2. self.w = w /\ self.subs = subs
  <2> HIDE DEF w
  <2> QED OBVIOUS
<1>3. f.pc \in Nat /\ pc \in 1 .. Len(Circuits[c].opcodes) + 1 /\ pc - 1 = f.pc
  BY DEF IsSequence
<1>4. c \in DOMAIN Circuits /\ Params(Circuits[c]) \subseteq DOMAIN v
  BY DEF ComputeFits
<1>5. DOMAIN v = WriterAfter(Circuits[c], pc - 1).known
  BY <1>3 DEF KnowsNext
<1>6. MemoryFits(Circuits[c].opcodes, pc, mem)
  OBVIOUS
<1> HIDE DEF h, c, pc, w, self
<1>7. h.c = c /\ h.pc = pc /\ h.vals = v /\ h.self = self /\ h.mem = mem /\ h.ref = ref
  BY <1>1
<1>8. h = [c |-> h.c, pc |-> h.pc, vals |-> h.vals,
           self |-> [w |-> Solved(Circuits[h.c], h.vals), subs |-> h.self.subs],
           mem |-> h.mem, ref |-> h.ref]
  BY <1>1, <1>2, <1>7 DEF self, w
<1>9. ComputeFits(Circuits, h)
  BY <1>3, <1>4, <1>5, <1>6, <1>7, <1>8 DEF ComputeFits
<1> QED BY <1>7, <1>9 DEF h, c

\* What translation accepts depends on the program only.
LEMMA AllTranslateKeeps == ASSUME prog' = prog PROVE AllTranslate' <=> AllTranslate
BY DEF AllTranslate, Translates, HandlerRefuses, VerifierRefuses, Circuits

\* A step to a stack that fits keeps the invariant.
LEMMA OkKeeps ==
    ASSUME CInv, phase = "compute", prog' = prog, phase' = phase, outcome' = "ok",
           ComputeStackFits(Circuits, stack')
    PROVE  CInv'
<1> DEFINE fs == stack'
<1>1. Circuits' = Circuits
  BY DEF Circuits
<1>2. ComputeStackFits(Circuits, fs)
  OBVIOUS
<1> HIDE DEF fs
<1>3. ASSUME \A k \in DOMAIN fs : fs[k].ref.st = "solving"
      PROVE  \A k \in DOMAIN fs : Agree(fs[k]) /\ fs[k].mem = fs[k].ref.mem
  BY <1>2, <1>3, FitsAgrees
<1>4. FollowsAcvm' /\ SameMemory'
  BY <1>3 DEF FollowsAcvm, SameMemory, AcvmSolving, fs
<1> QED BY <1>1, <1>4, AllTranslateKeeps DEF CInv

\* The code of an opcode goes on to the next.
LEMMA StepsOn ==
    ASSUME IInv, CInv, Running("compute"), ~AtEnd(Top), NEW v, IsValuation(v),
           DOMAIN Top.vals \subseteq DOMAIN v, KnowsNext(Top, v),
           NEW mem, MemoryFits(Circuits[Top.c].opcodes, Top.pc + 1, mem),
           stack' = [stack EXCEPT ![Len(stack)] =
                        Next_(Top, v, Top.self.subs, mem, Reference(Top, Op))],
           outcome' = "ok", prog' = prog, phase' = phase,
           Mirrors(Top) /\ Top.ref.st = "solving" /\ Reference(Top, Op).st = "solving" =>
              Reference(Top, Op).sol = v /\ Reference(Top, Op).mem = mem
    PROVE  CInv'
<1> DEFINE n == Len(stack)
           r == Reference(Top, Op)
           h == Next_(Top, v, Top.self.subs, mem, r)
           fs == stack
           gs == stack'
<1>1. /\ ComputeStackFits(Circuits, fs) /\ n \in 1 .. n /\ Top = fs[n] /\ DOMAIN fs = 1 .. n
      /\ ComputeFits(Circuits, Top) /\ (Solving(fs, n) => Mirrors(Top)) /\ phase = "compute"
  BY ComputeFacts
<1>2. /\ Top.pc \in DOMAIN Circuits[Top.c].opcodes /\ IsSequence(Circuits[Top.c].opcodes)
      /\ IsOpcode(Op)
  BY OpFacts
<1>3. Continues(Top.ref, r) /\ IsSolver(r)
  BY <1>1, <1>2, ReferenceContinues DEF ComputeFits, Continues
<1>4. gs = [k \in 1 .. n |-> IF k = n THEN h ELSE fs[k]]
  BY <1>1
<1>5. Mirrors(Top) /\ Top.ref.st = "solving" /\ r.st = "solving" => r.sol = v /\ r.mem = mem
  OBVIOUS
<1>6. /\ ComputeFits(Circuits, h) /\ h.c = Top.c /\ h.ref = r /\ h.vals = v /\ h.mem = mem
  <2> HIDE DEF r, h
  <2> DEFINE subs == Top.self.subs
             f == Top
  <2>1. /\ ComputeFits(Circuits, f) /\ f.pc \in DOMAIN Circuits[f.c].opcodes
        /\ IsSequence(Circuits[f.c].opcodes) /\ IsValuation(v) /\ DOMAIN f.vals \subseteq DOMAIN v
        /\ KnowsNext(f, v) /\ MemoryFits(Circuits[f.c].opcodes, f.pc + 1, mem) /\ IsSolver(r)
    BY <1>1, <1>2, <1>3
  <2> HIDE DEF f, subs
  <2>2. LET g == Next_(f, v, subs, mem, r)
        IN  ComputeFits(Circuits, g) /\ g.c = f.c /\ g.ref = r /\ g.vals = v /\ g.mem = mem
    BY <2>1, NextFits
  <2> QED BY <2>2 DEF h, f, subs
<1>7. ASSUME Solving(gs, n) PROVE Mirrors(h)
  <2> HIDE DEF h, r, gs
  <2>1. gs[n] = h /\ \A k \in 1 .. n - 1 : k \in 1 .. n /\ gs[k] = fs[k]
    BY <1>1, <1>4
  <2>2. h.ref.st = "solving" /\ Top.ref.st = "solving"
    <3>1. r.st = "solving"
      BY <1>1, <1>6, <1>7, <2>1 DEF Solving
    <3> QED BY <1>3, <1>6, <3>1 DEF Continues
  <2>3. Solving(fs, n)
    <3> SUFFICES ASSUME NEW k \in 1 .. n PROVE fs[k].ref.st = "solving"
      BY DEF Solving
    <3>1. CASE k = n
      BY <1>1, <2>2, <3>1
    <3>2. CASE k # n
      <4>1. k \in 1 .. n - 1
        <5> HIDE DEF n
        <5> QED BY <1>1, <3>2
      <4>2. gs[k] = fs[k] /\ k \in 1 .. n
        BY <2>1, <4>1
      <4> QED BY <1>7, <4>2 DEF Solving
    <3> QED BY <3>1, <3>2
  <2> QED BY <1>1, <1>5, <1>6, <2>2, <2>3 DEF Mirrors
<1>8. ComputeStackFits(Circuits, gs)
  <2>1. h.c = fs[n].c /\ Continues(fs[n].ref, h.ref)
    BY <1>1, <1>3, <1>6
  <2>2. n \in 1 .. Len(fs)
    BY <1>1
  <2> HIDE DEF h, r, gs, n, fs
  <2> QED BY <1>1, <1>4, <1>6, <1>7, <2>1, <2>2, TopChanges
<1> QED BY <1>1, <1>8, OkKeeps

\* A step that ends the run changes no frame but for ACVM.
LEMMA StoppedIs ==
    ASSUME IInv, CInv, Running("compute"), NEW out, out # "ok", Replace(Top, out)
    PROVE  \E g : /\ stack' = [stack EXCEPT ![Len(stack)] = g]
                  /\ g.c = Top.c /\ g.pc = Top.pc /\ g.vals = Top.vals /\ g.self = Top.self
                  /\ g.mem = Top.mem /\ g.ref = Reference(Top, Op)
<1> DEFINE f == Top
           r == Reference(Top, Op)
           c == f.c
           pc == f.pc
           vals == f.vals
           self == [w |-> Solved(Circuits[f.c], f.vals), subs |-> f.self.subs]
           mem == f.mem
           old == f.ref
           f1 == [f EXCEPT !.ref = r]
           g == [f1 EXCEPT !.pc = pc]
<1>1. f = [c |-> c, pc |-> pc, vals |-> vals, self |-> self, mem |-> mem, ref |-> old]
  BY ComputeFacts DEF ComputeFits
<1>2. stack' = [stack EXCEPT ![Len(stack)] = g]
  <2> HIDE DEF r
  <2> QED BY DEF Replace, r
<1> HIDE DEF f, c, pc, vals, self, mem, old, r
<1>3. f1 = [c |-> c, pc |-> pc, vals |-> vals, self |-> self, mem |-> mem, ref |-> r]
  BY <1>1
<1> HIDE DEF f1
<1>4. g = [c |-> c, pc |-> pc, vals |-> vals, self |-> self, mem |-> mem, ref |-> r]
  BY <1>3
<1> HIDE DEF g
<1>5. g.c = f.c /\ g.pc = f.pc /\ g.vals = f.vals /\ g.self = f.self /\ g.mem = f.mem /\ g.ref = r
  BY <1>1, <1>4
<1> QED BY <1>2, <1>5 DEF f, r

\* The run stops at an opcode: ACVM fails too, or skips the call.
LEMMA Stops ==
    ASSUME IInv, CInv, Running("compute"), ~AtEnd(Top), NEW out, out # "ok", Replace(Top, out),
           Mirrors(Top) /\ Top.ref.st = "solving" /\ Reference(Top, Op).st = "solving" =>
              InSkippedCall /\ Reference(Top, Op).mem = Top.mem
    PROVE  CInv'
<1> DEFINE n == Len(stack)
           r == Reference(Top, Op)
           fs == stack
           gs == stack'
<1>1. /\ ComputeStackFits(Circuits, fs) /\ n \in 1 .. n /\ Top = fs[n] /\ DOMAIN fs = 1 .. n
      /\ ComputeFits(Circuits, Top) /\ (Solving(fs, n) => Mirrors(Top)) /\ phase = "compute"
  BY ComputeFacts
<1>2. Continues(Top.ref, r)
  BY <1>1, OpFacts, ReferenceContinues DEF ComputeFits
<1>3. outcome' = out /\ prog' = prog /\ phase' = phase
  BY DEF Replace
<1>4. Circuits' = Circuits
  BY <1>3 DEF Circuits
<1>5. PICK g : /\ gs = [fs EXCEPT ![n] = g]
               /\ g.c = Top.c /\ g.pc = Top.pc /\ g.vals = Top.vals /\ g.self = Top.self
               /\ g.mem = Top.mem /\ g.ref = r
  BY StoppedIs
<1>6. gs = [k \in 1 .. n |-> IF k = n THEN g ELSE fs[k]]
  BY <1>1, <1>5
<1>7. DOMAIN gs = 1 .. n /\ gs[n] = g /\ Len(gs) = n
      /\ \A k \in 1 .. n : k # n => gs[k] = fs[k]
  <2>1. n \in Nat
    BY <1>1 DEF ComputeStackFits
  <2> HIDE DEF gs, fs, n
  <2> QED BY <1>1, <1>6, <2>1
<1>8. ASSUME AcvmSolving'
      PROVE  InSkippedCall /\ \A k \in 1 .. n : gs[k].mem = gs[k].ref.mem
  <2>0. \A k \in 1 .. n : gs[k].ref.st = "solving"
    BY <1>7, <1>8 DEF AcvmSolving
  <2>1. r.st = "solving" /\ Top.ref.st = "solving"
    BY <1>1, <1>2, <1>5, <1>7, <2>0 DEF Continues
  <2>2. \A k \in DOMAIN fs : fs[k].ref.st = "solving"
    BY <1>1, <1>7, <2>0, <2>1
  <2>3. \A k \in DOMAIN fs : fs[k].mem = fs[k].ref.mem /\ Mirrors(fs[k])
    <3> HIDE DEF fs
    <3> QED BY <1>1, <2>2, FitsAgrees
  <2>4. Mirrors(Top)
    BY <1>1, <2>3
  <2>5. InSkippedCall /\ r.mem = Top.mem
    BY <2>1, <2>4
  <2> QED BY <1>1, <1>5, <1>7, <2>3, <2>5
<1>9. Top' = g
  BY <1>7 DEF Top
<1>10. InSkippedCall => InSkippedCall'
  <2>1. AtEnd(Top)' = AtEnd(Top)
    BY <1>4, <1>5, <1>9 DEF AtEnd, Code
  <2>2. Op' = Op
    BY <1>4, <1>5, <1>9 DEF Op, Code
  <2> QED BY <1>5, <1>9, <2>1, <2>2 DEF InSkippedCall
<1>11. FollowsAcvm' /\ SameMemory'
  BY <1>3, <1>7, <1>8, <1>10 DEF FollowsAcvm, SameMemory
<1> QED BY <1>1, <1>3, <1>4, <1>11, AllTranslateKeeps DEF CInv

\* The members follow the values.
LEMMA MembersFollow ==
    ASSUME NEW c, NEW v, NEW g, DOMAIN g \cap Params(c) = {}
    PROVE  Override(Solved(c, v), g) = Solved(c, Override(v, g))
BY DEF Override, Solved

\* A frame whose witnesses change goes on.
WritesMembers(f, vals, w, ref, pc) ==
    [[f EXCEPT !.vals = vals, !.self.w = w] EXCEPT !.ref = ref, !.pc = pc]

LEMMA WitnessesMove ==
    ASSUME NEW f, ComputeFits(Circuits, f), NEW newvals, NEW neww, NEW newref
    PROVE  /\ WritesMembers(f, newvals, neww, newref, f.pc + 1)
                = [c |-> f.c, pc |-> f.pc + 1, vals |-> newvals,
                   self |-> [w |-> neww, subs |-> f.self.subs], mem |-> f.mem, ref |-> newref]
           /\ f.self.w = Solved(Circuits[f.c], f.vals)
<1> DEFINE c == f.c
           pc == f.pc
           vals == f.vals
           w == Solved(Circuits[f.c], f.vals)
           subs == f.self.subs
           self == [w |-> w, subs |-> subs]
           mem == f.mem
           ref == f.ref
           newpc == f.pc + 1
           newself == [w |-> neww, subs |-> subs]
<1>1. f = [c |-> c, pc |-> pc, vals |-> vals, self |-> self, mem |-> mem, ref |-> ref]
  BY DEF ComputeFits
<1>0. [self EXCEPT !.w = neww] = newself /\ self.w = w
  <2> HIDE DEF w, subs
  <2> QED OBVIOUS
<1> HIDE DEF c, pc, vals, w, subs, self, newself, mem, ref, newpc
<1> DEFINE f1 == [f EXCEPT !.vals = newvals]
           f2 == [f1 EXCEPT !.self = newself]
           f3 == [f2 EXCEPT !.ref = newref]
<1>2. f1 = [c |-> c, pc |-> pc, vals |-> newvals, self |-> self, mem |-> mem, ref |-> ref]
  BY <1>1
<1>3. [f EXCEPT !.vals = newvals, !.self.w = neww] = f2
  <2>1. f1.self = self
    BY <1>2
  <2>2. [f EXCEPT !.vals = newvals, !.self.w = neww]
          = [f1 EXCEPT !.self = [f1.self EXCEPT !.w = neww]]
    OBVIOUS
  <2> QED BY <1>0, <2>1, <2>2
<1> HIDE DEF f1
<1>4. f2 = [c |-> c, pc |-> pc, vals |-> newvals, self |-> newself, mem |-> mem, ref |-> ref]
  BY <1>2
<1> HIDE DEF f2
<1>5. f3 = [c |-> c, pc |-> pc, vals |-> newvals, self |-> newself, mem |-> mem, ref |-> newref]
  BY <1>4
<1>6. [f2 EXCEPT !.ref = newref, !.pc = newpc] = [f3 EXCEPT !.pc = newpc]
  OBVIOUS
<1> HIDE DEF f3
<1>7. [f3 EXCEPT !.pc = newpc]
        = [c |-> c, pc |-> newpc, vals |-> newvals, self |-> newself, mem |-> mem, ref |-> newref]
  BY <1>5
<1>8. [[f EXCEPT !.vals = newvals, !.self.w = neww] EXCEPT !.ref = newref, !.pc = newpc]
        = [c |-> c, pc |-> newpc, vals |-> newvals, self |-> newself, mem |-> mem, ref |-> newref]
  BY <1>3, <1>6, <1>7
<1>9. f.self.w = w
  BY <1>0, <1>1
<1> QED BY <1>8, <1>9 DEF WritesMembers, c, newpc, subs, newself, mem, w

\* A frame whose memory changes goes on.
LEMMA MemoryMoves ==
    ASSUME NEW f, ComputeFits(Circuits, f), NEW newmem, NEW newref
    PROVE  [[f EXCEPT !.mem = newmem] EXCEPT !.ref = newref, !.pc = f.pc + 1]
              = Next_(f, f.vals, f.self.subs, newmem, newref)
<1> DEFINE c == f.c
           pc == f.pc
           vals == f.vals
           w == Solved(Circuits[f.c], f.vals)
           subs == f.self.subs
           self == [w |-> w, subs |-> subs]
           mem == f.mem
           ref == f.ref
           newpc == f.pc + 1
<1>1. f = [c |-> c, pc |-> pc, vals |-> vals, self |-> self, mem |-> mem, ref |-> ref]
  BY DEF ComputeFits
<1> HIDE DEF c, pc, vals, w, subs, self, mem, ref, newpc
<1> DEFINE f1 == [f EXCEPT !.mem = newmem]
           f2 == [f1 EXCEPT !.ref = newref]
<1>2. f1 = [c |-> c, pc |-> pc, vals |-> vals, self |-> self, mem |-> newmem, ref |-> ref]
  BY <1>1
<1>3. [[f EXCEPT !.mem = newmem] EXCEPT !.ref = newref, !.pc = newpc] = [f2 EXCEPT !.pc = newpc]
  OBVIOUS
<1> HIDE DEF f1
<1>4. f2 = [c |-> c, pc |-> pc, vals |-> vals, self |-> self, mem |-> newmem, ref |-> newref]
  BY <1>2
<1> HIDE DEF f2
<1>5. [f2 EXCEPT !.pc = newpc]
        = [c |-> c, pc |-> newpc, vals |-> vals, self |-> self, mem |-> newmem, ref |-> newref]
  BY <1>4
<1> QED BY <1>3, <1>5 DEF Next_, c, newpc, vals, self, w, subs

\* A frame goes on.
LEMMA FrameMoves ==
    ASSUME NEW f, ComputeFits(Circuits, f), NEW newref
    PROVE  [f EXCEPT !.ref = newref, !.pc = f.pc + 1] = Next_(f, f.vals, f.self.subs, f.mem, newref)
<1> DEFINE c == f.c
           pc == f.pc
           vals == f.vals
           w == Solved(Circuits[f.c], f.vals)
           subs == f.self.subs
           self == [w |-> w, subs |-> subs]
           mem == f.mem
           ref == f.ref
           newpc == f.pc + 1
<1>1. f = [c |-> c, pc |-> pc, vals |-> vals, self |-> self, mem |-> mem, ref |-> ref]
  BY DEF ComputeFits
<1> HIDE DEF c, pc, vals, w, subs, self, mem, ref, newpc
<1> DEFINE f1 == [f EXCEPT !.ref = newref]
<1>2. f1 = [c |-> c, pc |-> pc, vals |-> vals, self |-> self, mem |-> mem, ref |-> newref]
  BY <1>1
<1>3. [f EXCEPT !.ref = newref, !.pc = newpc] = [f1 EXCEPT !.pc = newpc]
  OBVIOUS
<1> HIDE DEF f1
<1>4. [f1 EXCEPT !.pc = newpc]
        = [c |-> c, pc |-> newpc, vals |-> vals, self |-> self, mem |-> mem, ref |-> newref]
  BY <1>2
<1> QED BY <1>3, <1>4 DEF Next_, c, newpc, vals, self, w, subs, mem

\* What Replace makes of a frame.
LEMMA ReplaceIs ==
    ASSUME NEW f, Replace(f, "ok"), f.pc = Top.pc
    PROVE  /\ stack' = [stack EXCEPT ![Len(stack)] =
                           [f EXCEPT !.ref = Reference(Top, Op), !.pc = Top.pc + 1]]
           /\ outcome' = "ok" /\ prog' = prog /\ phase' = phase
<1> DEFINE r == Reference(Top, Op)
<1>1. [f EXCEPT !.ref = r, !.pc = IF "ok" = "ok" THEN @ + 1 ELSE @]
        = [f EXCEPT !.ref = r, !.pc = Top.pc + 1]
  <2> HIDE DEF r
  <2> DEFINE f1 == [f EXCEPT !.ref = r]
  <2>1. f1.pc = f.pc
    OBVIOUS
  <2>2. [f EXCEPT !.ref = r, !.pc = IF "ok" = "ok" THEN @ + 1 ELSE @] = [f1 EXCEPT !.pc = f1.pc + 1]
    OBVIOUS
  <2>3. [f EXCEPT !.ref = r, !.pc = Top.pc + 1] = [f1 EXCEPT !.pc = Top.pc + 1]
    OBVIOUS
  <2> QED BY <2>1, <2>2, <2>3
<1> HIDE DEF r
<1> QED BY <1>1 DEF Replace, r

\* A memory that an opcode leaves alone fits the next opcode.
LEMMA MemoryStays ==
    ASSUME IInv, CInv, Running("compute"), ~AtEnd(Top), Op.op # "MemoryInit"
    PROVE  MemoryFits(Circuits[Top.c].opcodes, Top.pc + 1, Top.mem)
<1> DEFINE code == Circuits[Top.c].opcodes
           pc == Top.pc
<1>1. Op = code[pc] /\ pc \in Nat \ {0}
  BY OpFacts
<1>2. MadeBy(code[pc]) = {}
  BY <1>1 DEF MadeBy
<1>3. MemoryFits(code, pc, Top.mem)
  BY ComputeFacts DEF ComputeFits
<1> HIDE DEF code, pc
<1>4. BlocksBefore(code, pc + 1) = BlocksBefore(code, pc) \cup MadeBy(code[pc])
  BY <1>1, BlocksGrow
<1>5. MemoryFits(code, pc + 1, Top.mem)
  BY <1>2, <1>3, <1>4 DEF MemoryFits
<1> QED BY <1>5 DEF code, pc

\* A step that writes witnesses.
LEMMA DefineSteps ==
    ASSUME IInv, CInv, Running("compute"), ~AtEnd(Top), Op.op # "MemoryInit",
           NEW ws, NEW xs, Written(ws, xs) \in [ToSet(ws) -> F],
           ToSet(ws) \cap Params(Circuits[Top.c]) = {},
           WriterAfter(Circuits[Top.c], Top.pc).known = DOMAIN Top.vals \cup ToSet(ws),
           Replace(Define(Top, ws, xs), "ok"),
           Mirrors(Top) /\ Top.ref.st = "solving" /\ Reference(Top, Op).st = "solving" =>
              /\ Reference(Top, Op).sol = Override(Top.vals, Written(ws, xs))
              /\ Reference(Top, Op).mem = Top.mem
    PROVE  CInv'
<1> DEFINE g == Written(ws, xs)
           f == Top
           v == Override(f.vals, g)
           w == Override(f.self.w, g)
           r == Reference(Top, Op)
           d == Define(Top, ws, xs)
<1>1. ComputeFits(Circuits, f) /\ IsValuation(f.vals)
  BY ComputeFacts DEF ComputeFits
<1>2. IsValuation(g) /\ DOMAIN g = ToSet(ws)
  BY DEF IsValuation
<1>3. d = [f EXCEPT !.vals = v, !.self.w = w]
  BY DEF Define
<1>9. DOMAIN g \cap Params(Circuits[f.c]) = {}
  BY <1>2
<1> HIDE DEF g
<1>4. IsValuation(v) /\ DOMAIN v = DOMAIN f.vals \cup ToSet(ws)
  <2> DEFINE a == f.vals
  <2>1. IsValuation(a)
    BY <1>1
  <2> HIDE DEF a
  <2>2. IsValuation(Override(a, g)) /\ DOMAIN Override(a, g) = DOMAIN a \cup DOMAIN g
    BY <1>2, <2>1, Overridden
  <2> QED BY <1>2, <2>2 DEF a
<1>5. f.self.w = Solved(Circuits[f.c], f.vals)
  BY <1>1, WitnessesMove
<1>6. w = Solved(Circuits[f.c], v)
  <2> DEFINE c == Circuits[f.c]
             a == f.vals
  <2> HIDE DEF f
  <2>1. w = Override(Solved(c, a), g) /\ DOMAIN g \cap Params(c) = {}
    BY <1>5, <1>9
  <2> HIDE DEF c, a
  <2>2. Override(Solved(c, a), g) = Solved(c, Override(a, g))
    BY <2>1, MembersFollow
  <2> QED BY <2>1, <2>2 DEF c, a
<1>7. [d EXCEPT !.ref = r, !.pc = f.pc + 1] = Next_(f, v, f.self.subs, f.mem, r)
  <2>1. WritesMembers(f, v, w, r, f.pc + 1)
           = [c |-> f.c, pc |-> f.pc + 1, vals |-> v,
              self |-> [w |-> w, subs |-> f.self.subs], mem |-> f.mem, ref |-> r]
    <3> HIDE DEF v, w, r, f
    <3> QED BY <1>1, WitnessesMove
  <2> HIDE DEF v, w, r, f, d
  <2> QED BY <1>3, <1>6, <2>1 DEF Next_, WritesMembers
<1>8. d.pc = Top.pc
  <2> HIDE DEF v, w
  <2> QED BY <1>3
<1>10. /\ stack' = [stack EXCEPT ![Len(stack)] = Next_(f, v, f.self.subs, f.mem, r)]
       /\ outcome' = "ok" /\ prog' = prog /\ phase' = phase
  <2>1. /\ stack' = [stack EXCEPT ![Len(stack)] = [d EXCEPT !.ref = r, !.pc = Top.pc + 1]]
        /\ outcome' = "ok" /\ prog' = prog /\ phase' = phase
    <3> HIDE DEF d
    <3>1. Replace(d, "ok")
      BY DEF d
    <3> QED BY <1>8, <3>1, ReplaceIs
  <2> HIDE DEF d, r, v
  <2> QED BY <1>7, <2>1
<1>11. Mirrors(Top) /\ Top.ref.st = "solving" /\ r.st = "solving" => r.sol = v /\ r.mem = Top.mem
  BY DEF g
<1>12. MemoryFits(Circuits[Top.c].opcodes, Top.pc + 1, Top.mem)
  BY MemoryStays
<1>13. DOMAIN Top.vals \subseteq DOMAIN v /\ KnowsNext(Top, v)
  BY <1>4 DEF KnowsNext
<1> HIDE DEF v
<1> DEFINE mem == Top.mem
<1>14. MemoryFits(Circuits[Top.c].opcodes, Top.pc + 1, mem)
  BY <1>12
<1>15. Mirrors(Top) /\ Top.ref.st = "solving" /\ Reference(Top, Op).st = "solving" =>
           Reference(Top, Op).sol = v /\ Reference(Top, Op).mem = mem
  BY <1>11
<1>16. stack' = [stack EXCEPT ![Len(stack)] = Next_(Top, v, Top.self.subs, mem, Reference(Top, Op))]
  BY <1>10
<1> HIDE DEF mem
<1> QED BY <1>4, <1>10, <1>13, <1>14, <1>15, <1>16, StepsOn

\* A step that writes no witness.
LEMMA MemorySteps ==
    ASSUME IInv, CInv, Running("compute"), ~AtEnd(Top), KnowsNext(Top, Top.vals),
           NEW mem, MemoryFits(Circuits[Top.c].opcodes, Top.pc + 1, mem),
           Replace([Top EXCEPT !.mem = mem], "ok") \/ (mem = Top.mem /\ Replace(Top, "ok")),
           Mirrors(Top) /\ Top.ref.st = "solving" /\ Reference(Top, Op).st = "solving" =>
              Reference(Top, Op).sol = Top.vals /\ Reference(Top, Op).mem = mem
    PROVE  CInv'
<1> DEFINE f == Top
           v == f.vals
           r == Reference(Top, Op)
           d == [Top EXCEPT !.mem = mem]
           next == Next_(f, f.vals, f.self.subs, mem, r)
<1>1. ComputeFits(Circuits, f) /\ IsValuation(f.vals)
  BY ComputeFacts DEF ComputeFits
<1>2. /\ [d EXCEPT !.ref = r, !.pc = f.pc + 1] = next
      /\ mem = f.mem => [f EXCEPT !.ref = r, !.pc = f.pc + 1] = next
  <2> HIDE DEF f, r
  <2>1. [[f EXCEPT !.mem = mem] EXCEPT !.ref = r, !.pc = f.pc + 1]
           = Next_(f, f.vals, f.self.subs, mem, r)
    BY <1>1, MemoryMoves
  <2>2. [f EXCEPT !.ref = r, !.pc = f.pc + 1] = Next_(f, f.vals, f.self.subs, f.mem, r)
    BY <1>1, FrameMoves
  <2> QED BY <2>1, <2>2 DEF f
<1>3. d.pc = Top.pc
  OBVIOUS
<1>4. /\ stack' = [stack EXCEPT ![Len(stack)] = next]
      /\ outcome' = "ok" /\ prog' = prog /\ phase' = phase
  <2>1. CASE Replace(d, "ok")
    <3>1. /\ stack' = [stack EXCEPT ![Len(stack)] = [d EXCEPT !.ref = r, !.pc = Top.pc + 1]]
          /\ outcome' = "ok" /\ prog' = prog /\ phase' = phase
      <4> HIDE DEF d
      <4> QED BY <1>3, <2>1, ReplaceIs
    <3> HIDE DEF d, r, next
    <3> QED BY <1>2, <3>1
  <2>2. CASE mem = Top.mem /\ Replace(Top, "ok")
    <3>1. /\ stack' = [stack EXCEPT ![Len(stack)] = [f EXCEPT !.ref = r, !.pc = Top.pc + 1]]
          /\ outcome' = "ok" /\ prog' = prog /\ phase' = phase
      BY <2>2, ReplaceIs
    <3> HIDE DEF d, r, next
    <3> QED BY <1>2, <2>2, <3>1
  <2> QED BY <2>1, <2>2
<1>5. Mirrors(Top) /\ Top.ref.st = "solving" /\ Reference(Top, Op).st = "solving" =>
           Reference(Top, Op).sol = v /\ Reference(Top, Op).mem = mem
  OBVIOUS
<1>6. IsValuation(v) /\ DOMAIN Top.vals \subseteq DOMAIN v /\ KnowsNext(Top, v)
  BY <1>1
<1>7. stack' = [stack EXCEPT ![Len(stack)] = Next_(Top, v, Top.self.subs, mem, Reference(Top, Op))]
  BY <1>4
<1> HIDE DEF v
<1> QED BY <1>4, <1>5, <1>6, <1>7, StepsOn

---------------------------------------------------------------------------
\* The opcodes

\* What is known when the code of an opcode, other than an equation, has run.
LEMMA KnownNext ==
    ASSUME IInv, CInv, Running("compute"), ~AtEnd(Top)
    PROVE  /\ Op.op # "AssertZero" =>
                 WriterAfter(Circuits[Top.c], Top.pc).known = DOMAIN Top.vals \cup Outputs(Op)
           /\ Outputs(Op) \cap Params(Circuits[Top.c]) = {}
           /\ DOMAIN Top.vals = WriterAfter(Circuits[Top.c], Top.pc - 1).known
           /\ Params(Circuits[Top.c]) \subseteq DOMAIN Top.vals
           /\ IsValuation(Top.vals) /\ MemoryFits(Circuits[Top.c].opcodes, Top.pc, Top.mem)
           /\ IsSolver(Top.ref)
<1> DEFINE c == Circuits[Top.c]
           k == Top.pc
<1>1. /\ ComputeFits(Circuits, Top) /\ IsSequence(c.opcodes) /\ Translates(c)
      /\ k \in DOMAIN c.opcodes /\ Op = c.opcodes[k] /\ ~VerifierRefuses(c, Op)
  BY ComputeFacts, OpFacts
<1>2. /\ DOMAIN Top.vals = WriterAfter(c, k - 1).known /\ Params(c) \subseteq DOMAIN Top.vals
      /\ IsValuation(Top.vals) /\ MemoryFits(c.opcodes, k, Top.mem) /\ IsSolver(Top.ref)
  BY <1>1 DEF ComputeFits
<1>3. Outputs(Op) \cap Params(c) = {}
  BY <1>1 DEF VerifierRefuses
<1> HIDE DEF c, k
<1>4. c.opcodes[k].op # "AssertZero" =>
        WriterAfter(c, k).known = WriterAfter(c, k - 1).known \cup Outputs(c.opcodes[k])
  BY <1>1, KnownAfter
<1> QED BY <1>1, <1>2, <1>3, <1>4 DEF c, k

\* A range check solves nothing.
LEMMA RangeFollows == ASSUME IInv, CInv, ComputeRange PROVE CInv'
<1>1. Running("compute") /\ ~AtEnd(Top) /\ Op.op = "RANGE" /\ Replace(Top, "ok")
  BY DEF ComputeRange, Computing, At
<1>2. Outputs(Op) = {}
  BY <1>1 DEF Outputs
<1>3. KnowsNext(Top, Top.vals) /\ IsSolver(Top.ref)
  BY <1>1, <1>2, KnownNext DEF KnowsNext
<1>4. MemoryFits(Circuits[Top.c].opcodes, Top.pc + 1, Top.mem)
  BY <1>1, MemoryStays
<1>5. Top.ref.st = "solving" =>
        Reference(Top, Op).sol = Top.ref.sol /\ Reference(Top, Op).mem = Top.ref.mem
  <2> DEFINE f == Top
             op == Op
  <2>1. op.op = "RANGE" /\ IsSolver(f.ref)
    BY <1>1, <1>3
  <2> HIDE DEF f, op
  <2>2. f.ref.st = "solving" => Reference(f, op) = AcvmRange(f.ref, op)
    BY <2>1, ReferenceIs
  <2>3. AcvmRange(f.ref, op).sol = f.ref.sol /\ AcvmRange(f.ref, op).mem = f.ref.mem
    BY <2>1, RangeContinues
  <2>4. f.ref.st = "solving" =>
          Reference(f, op).sol = f.ref.sol /\ Reference(f, op).mem = f.ref.mem
    BY <2>2, <2>3
  <2> QED BY <2>4 DEF f, op
<1> DEFINE mem == Top.mem
<1>6. /\ MemoryFits(Circuits[Top.c].opcodes, Top.pc + 1, mem)
      /\ mem = Top.mem /\ Replace(Top, "ok")
      /\ Mirrors(Top) /\ Top.ref.st = "solving" /\ Reference(Top, Op).st = "solving" =>
              Reference(Top, Op).sol = Top.vals /\ Reference(Top, Op).mem = mem
  BY <1>1, <1>4, <1>5 DEF Mirrors
<1> HIDE DEF mem
<1> QED BY <1>1, <1>3, <1>6, MemorySteps

\* AND and XOR compute what ACVM computes.
LEMMA LogicFollows == ASSUME IInv, CInv, ComputeLogic PROVE CInv'
<1> DEFINE v == Top.vals
           ins == Op.ins
           xs == InputValues(ins, v)
           w == Op.out
           x == Bits(Op.op, xs[1], xs[2])
<1>1. /\ Running("compute") /\ ~AtEnd(Top) /\ Op.op \in {"AND", "XOR"}
      /\ ReadBy(Op) \subseteq DOMAIN v /\ Replace(Define(Top, <<w>>, <<x>>), "ok")
  BY DEF ComputeLogic, Computing, At
<1>2. Outputs(Op) = {w} /\ InputWitnesses(ins) \subseteq DOMAIN v
  BY <1>1 DEF Outputs, ReadBy
<1>3. IsOpcode(Op)
  BY <1>1, OpFacts
<1>4. IsInputs(ins) /\ Len(ins) = 2
  BY <1>1, <1>3 DEF IsOpcode
<1>5. IsValuation(v) /\ IsSolver(Top.ref) /\ {w} \cap Params(Circuits[Top.c]) = {}
      /\ WriterAfter(Circuits[Top.c], Top.pc).known = DOMAIN v \cup {w}
  BY <1>1, <1>2, KnownNext
<1>6. xs[1] \in F /\ xs[2] \in F
  <2> DEFINE ys == xs
             n == Len(ins)
  <2>1. ys \in [1 .. n -> F]
    <3> HIDE DEF v, ins
    <3> QED BY <1>2, <1>4, <1>5, InputsAreFelts
  <2>2. n = 2
    BY <1>4
  <2> HIDE DEF ys, n
  <2>3. ys[1] \in F /\ ys[2] \in F
    BY <2>1, <2>2
  <2> QED BY <2>3 DEF ys
<1>7. x \in F
  <2> DEFINE a == xs[1]
             b == xs[2]
             fn == Op.op
  <2> HIDE DEF a, b, fn
  <2>1. fn \in {"AND", "XOR"} /\ a \in F /\ b \in F
    BY <1>1, <1>6 DEF a, b, fn
  <2>2. Bits(fn, a, b) \in F
    BY <2>1, ResultsAssumption
  <2> QED BY <2>2 DEF a, b, fn
<1>8. Mirrors(Top) /\ Top.ref.st = "solving" /\ Reference(Top, Op).st = "solving" =>
         /\ Reference(Top, Op).sol = Override(v, Written(<<w>>, <<x>>))
         /\ Reference(Top, Op).mem = Top.mem
  <2> DEFINE f == Top
             op == Op
             r == f.ref
             a == AcvmLogic(r, op)
             ys == InputValues(op.ins, r.sol)
             y == Bits(op.op, ys[1], ys[2])
  <2>1. op.op \in {"AND", "XOR"} /\ IsSolver(r)
    BY <1>1, <1>5
  <2>2. f.ref.st = "solving" => Reference(f, op) = a
    <3> HIDE DEF f, op
    <3> QED BY <2>1, ReferenceIs
  <2>3. a.mem = r.mem /\ (a.st = "solving" => a.sol = Override(r.sol, Written(<<op.out>>, <<y>>)))
    <3> HIDE DEF r, op
    <3> QED BY <2>1, LogicContinues
  <2> SUFFICES ASSUME Mirrors(Top), Top.ref.st = "solving", Reference(Top, Op).st = "solving"
               PROVE  /\ Reference(Top, Op).sol = Override(v, Written(<<w>>, <<x>>))
                      /\ Reference(Top, Op).mem = Top.mem
    OBVIOUS
  <2>4. Reference(Top, Op) = a /\ a.st = "solving"
    BY <2>2
  <2>5. r.sol = v /\ r.mem = Top.mem
    BY DEF Mirrors
  <2>6. y = x
    BY <2>5
  <2> HIDE DEF a, x, y
  <2> QED BY <2>3, <2>4, <2>5, <2>6
<1>9. Written(<<w>>, <<x>>) \in [ToSet(<<w>>) -> F] /\ ToSet(<<w>>) = {w}
  <2> HIDE DEF w, x
  <2> QED BY <1>7, WrittenOne
<1> DEFINE ws == <<w>>
           zs == <<x>>
<1>10. /\ Written(ws, zs) \in [ToSet(ws) -> F]
       /\ ToSet(ws) \cap Params(Circuits[Top.c]) = {}
       /\ WriterAfter(Circuits[Top.c], Top.pc).known = DOMAIN Top.vals \cup ToSet(ws)
       /\ Replace(Define(Top, ws, zs), "ok")
       /\ Mirrors(Top) /\ Top.ref.st = "solving" /\ Reference(Top, Op).st = "solving" =>
              /\ Reference(Top, Op).sol = Override(Top.vals, Written(ws, zs))
              /\ Reference(Top, Op).mem = Top.mem
  BY <1>1, <1>5, <1>8, <1>9
<1>11. Op.op # "MemoryInit"
  BY <1>1
<1> HIDE DEF ws, zs
<1> QED BY <1>1, <1>10, <1>11, DefineSteps

\* The values of inputs depend only on the witnesses among them.
LEMMA InputsDepend ==
    ASSUME NEW xs, NEW v, NEW W, InputWitnesses(xs) \subseteq W
    PROVE  InputValues(xs, [w \in W |-> v[w]]) = InputValues(xs, v)
<1> DEFINE u == [w \in W |-> v[w]]
<1>1. ASSUME NEW k \in DOMAIN xs PROVE InputValue(xs[k], u) = InputValue(xs[k], v)
  <2>1. xs[k][1] = "w" => xs[k][2] \in W
    BY DEF InputWitnesses
  <2> QED BY <2>1 DEF InputValue
<1> HIDE DEF u
<1>2. InputValues(xs, u) = InputValues(xs, v)
  BY <1>1 DEF InputValues
<1> QED BY <1>2 DEF u

\* The results of a black box are felts.
LEMMA BlackBoxResults ==
    ASSUME NEW op \in AllOpcodes, op.op = "BlackBox", IsOpcode(op),
           NEW v, IsValuation(v), InputWitnesses(op.ins \o op.pred) \subseteq DOMAIN v
    PROVE  Written(op.outs, BlackBox(op.fn, InputValues(op.ins \o op.pred, v), Len(op.outs)))
             \in [ToSet(op.outs) -> F]
<1> DEFINE ins == op.ins \o op.pred
           W == InputWitnesses(ins)
           u == [w \in W |-> v[w]]
           xs == BlackBox(op.fn, InputValues(ins, v), Len(op.outs))
<1>1. u \in [W -> F]
  BY DEF IsValuation
<1>2. InputValues(ins, u) = InputValues(ins, v)
  <2> HIDE DEF ins
  <2> QED BY InputsDepend
<1>3. xs \in [DOMAIN op.outs -> F]
  <2>1. \A y \in [W -> F] :
          BlackBox(op.fn, InputValues(ins, y), Len(op.outs)) \in [DOMAIN op.outs -> F]
    BY ResultsAssumption
  <2>2. BlackBox(op.fn, InputValues(ins, u), Len(op.outs)) \in [DOMAIN op.outs -> F]
    <3> HIDE DEF ins, u, W
    <3> QED BY <1>1, <2>1
  <2> HIDE DEF ins, u
  <2> QED BY <1>2, <2>2
<1>4. op.outs \in [1 .. Len(op.outs) -> Nat] /\ Len(op.outs) \in Nat
      /\ DOMAIN op.outs = 1 .. Len(op.outs)
  BY DEF IsOpcode
<1> HIDE DEF xs
<1>5. Written(op.outs, xs) \in [ToSet(op.outs) -> F]
  <2> DEFINE ws == op.outs
             n == Len(op.outs)
  <2>1. ws \in [1 .. n -> Nat] /\ n \in Nat /\ xs \in [1 .. n -> F]
    BY <1>3, <1>4
  <2> HIDE DEF ws, n
  <2>2. Written(ws, xs) \in [ToSet(ws) -> F]
    BY <2>1, WrittenAreFelts
  <2> QED BY <2>2 DEF ws
<1> QED BY <1>5 DEF xs

\* A black box gets what ACVM passes to it.
LEMMA BlackBoxFollows == ASSUME IInv, CInv, ComputeBlackBox PROVE CInv'
<1> DEFINE v == Top.vals
           op == Op
           ws == op.outs
           xs == CallHelper(op, v)
           ys == BlackBox(op.fn, InputValues(op.ins \o op.pred, v), Len(op.outs))
<1>1. /\ Running("compute") /\ ~AtEnd(Top) /\ op.op = "BlackBox"
      /\ InputWitnesses(op.ins \o op.pred) \subseteq DOMAIN v /\ Replace(Define(Top, ws, xs), "ok")
  BY DEF ComputeBlackBox, Computing, At, ReadBy
<1>2. Outputs(op) = ToSet(ws)
  BY <1>1 DEF Outputs
<1>3. IsOpcode(op) /\ op \in AllOpcodes
  BY <1>1, OpFacts
<1>4. IsValuation(v) /\ IsSolver(Top.ref) /\ ToSet(ws) \cap Params(Circuits[Top.c]) = {}
      /\ WriterAfter(Circuits[Top.c], Top.pc).known = DOMAIN v \cup ToSet(ws)
  BY <1>1, <1>2, KnownNext
<1>5. xs = ys
  <2>1. InputWitnesses(op.ins) \subseteq DOMAIN v
    <3> DEFINE as == op.ins
               bs == op.pred
    <3>1. IsInputs(as) /\ IsInputs(bs) /\ InputWitnesses(as \o bs) \subseteq DOMAIN v
      BY <1>1, <1>3 DEF IsOpcode
    <3> HIDE DEF as, bs
    <3>2. InputWitnesses(as) \subseteq DOMAIN v
      BY <3>1, InputsOfBoth
    <3> QED BY <3>2 DEF as
  <2> HIDE DEF op, v
  <2>2. Message(op.fn, HelperArgs(op, v)) = InputValues(op.ins \o op.pred, v)
    BY <1>1, <1>3, <1>4, <2>1, HelperGetsInputs
  <2> QED BY <2>2 DEF CallHelper
<1>6. Written(ws, ys) \in [ToSet(ws) -> F]
  <2> HIDE DEF op, v
  <2> QED BY <1>1, <1>3, <1>4, BlackBoxResults
<1>7. Mirrors(Top) /\ Top.ref.st = "solving" /\ Reference(Top, Op).st = "solving" =>
         /\ Reference(Top, Op).sol = Override(v, Written(ws, ys))
         /\ Reference(Top, Op).mem = Top.mem
  <2> DEFINE f == Top
             r == f.ref
             a == AcvmBlackBox(r, op)
             zs == BlackBox(op.fn, InputValues(op.ins \o op.pred, r.sol), Len(op.outs))
  <2>1. op.op = "BlackBox" /\ IsSolver(r)
    BY <1>1, <1>4
  <2>2. f.ref.st = "solving" => Reference(f, op) = a
    <3> HIDE DEF f, op
    <3> QED BY <2>1, ReferenceIs
  <2>3. a.mem = r.mem /\ (a.st = "solving" => a.sol = Override(r.sol, Written(op.outs, zs)))
    <3> HIDE DEF r, op
    <3> QED BY <2>1, BlackBoxContinues
  <2> SUFFICES ASSUME Mirrors(Top), Top.ref.st = "solving", Reference(Top, Op).st = "solving"
               PROVE  /\ Reference(Top, Op).sol = Override(v, Written(ws, ys))
                      /\ Reference(Top, Op).mem = Top.mem
    OBVIOUS
  <2>4. Reference(Top, Op) = a /\ a.st = "solving"
    BY <2>2
  <2>5. r.sol = v /\ r.mem = Top.mem
    BY DEF Mirrors
  <2>6. zs = ys
    BY <2>5
  <2> HIDE DEF a, zs, ys
  <2> QED BY <2>3, <2>4, <2>5, <2>6
<1>8. Op.op # "MemoryInit" /\ v = Top.vals
  BY <1>1
<1>9. /\ Replace(Define(Top, ws, ys), "ok")
      /\ Running("compute") /\ ~AtEnd(Top)
  <2> HIDE DEF xs, ys
  <2> QED BY <1>1, <1>5
<1> HIDE DEF ws, ys, v
<1>10. /\ Written(ws, ys) \in [ToSet(ws) -> F]
       /\ ToSet(ws) \cap Params(Circuits[Top.c]) = {}
       /\ WriterAfter(Circuits[Top.c], Top.pc).known = DOMAIN Top.vals \cup ToSet(ws)
       /\ Mirrors(Top) /\ Top.ref.st = "solving" /\ Reference(Top, Op).st = "solving" =>
              /\ Reference(Top, Op).sol = Override(Top.vals, Written(ws, ys))
              /\ Reference(Top, Op).mem = Top.mem
  BY <1>4, <1>6, <1>7, <1>8
<1> QED BY <1>8, <1>9, <1>10, DefineSteps

\* The value of an expression depends only on its support.
LEMMA ValueDepends ==
    ASSUME NEW e, IsExpression(e), NEW v, NEW W, Support(e) \subseteq W
    PROVE  Value(e, [w \in W |-> v[w]]) = Value(e, v)
<1> DEFINE u == [w \in W |-> v[w]]
           ts == e.mul \o e.lin
           n == Len(e.mul)
           m == Len(e.lin)
<1>1. /\ n \in Nat /\ m \in Nat /\ DOMAIN e.mul = 1 .. n /\ DOMAIN e.lin = 1 .. m
      /\ \A k \in 1 .. n : e.mul[k] \in F \X Nat \X Nat
      /\ \A k \in 1 .. m : e.lin[k] \in F \X Nat
      /\ DOMAIN ts = 1 .. n + m
      /\ \A k \in 1 .. n : ts[k] = e.mul[k]
      /\ \A k \in 1 .. m : ts[n + k] = e.lin[k]
  BY TermsOfBoth
<1>2. /\ \A k \in DOMAIN e.mul : e.mul[k][1] # 0 => TermWitnesses(e.mul[k]) \subseteq W
      /\ \A k \in DOMAIN e.lin : e.lin[k][1] # 0 => TermWitnesses(e.lin[k]) \subseteq W
  BY TermInSupport
<1>3. ASSUME NEW t \in F \X Nat \X Nat, t[1] # 0 => TermWitnesses(t) \subseteq W
      PROVE  TermValue(t, u) = TermValue(t, v)
  <2>1. PICK a \in F, i \in Nat, j \in Nat : t = <<a, i, j>>
    OBVIOUS
  <2>2. Len(t) = 3 /\ t[2] \in TermWitnesses(t) /\ t[3] \in TermWitnesses(t)
    BY <2>1 DEF TermWitnesses
  <2> QED BY <1>3, <2>2 DEF TermValue
<1>4. ASSUME NEW t \in F \X Nat, t[1] # 0 => TermWitnesses(t) \subseteq W
      PROVE  TermValue(t, u) = TermValue(t, v)
  <2>1. Len(t) = 2 /\ t[2] \in TermWitnesses(t)
    BY DEF TermWitnesses
  <2> QED BY <1>4, <2>1 DEF TermValue
<1> HIDE DEF u, ts, n, m
<1>5. ASSUME NEW k \in DOMAIN ts PROVE TermValue(ts[k], u) = TermValue(ts[k], v)
  <2>1. CASE k \in 1 .. n
    BY <1>1, <1>2, <1>3, <2>1
  <2>2. CASE k \notin 1 .. n
    <3>1. k - n \in 1 .. m /\ n + (k - n) = k
      BY <1>1, <2>2
    <3>2. ts[k] = e.lin[k - n] /\ e.lin[k - n] \in F \X Nat
      BY <1>1, <3>1
    <3> QED BY <1>1, <1>2, <1>4, <3>1, <3>2
  <2> QED BY <2>1, <2>2
<1>6. TermValues(ts, u) = TermValues(ts, v)
  BY <1>5 DEF TermValues
<1> QED BY <1>6 DEF Value, ts, u

\* The arguments of a bytecode depend only on the witnesses and the blocks it mentions.
LEMMA ArgumentsDepend ==
    ASSUME NEW xs, AreArguments(xs), NEW v, NEW mem
    PROVE  BrilligArguments(xs, [w \in BrilligSupport(xs) |-> v[w]],
                                [b \in BlocksOf(xs) |-> mem[b]])
             = BrilligArguments(xs, v, mem)
<1> DEFINE W == BrilligSupport(xs)
           u == [w \in W |-> v[w]]
           B == BlocksOf(xs)
           blocks == [b \in B |-> mem[b]]
<1>1. ASSUME NEW k \in DOMAIN xs
      PROVE  BrilligArgument(xs[k], u, blocks) = BrilligArgument(xs[k], v, mem)
  <2> DEFINE x == xs[k]
  <2>1. CASE x.kind = "MemoryArray"
    <3>1. x.block \in B
      BY <2>1 DEF BlocksOf
    <3>2. blocks[x.block] = mem[x.block]
      BY <3>1
    <3> HIDE DEF blocks, u
    <3> QED BY <2>1, <3>2 DEF BrilligArgument
  <2>2. CASE x.kind # "MemoryArray"
    <3>1. ASSUME NEW m \in DOMAIN x.exprs PROVE Value(x.exprs[m], u) = Value(x.exprs[m], v)
      <4>1. x.exprs[m] \in ToSet(x.exprs)
        BY DEF ToSet
      <4>2. IsExpression(x.exprs[m]) /\ Support(x.exprs[m]) \subseteq W
        BY <4>1 DEF AreArguments, BrilligSupport
      <4> DEFINE e == x.exprs[m]
      <4>3. IsExpression(e) /\ Support(e) \subseteq W
        BY <4>2
      <4> HIDE DEF e, W
      <4>4. Value(e, u) = Value(e, v)
        BY <4>3, ValueDepends
      <4> QED BY <4>4 DEF e
    <3> HIDE DEF u, blocks
    <3> QED BY <2>2, <3>1 DEF BrilligArgument
  <2> QED BY <2>1, <2>2
<1> HIDE DEF u, blocks
<1>2. [k \in DOMAIN xs |-> BrilligArgument(xs[k], u, blocks)]
        = [k \in DOMAIN xs |-> BrilligArgument(xs[k], v, mem)]
  BY <1>1
<1>3. BrilligArguments(xs, u, blocks) = BrilligArguments(xs, v, mem)
  BY <1>2 DEF BrilligArguments
<1> QED BY <1>3 DEF u, blocks

\* The results of a bytecode that does not trap are felts.
LEMMA BrilligResults ==
    ASSUME NEW op \in AllOpcodes, op.op = "BrilligCall", IsOpcode(op),
           NEW v, IsValuation(v), BrilligSupport(op.ins) \subseteq DOMAIN v,
           NEW mem, BlocksOf(op.ins) \subseteq DOMAIN mem,
           \A b \in DOMAIN mem : mem[b] \in [1 .. Len(mem[b]) -> F] /\ Len(mem[b]) \in 1 .. P,
           Brillig(op.id, BrilligArguments(op.ins, v, mem)) # Trap
    PROVE  Brillig(op.id, BrilligArguments(op.ins, v, mem)) \in [DOMAIN op.outs -> F]
<1> DEFINE W == BrilligSupport(op.ins)
           u == [w \in W |-> v[w]]
           B == BlocksOf(op.ins)
           blocks == [b \in B |-> mem[b]]
           Cells == UNION {[1 .. len -> F] : len \in 1 .. P}
<1>1. u \in [W -> F]
  BY DEF IsValuation
<1>2. blocks \in [B -> Cells]
  <2>1. ASSUME NEW b \in B PROVE mem[b] \in Cells
    OBVIOUS
  <2> HIDE DEF Cells, B
  <2> QED BY <2>1
<1>3. BrilligArguments(op.ins, u, blocks) = BrilligArguments(op.ins, v, mem)
  <2> DEFINE xs == op.ins
  <2>1. AreArguments(xs)
    BY DEF IsOpcode
  <2> HIDE DEF xs
  <2>2. BrilligArguments(xs, [w \in BrilligSupport(xs) |-> v[w]], [b \in BlocksOf(xs) |-> mem[b]])
          = BrilligArguments(xs, v, mem)
    BY <2>1, ArgumentsDepend
  <2> QED BY <2>2 DEF xs
<1>4. \A y \in [W -> F], z \in [B -> Cells] :
         Brillig(op.id, BrilligArguments(op.ins, y, z)) \in {Trap} \cup [DOMAIN op.outs -> F]
  BY ResultsAssumption
<1>5. Brillig(op.id, BrilligArguments(op.ins, u, blocks)) \in {Trap} \cup [DOMAIN op.outs -> F]
  <2> HIDE DEF u, blocks, W, B, Cells
  <2> QED BY <1>1, <1>2, <1>4
<1> HIDE DEF u, blocks
<1> QED BY <1>3, <1>5

\* A predicate that is zero leaves zeros, one that is one the results.
LEMMA GatedResults ==
    ASSUME NEW ws \in Seq(Nat), NEW xs \in [DOMAIN ws -> F], NEW p \in F
    PROVE  /\ Written(ws, Gated(p, xs)) \in [ToSet(ws) -> F]
           /\ p = 0 => Gated(p, xs) = Zeros(ws)
           /\ p = 1 => Gated(p, xs) = xs
<1> DEFINE n == Len(ws)
<1>1. n \in Nat /\ DOMAIN ws = 1 .. n /\ ws \in [1 .. n -> Nat]
  OBVIOUS
<1>2. Gated(p, xs) \in [1 .. n -> F]
  BY <1>1, TimesZero DEF Gated
<1> HIDE DEF n
<1>3. Written(ws, Gated(p, xs)) \in [ToSet(ws) -> F]
  <2> DEFINE ys == Gated(p, xs)
  <2> HIDE DEF ys
  <2>1. ys \in [1 .. n -> F]
    BY <1>2 DEF ys
  <2>2. Written(ws, ys) \in [ToSet(ws) -> F]
    BY <1>1, <2>1, WrittenAreFelts
  <2> QED BY <2>2 DEF ys
<1>4. ASSUME p = 0 PROVE Gated(p, xs) = Zeros(ws)
  <2>1. ASSUME NEW k \in DOMAIN xs PROVE Times(p, xs[k]) = 0
    <3>1. xs[k] \in F
      OBVIOUS
    <3> QED BY <1>4, <3>1, TimesZero
  <2> QED BY <2>1 DEF Gated, Zeros
<1>5. ASSUME p = 1 PROVE Gated(p, xs) = xs
  <2>1. ASSUME NEW k \in DOMAIN xs PROVE Times(p, xs[k]) = xs[k]
    BY <1>5, TimesOne
  <2> QED BY <2>1 DEF Gated
<1> QED BY <1>3, <1>4, <1>5

\* The blocks that a bytecode is passed have been made.
LEMMA BlocksAreMade ==
    ASSUME IInv, CInv, Running("compute"), ~AtEnd(Top), Op.op = "BrilligCall"
    PROVE  BlocksOf(Op.ins) \subseteq DOMAIN Top.mem
<1> DEFINE c == Circuits[Top.c]
           k == Top.pc
           ins == c.opcodes[k].ins
<1>1. /\ IsSequence(c.opcodes) /\ Translates(c) /\ k \in DOMAIN c.opcodes /\ Op = c.opcodes[k]
      /\ k - 1 \in 0 .. Len(c.opcodes) /\ (k - 1) + 1 = k
  BY OpFacts
<1>2. DOMAIN Top.mem = BlocksBefore(c.opcodes, k)
  BY KnownNext DEF MemoryFits
<1> HIDE DEF c, k
<1>3. \A x \in ToSet(ins) : x.kind = "MemoryArray" => x.block \in WriterAfter(c, k - 1).blocks
  BY <1>1, KnownAfter
<1>4. WriterAfter(c, k - 1).blocks \subseteq BlocksBefore(c.opcodes, (k - 1) + 1)
  BY <1>1, WriterBlocks
<1>5. ASSUME NEW m \in DOMAIN ins, ins[m].kind = "MemoryArray" PROVE ins[m].block \in DOMAIN Top.mem
  <2>1. ins[m] \in ToSet(ins)
    BY DEF ToSet
  <2> QED BY <1>1, <1>2, <1>3, <1>4, <1>5, <2>1
<1> QED BY <1>1, <1>5 DEF BlocksOf

\* A bytecode gets what ACVM passes to it, and its results are scaled by the predicate. It may
\* trap in a call that ACVM skips.
LEMMA BrilligFollows == ASSUME IInv, CInv, ComputeBrilligCall PROVE CInv'
<1> DEFINE v == Top.vals
           op == Op
           ws == op.outs
           xs == Brillig(op.id, BrilligArguments(op.ins, v, Top.mem))
           p == EmitExpression(op.pred, v)
           ys == Gated(p, xs)
<1>1. /\ Running("compute") /\ ~AtEnd(Top) /\ op.op = "BrilligCall"
      /\ Support(op.pred) \cup BrilligSupport(op.ins) \subseteq DOMAIN v
      /\ IF xs = Trap THEN Replace(Top, "trapped") ELSE Replace(Define(Top, ws, ys), "ok")
  <2>1. /\ Running("compute") /\ ~AtEnd(Top) /\ op.op = "BrilligCall" /\ ReadBy(op) \subseteq DOMAIN v
        /\ IF xs = Trap THEN Replace(Top, "trapped") ELSE Replace(Define(Top, ws, ys), "ok")
    BY DEF ComputeBrilligCall, Computing, At
  <2>2. ReadBy(op) = Support(op.pred) \cup BrilligSupport(op.ins)
    BY <2>1 DEF ReadBy
  <2> HIDE DEF xs, ys
  <2> QED BY <2>1, <2>2
<1>2. Outputs(op) = ToSet(ws)
  BY <1>1 DEF Outputs
<1>3. IsOpcode(op) /\ op \in AllOpcodes /\ BlocksOf(op.ins) \subseteq DOMAIN Top.mem
  BY <1>1, OpFacts, BlocksAreMade
<1>4. IsValuation(v) /\ IsSolver(Top.ref) /\ ToSet(ws) \cap Params(Circuits[Top.c]) = {}
      /\ WriterAfter(Circuits[Top.c], Top.pc).known = DOMAIN v \cup ToSet(ws)
      /\ \A b \in DOMAIN Top.mem : Top.mem[b] \in [1 .. Len(Top.mem[b]) -> F]
                                   /\ Len(Top.mem[b]) \in 1 .. P
  BY <1>1, <1>2, KnownNext DEF MemoryFits
<1>5. p = Value(op.pred, v) /\ p \in F
  <2> DEFINE e == op.pred
  <2>1. IsExpression(e) /\ Support(e) \subseteq DOMAIN v
    BY <1>1, <1>3 DEF IsOpcode
  <2> HIDE DEF e
  <2>2. EmitExpression(e, v) = Value(e, v) /\ Value(e, v) \in F
    BY <1>4, <2>1, ValueOfSupport
  <2> QED BY <2>2 DEF e
<1>6. ASSUME Mirrors(Top), Top.ref.st = "solving", Reference(Top, Op).st = "solving"
      PROVE  /\ Reference(Top, Op).mem = Top.mem
             /\ \/ p = 0 /\ Reference(Top, Op).sol = Override(v, Written(ws, Zeros(ws)))
                \/ p = 1 /\ xs # Trap /\ Reference(Top, Op).sol = Override(v, Written(ws, xs))
  <2> DEFINE f == Top
             r == f.ref
             a == AcvmBrilligCall(r, op)
             zs == Brillig(op.id, BrilligArguments(op.ins, r.sol, r.mem))
             q == Value(op.pred, r.sol)
  <2>1. op.op = "BrilligCall" /\ IsSolver(r)
    BY <1>1, <1>4
  <2>2. f.ref.st = "solving" => Reference(f, op) = a
    <3> HIDE DEF f, op
    <3> QED BY <2>1, ReferenceIs
  <2>3. a.mem = r.mem /\ (a.st = "solving" =>
           \/ q = 0 /\ a.sol = Override(r.sol, Written(op.outs, Zeros(op.outs)))
           \/ q = 1 /\ zs # Trap /\ a.sol = Override(r.sol, Written(op.outs, zs)))
    <3> HIDE DEF r, op
    <3> QED BY <2>1, BrilligContinues
  <2>4. Reference(Top, Op) = a /\ a.st = "solving"
    BY <1>6, <2>2
  <2>5. r.sol = v /\ r.mem = Top.mem
    BY <1>6 DEF Mirrors
  <2>6. zs = xs /\ q = p
    BY <1>5, <2>5
  <2> HIDE DEF a, zs, xs, q, p
  <2> QED BY <2>3, <2>4, <2>5, <2>6
<1>7. CASE xs = Trap
  <2>1. Replace(Top, "trapped")
    <3> HIDE DEF xs, ys
    <3> QED BY <1>1, <1>7
  <2>2. Mirrors(Top) /\ Top.ref.st = "solving" /\ Reference(Top, Op).st = "solving" =>
              InSkippedCall /\ Reference(Top, Op).mem = Top.mem
    <3> HIDE DEF xs
    <3> QED BY <1>1, <1>5, <1>6, <1>7 DEF InSkippedCall
  <2> DEFINE out == "trapped"
  <2>3. out # "ok" /\ Replace(Top, out)
    BY <2>1
  <2> HIDE DEF out
  <2> QED BY <1>1, <2>2, <2>3, Stops
<1>8. CASE xs # Trap
  <2>1. Replace(Define(Top, ws, ys), "ok")
    <3> HIDE DEF xs, ys
    <3> QED BY <1>1, <1>8
  <2>2. xs \in [DOMAIN ws -> F]
    <3> DEFINE mem == Top.mem
    <3>1. /\ op.op = "BrilligCall" /\ BrilligSupport(op.ins) \subseteq DOMAIN v
          /\ BlocksOf(op.ins) \subseteq DOMAIN mem /\ IsValuation(v)
          /\ \A b \in DOMAIN mem : mem[b] \in [1 .. Len(mem[b]) -> F] /\ Len(mem[b]) \in 1 .. P
          /\ Brillig(op.id, BrilligArguments(op.ins, v, mem)) # Trap
      BY <1>1, <1>3, <1>4, <1>8
    <3> HIDE DEF op, v, mem
    <3>2. Brillig(op.id, BrilligArguments(op.ins, v, mem)) \in [DOMAIN op.outs -> F]
      BY <1>3, <3>1, BrilligResults
    <3> QED BY <3>2 DEF mem
  <2>3. /\ Written(ws, Gated(p, xs)) \in [ToSet(ws) -> F]
        /\ p = 0 => Gated(p, xs) = Zeros(ws)
        /\ p = 1 => Gated(p, xs) = xs
    <3>1. ws \in Seq(Nat)
      BY <1>1, <1>3 DEF IsOpcode
    <3> HIDE DEF ws, xs, p
    <3> QED BY <1>5, <2>2, <3>1, GatedResults
  <2>4. Mirrors(Top) /\ Top.ref.st = "solving" /\ Reference(Top, Op).st = "solving" =>
              /\ Reference(Top, Op).sol = Override(Top.vals, Written(ws, ys))
              /\ Reference(Top, Op).mem = Top.mem
    <3>1. ys = Gated(p, xs)
      OBVIOUS
    <3> HIDE DEF xs, ys, p, ws
    <3> QED BY <1>6, <2>3, <3>1
  <2>5. Op.op # "MemoryInit" /\ v = Top.vals
    BY <1>1
  <2>6. Written(ws, ys) \in [ToSet(ws) -> F]
    BY <2>3
  <2> HIDE DEF ws, ys, v, p, xs
  <2> QED BY <1>1, <1>4, <2>1, <2>4, <2>5, <2>6, DefineSteps
<1> QED BY <1>7, <1>8

---------------------------------------------------------------------------
\* Memory

\* A block that is made has felts in its cells.
LEMMA BlockAdded ==
    ASSUME NEW code, NEW pc \in Nat \ {0}, NEW old, MemoryFits(code, pc, old),
           NEW block, MadeBy(code[pc]) = {block},
           NEW arr, arr \in [1 .. Len(arr) -> F], Len(arr) \in 1 .. P
    PROVE  MemoryFits(code, pc + 1, With(old, block, arr))
<1> DEFINE mem == With(old, block, arr)
<1>1. BlocksBefore(code, pc + 1) = BlocksBefore(code, pc) \cup {block}
  BY BlocksGrow
<1>2. mem = [b \in {block} \cup DOMAIN old |-> IF b = block THEN arr ELSE old[b]]
  BY DEF With
<1> HIDE DEF mem
<1>3. DOMAIN mem = BlocksBefore(code, pc + 1)
  BY <1>1, <1>2 DEF MemoryFits
<1>4. ASSUME NEW b \in DOMAIN mem
      PROVE  mem[b] \in [1 .. Len(mem[b]) -> F] /\ Len(mem[b]) \in 1 .. P
  <2>1. CASE b = block
    <3>1. mem[b] = arr
      BY <1>2, <2>1
    <3> QED BY <3>1
  <2>2. CASE b # block
    <3>1. mem[b] = old[b] /\ b \in DOMAIN old
      BY <1>2, <2>2
    <3> QED BY <3>1 DEF MemoryFits
  <2> QED BY <2>1, <2>2
<1> QED BY <1>3, <1>4 DEF MemoryFits, mem

\* Its cells get the values of the witnesses.
LEMMA CellsAreFelts ==
    ASSUME NEW v, IsValuation(v), NEW init \in Seq(Nat), Len(init) \in 1 .. P,
           ToSet(init) \subseteq DOMAIN v, NEW arr, arr = [k \in DOMAIN init |-> v[init[k]]]
    PROVE  arr \in [1 .. Len(arr) -> F] /\ Len(arr) \in 1 .. P
<1> DEFINE n == Len(init)
<1>1. DOMAIN init = 1 .. n /\ n \in Nat /\ n \in 1 .. P
  OBVIOUS
<1>2. \A k \in DOMAIN init : v[init[k]] \in F
  BY DEF IsValuation, ToSet
<1> HIDE DEF n
<1>3. arr \in [1 .. n -> F]
  BY <1>1, <1>2
<1> QED BY <1>1, <1>3, ByElements

\* A block is made in both memories.
LEMMA MemoryInitFollows == ASSUME IInv, CInv, ComputeMemoryInit PROVE CInv'
<1> DEFINE v == Top.vals
           op == Op
           arr == [k \in DOMAIN op.init |-> v[op.init[k]]]
           mem == With(Top.mem, op.block, arr)
           code == Circuits[Top.c].opcodes
<1>1. /\ Running("compute") /\ ~AtEnd(Top) /\ op.op = "MemoryInit" /\ ToSet(op.init) \subseteq DOMAIN v
      /\ Replace([Top EXCEPT !.mem = mem], "ok")
  BY DEF ComputeMemoryInit, Computing, At, ReadBy
<1>2. IsOpcode(op) /\ Top.pc \in Nat \ {0} /\ op = code[Top.pc]
  BY <1>1, OpFacts
<1>3. Outputs(op) = {} /\ MadeBy(code[Top.pc]) = {op.block}
  BY <1>1, <1>2 DEF Outputs, MadeBy
<1>4. KnowsNext(Top, v) /\ IsSolver(Top.ref) /\ IsValuation(v) /\ MemoryFits(code, Top.pc, Top.mem)
  BY <1>1, <1>3, KnownNext DEF KnowsNext
<1>5. arr \in [1 .. Len(arr) -> F] /\ Len(arr) \in 1 .. P
  <2> DEFINE init == op.init
  <2>1. init \in Seq(Nat) /\ Len(init) \in 1 .. P /\ arr = [k \in DOMAIN init |-> v[init[k]]]
    BY <1>1, <1>2 DEF IsOpcode
  <2>2. IsValuation(v) /\ ToSet(init) \subseteq DOMAIN v
    BY <1>1, <1>4
  <2> HIDE DEF init, arr, v
  <2> QED BY <2>1, <2>2, CellsAreFelts
<1>6. MemoryFits(code, Top.pc + 1, mem)
  <2> DEFINE pc == Top.pc
             old == Top.mem
             block == op.block
  <2>1. pc \in Nat \ {0} /\ MemoryFits(code, pc, old) /\ MadeBy(code[pc]) = {block}
    BY <1>2, <1>3, <1>4
  <2> HIDE DEF pc, old, block, code, arr
  <2>2. MemoryFits(code, pc + 1, With(old, block, arr))
    BY <1>5, <2>1, BlockAdded
  <2> QED BY <2>2 DEF pc, old, block
<1>7. Mirrors(Top) /\ Top.ref.st = "solving" /\ Reference(Top, Op).st = "solving" =>
         Reference(Top, Op).sol = v /\ Reference(Top, Op).mem = mem
  <2> DEFINE f == Top
             r == f.ref
             a == AcvmMemoryInit(r, op)
  <2>1. op.op = "MemoryInit" /\ IsSolver(r)
    BY <1>1, <1>4
  <2>2. f.ref.st = "solving" => Reference(f, op) = a
    <3> HIDE DEF f, op
    <3> QED BY <2>1, ReferenceIs
  <2>3. a.st = "solving" =>
          a.sol = r.sol /\ a.mem = With(r.mem, op.block, [k \in DOMAIN op.init |-> r.sol[op.init[k]]])
    <3> HIDE DEF r, op
    <3> QED BY <2>1, MemoryInitContinues
  <2> SUFFICES ASSUME Mirrors(Top), Top.ref.st = "solving", Reference(Top, Op).st = "solving"
               PROVE  Reference(Top, Op).sol = v /\ Reference(Top, Op).mem = mem
    OBVIOUS
  <2>4. Reference(Top, Op) = a /\ a.st = "solving"
    BY <2>2
  <2>5. r.sol = v /\ r.mem = Top.mem
    BY DEF Mirrors
  <2> HIDE DEF a
  <2> QED BY <2>3, <2>4, <2>5
<1>8. v = Top.vals
  OBVIOUS
<1> HIDE DEF mem
<1> QED BY <1>1, <1>4, <1>6, <1>7, MemorySteps

\* Whatever the index is, a read gives a felt, and a write leaves felts.
LEMMA AccessIsFelts ==
    ASSUME NEW i \in F, NEW len \in Nat, NEW arr \in [1 .. len -> F], NEW x \in F
    PROVE  /\ SelectRead(ComputedSelectors(i, len), arr) \in F
           /\ SelectWrite(ComputedSelectors(i, len), arr, x) \in [1 .. len -> F]
<1> DEFINE s == ComputedSelectors(i, len)
<1>1. s \in [1 .. len -> F]
  BY SelectorsAreBits
<1> HIDE DEF s
<1>2. SelectRead(s, arr) \in F
  <2> DEFINE xs == [k \in DOMAIN arr |-> Times(s[k], arr[k])]
  <2>1. \A k \in 1 .. len : Times(s[k], arr[k]) \in F
    BY <1>1, TimesZero
  <2>2. xs \in [1 .. len -> F]
    BY <2>1
  <2> HIDE DEF xs
  <2>3. Sum(xs) \in F
    BY <2>2, SumIsFelt
  <2> QED BY <2>3 DEF SelectRead, xs
<1>3. SelectWrite(s, arr, x) \in [1 .. len -> F]
  <2>1. ASSUME NEW k \in 1 .. len PROVE Plus(arr[k], Times(s[k], Minus(x, arr[k]))) \in F
    <3>1. arr[k] \in F /\ s[k] \in F
      BY <1>1
    <3>2. Minus(x, arr[k]) \in F
      BY <3>1, MinusZero
    <3>3. Times(s[k], Minus(x, arr[k])) \in F
      BY <3>1, <3>2, TimesZero
    <3> QED BY <3>1, <3>3, PlusIsFelt, FeltIsResidue
  <2> QED BY <2>1 DEF SelectWrite
<1> QED BY <1>2, <1>3 DEF s

\* An expression that is one witness mentions it alone.
LEMMA OneWitness ==
    ASSUME NEW e, IsExpression(e), NEW w, e = [mul |-> <<>>, lin |-> <<<<1, w>>>>, qc |-> 0]
    PROVE  CollectWitnesses(e) = {w} /\ e.lin[1][2] = w
<1> DEFINE ts == e.mul \o e.lin
<1>1. e.mul = <<>> /\ e.lin = <<<<1, w>>>>
  OBVIOUS
<1>2. Len(e.mul) = 0 /\ Len(e.lin) = 1 /\ e.lin[1] = <<1, w>>
  BY <1>1
<1>3. DOMAIN ts = 1 .. 1 /\ ts[1] = <<1, w>>
  <2>1. /\ DOMAIN ts = 1 .. Len(e.mul) + Len(e.lin)
        /\ \A k \in 1 .. Len(e.lin) : ts[Len(e.mul) + k] = e.lin[k]
    BY TermsOfBoth
  <2> HIDE DEF ts
  <2> QED BY <1>2, <2>1
<1> HIDE DEF ts
<1>4. ToSet(ts) = {<<1, w>>}
  BY <1>3 DEF ToSet
<1>5. TermWitnesses(<<1, w>>) = {w}
  <2>1. Len(<<1, w>>) = 2 /\ 2 .. 2 = {2} /\ <<1, w>>[2] = w
    OBVIOUS
  <2> QED BY <2>1 DEF TermWitnesses
<1>6. CollectWitnesses(e) = {w}
  BY <1>4, <1>5 DEF CollectWitnesses, ts
<1> QED BY <1>2, <1>6

\* A memory access in @compute: its block is there, with between one and P cells; a read
\* writes one witness, a write none.
LEMMA ComputeAccess ==
    ASSUME IInv, CInv, Running("compute"), ~AtEnd(Top), Op.op = "MemoryOp",
           Support(Op.index) \subseteq DOMAIN Top.vals
    PROVE  LET arr == Top.mem[Op.block]
               i == EmitExpression(Op.index, Top.vals)
           IN  /\ Op.block \in DOMAIN Top.mem
               /\ Len(arr) \in 1 .. P /\ arr \in [1 .. Len(arr) -> F]
               /\ i = Value(Op.index, Top.vals) /\ i \in F
               /\ i + 1 \in DOMAIN arr <=> i < Len(arr)
               /\ Op.operation.qc = 0 => Outputs(Op) = {Op.value.lin[1][2]}
               /\ Op.operation.qc # 0 => Outputs(Op) = {}
<1> DEFINE code == Circuits[Top.c].opcodes
           v == Top.vals
           block == Op.block
           arr == Top.mem[block]
           i == EmitExpression(Op.index, v)
<1>1. /\ IsOpcode(Op) /\ Op = code[Top.pc] /\ Checked(Circuits, code, Top.pc)
      /\ IsValuation(v) /\ MemoryFits(code, Top.pc, Top.mem)
  BY OpFacts, KnownNext
<1>2. IsExpression(Op.index) /\ IsExpression(Op.value)
  BY <1>1 DEF IsOpcode
<1>3. i = Value(Op.index, v) /\ i \in F
  <2> DEFINE e == Op.index
  <2>1. IsExpression(e) /\ Support(e) \subseteq DOMAIN v
    BY <1>2
  <2> HIDE DEF e, v
  <2>2. EmitExpression(e, v) = Value(e, v) /\ Value(e, v) \in F
    BY <1>1, <2>1, ValueOfSupport
  <2> QED BY <2>2 DEF e
<1>4. block \in DOMAIN Top.mem
  <2>1. PICK j \in 1 .. Top.pc - 1 : code[j].op = "MemoryInit" /\ code[j].block = block
    BY <1>1 DEF Checked
  <2>2. block \in BlocksBefore(code, Top.pc)
    BY <2>1 DEF BlocksBefore
  <2> QED BY <1>1, <2>2 DEF MemoryFits
<1>5. Len(arr) \in 1 .. P /\ arr \in [1 .. Len(arr) -> F]
  BY <1>1, <1>4 DEF MemoryFits
<1>6. i + 1 \in DOMAIN arr <=> i < Len(arr)
  <2> DEFINE n == Len(arr)
  <2>1. DOMAIN arr = 1 .. n /\ n \in 1 .. P
    BY <1>5
  <2>2. i \in Nat
    BY <1>3, FeltIsResidue DEF F
  <2>3. P \in Nat
    BY PrimeAssumption
  <2> HIDE DEF n, i, arr
  <2>4. i + 1 \in 1 .. n <=> i < n
    BY <2>1, <2>2, <2>3
  <2> QED BY <2>1, <2>4 DEF n
<1>7. Outputs(Op) = IF Op.operation.qc = 0 THEN CollectWitnesses(Op.value) ELSE {}
  BY DEF Outputs
<1>8. ASSUME Op.operation.qc = 0 PROVE CollectWitnesses(Op.value) = {Op.value.lin[1][2]}
  <2>1. PICK w \in CollectWitnesses(Op.value) :
           Op.value = [mul |-> <<>>, lin |-> <<<<1, w>>>>, qc |-> 0]
    BY <1>1, <1>8 DEF Checked
  <2> DEFINE e == Op.value
  <2>2. e = [mul |-> <<>>, lin |-> <<<<1, w>>>>, qc |-> 0] /\ IsExpression(e)
    BY <1>2, <2>1
  <2> HIDE DEF e
  <2>3. CollectWitnesses(e) = {w} /\ e.lin[1][2] = w
    BY <2>2, OneWitness
  <2> QED BY <2>3 DEF e
<1> QED BY <1>3, <1>4, <1>5, <1>6, <1>7, <1>8

\* What ACVM does with a memory access.
LEMMA AccessOfAcvm ==
    ASSUME IInv, CInv, Running("compute"), ~AtEnd(Top), Op.op = "MemoryOp",
           Mirrors(Top), Top.ref.st = "solving", Reference(Top, Op).st = "solving"
    PROVE  LET a == Reference(Top, Op)
               i == Value(Op.index, Top.vals) + 1
               x == Value(Op.value, Top.vals)
               arr == Top.mem[Op.block]
           IN  /\ i \in DOMAIN arr
               /\ Op.operation.qc = 0 =>
                     /\ a.mem = Top.mem
                     /\ a.sol = Override(Top.vals, Written(<<Op.value.lin[1][2]>>, <<arr[i]>>))
               /\ Op.operation.qc # 0 =>
                     /\ a.sol = Top.vals /\ a.mem = [Top.mem EXCEPT ![Op.block] = [arr EXCEPT ![i] = x]]
<1> DEFINE f == Top
           op == Op
           r == f.ref
           a == AcvmMemoryOp(r, op)
           i == Value(op.index, r.sol) + 1
           x == Value(op.value, r.sol)
<1>1. op.op = "MemoryOp" /\ IsSolver(r)
  BY KnownNext
<1>2. f.ref.st = "solving" => Reference(f, op) = a
  <2> HIDE DEF f, op
  <2> QED BY <1>1, ReferenceIs
<1>3. a.st = "solving" =>
         /\ i \in DOMAIN r.mem[op.block]
         /\ op.operation.qc = 0 =>
               /\ a.mem = r.mem
               /\ a.sol = Override(r.sol, Written(<<op.value.lin[1][2]>>, <<r.mem[op.block][i]>>))
         /\ op.operation.qc # 0 =>
               /\ a.sol = r.sol
               /\ a.mem = [r.mem EXCEPT ![op.block] = [r.mem[op.block] EXCEPT ![i] = x]]
  <2> HIDE DEF r, op
  <2> QED BY <1>1, MemoryOpContinues
<1>4. Reference(Top, Op) = a /\ a.st = "solving"
  BY <1>2
<1>5. r.sol = Top.vals /\ r.mem = Top.mem
  BY DEF Mirrors
<1> HIDE DEF a
<1> QED BY <1>3, <1>4, <1>5

\* A read gives the cell that ACVM reads, or ACVM fails.
LEMMA MemoryReadFollows == ASSUME IInv, CInv, ComputeMemoryRead PROVE CInv'
<1> DEFINE v == Top.vals
           arr == Top.mem[Op.block]
           len == Len(arr)
           i == EmitExpression(Op.index, v)
           w == Op.value.lin[1][2]
           x == SelectRead(ComputedSelectors(i, len), arr)
<1>1. /\ Running("compute") /\ ~AtEnd(Top) /\ Op.op = "MemoryOp" /\ Op.operation.qc = 0
      /\ ReadBy(Op) \subseteq DOMAIN v /\ Replace(Define(Top, <<w>>, <<x>>), "ok")
  BY DEF ComputeMemoryRead, Computing, At
<1>2. Support(Op.index) \subseteq DOMAIN v
  BY <1>1 DEF ReadBy
<1>3. /\ len \in 1 .. P /\ arr \in [1 .. len -> F] /\ i = Value(Op.index, v) /\ i \in F
      /\ i + 1 \in DOMAIN arr <=> i < len
      /\ Outputs(Op) = {w}
  BY <1>1, <1>2, ComputeAccess
<1>4. /\ {w} \cap Params(Circuits[Top.c]) = {}
      /\ WriterAfter(Circuits[Top.c], Top.pc).known = DOMAIN v \cup {w}
  BY <1>1, <1>3, KnownNext
<1>5. len \in Nat
  BY <1>3
<1>6. x \in F /\ (i < len => x = arr[i + 1])
  <2> HIDE DEF i, len, arr
  <2>1. SelectRead(ComputedSelectors(i, len), arr) \in F
    BY <1>3, <1>5, SmallFelts, AccessIsFelts
  <2>2. i < len => SelectRead(ComputedSelectors(i, len), arr) = arr[i + 1]
    BY <1>3, <1>5, SelectReads
  <2> QED BY <2>1, <2>2
<1>7. Mirrors(Top) /\ Top.ref.st = "solving" /\ Reference(Top, Op).st = "solving" =>
         /\ Reference(Top, Op).sol = Override(v, Written(<<w>>, <<x>>))
         /\ Reference(Top, Op).mem = Top.mem
  <2> SUFFICES ASSUME Mirrors(Top), Top.ref.st = "solving", Reference(Top, Op).st = "solving"
               PROVE  /\ Reference(Top, Op).sol = Override(v, Written(<<w>>, <<x>>))
                      /\ Reference(Top, Op).mem = Top.mem
    OBVIOUS
  <2> DEFINE j == Value(Op.index, v) + 1
  <2>1. /\ j \in DOMAIN arr /\ Reference(Top, Op).mem = Top.mem
        /\ Reference(Top, Op).sol = Override(v, Written(<<w>>, <<arr[j]>>))
    BY <1>1, AccessOfAcvm
  <2>2. j = i + 1
    BY <1>3
  <2>3. arr[j] = x
    <3> HIDE DEF i, j, len, x, arr
    <3> QED BY <1>3, <1>6, <2>1, <2>2
  <2> HIDE DEF j, x, arr
  <2> QED BY <2>1, <2>3
<1>8. Written(<<w>>, <<x>>) \in [ToSet(<<w>>) -> F] /\ ToSet(<<w>>) = {w}
  <2> HIDE DEF w, x
  <2> QED BY <1>6, WrittenOne
<1> HIDE DEF x
<1> DEFINE ws == <<w>>
           zs == <<x>>
<1>9. /\ Written(ws, zs) \in [ToSet(ws) -> F]
      /\ ToSet(ws) \cap Params(Circuits[Top.c]) = {}
      /\ WriterAfter(Circuits[Top.c], Top.pc).known = DOMAIN Top.vals \cup ToSet(ws)
      /\ Replace(Define(Top, ws, zs), "ok")
      /\ Mirrors(Top) /\ Top.ref.st = "solving" /\ Reference(Top, Op).st = "solving" =>
              /\ Reference(Top, Op).sol = Override(Top.vals, Written(ws, zs))
              /\ Reference(Top, Op).mem = Top.mem
  BY <1>1, <1>4, <1>7, <1>8 DEF x
<1>10. Op.op # "MemoryInit"
  BY <1>1
<1> HIDE DEF ws, zs
<1> QED BY <1>1, <1>9, <1>10, DefineSteps

\* A write changes the cell that ACVM changes, or ACVM fails.
LEMMA MemoryWriteFollows == ASSUME IInv, CInv, ComputeMemoryWrite PROVE CInv'
<1> DEFINE v == Top.vals
           block == Op.block
           arr == Top.mem[block]
           len == Len(arr)
           i == EmitExpression(Op.index, v)
           x == EmitExpression(Op.value, v)
           new == SelectWrite(ComputedSelectors(i, len), arr, x)
           mem == [Top.mem EXCEPT ![block] = new]
<1>1. /\ Running("compute") /\ ~AtEnd(Top) /\ Op.op = "MemoryOp" /\ Op.operation.qc = 1
      /\ ReadBy(Op) \subseteq DOMAIN v
      /\ Replace([Top EXCEPT !.mem[block] = new], "ok")
  BY DEF ComputeMemoryWrite, Computing, At
<1>2. Support(Op.index) \subseteq DOMAIN v /\ Support(Op.value) \subseteq DOMAIN v
  BY <1>1 DEF ReadBy
<1>3. /\ block \in DOMAIN Top.mem /\ len \in 1 .. P /\ arr \in [1 .. len -> F]
      /\ i = Value(Op.index, v) /\ i \in F
      /\ i + 1 \in DOMAIN arr <=> i < len
      /\ Outputs(Op) = {}
  <2>1. Op.operation.qc # 0
    BY <1>1
  <2> QED BY <1>1, <1>2, <2>1, ComputeAccess
<1>4. KnowsNext(Top, v) /\ IsValuation(v)
  BY <1>1, <1>3, KnownNext DEF KnowsNext
<1>5. x = Value(Op.value, v) /\ x \in F
  <2> DEFINE e == Op.value
  <2>1. IsExpression(e) /\ Support(e) \subseteq DOMAIN v
    BY <1>1, <1>2, OpFacts DEF IsOpcode
  <2> HIDE DEF e, v
  <2>2. EmitExpression(e, v) = Value(e, v) /\ Value(e, v) \in F
    BY <1>4, <2>1, ValueOfSupport
  <2> QED BY <2>2 DEF e
<1>6. len \in Nat
  BY <1>3
<1>7. new \in [1 .. len -> F] /\ (i < len => new = [arr EXCEPT ![i + 1] = x])
  <2> HIDE DEF i, len, arr, x
  <2>1. SelectWrite(ComputedSelectors(i, len), arr, x) \in [1 .. len -> F]
    BY <1>3, <1>5, <1>6, AccessIsFelts
  <2>2. ASSUME i < len
        PROVE  SelectWrite(ComputedSelectors(i, len), arr, x) = [arr EXCEPT ![i + 1] = x]
    <3>1. i \in F /\ arr \in [1 .. len -> F] /\ x \in F /\ i < len
      BY <1>3, <1>5, <2>2
    <3> QED BY ONLY <1>6, <3>1, SelectWrites
  <2> QED BY <2>1, <2>2
<1>8. MemoryFits(Circuits[Top.c].opcodes, Top.pc + 1, mem)
  <2> DEFINE code == Circuits[Top.c].opcodes
             pc == Top.pc
             old == Top.mem
  <2>1. MemoryFits(code, pc + 1, old)
    BY <1>1, MemoryStays
  <2>2. DOMAIN mem = DOMAIN old /\ mem[block] = new /\ \A b \in DOMAIN old : b # block => mem[b] = old[b]
    <3>1. old = [b \in DOMAIN old |-> old[b]] \/ TRUE
      OBVIOUS
    <3> HIDE DEF new
    <3> QED BY <1>3
  <2>3. Len(new) = len
    <3> HIDE DEF new, len
    <3> QED BY <1>6, <1>7, ByElements
  <2>4. len \in 1 .. P /\ new \in [1 .. len -> F]
    BY <1>3, <1>7
  <2> HIDE DEF code, pc, old, mem, new, len, block
  <2>5. MemoryFits(code, pc + 1, mem)
    BY <2>1, <2>2, <2>3, <2>4 DEF MemoryFits
  <2> QED BY <2>5 DEF code, pc
<1>9. Mirrors(Top) /\ Top.ref.st = "solving" /\ Reference(Top, Op).st = "solving" =>
         Reference(Top, Op).sol = v /\ Reference(Top, Op).mem = mem
  <2> SUFFICES ASSUME Mirrors(Top), Top.ref.st = "solving", Reference(Top, Op).st = "solving"
               PROVE  Reference(Top, Op).sol = v /\ Reference(Top, Op).mem = mem
    OBVIOUS
  <2> DEFINE j == Value(Op.index, v) + 1
             y == Value(Op.value, v)
  <2>1. /\ j \in DOMAIN arr /\ Reference(Top, Op).sol = v
        /\ Reference(Top, Op).mem = [Top.mem EXCEPT ![block] = [arr EXCEPT ![j] = y]]
    BY <1>1, AccessOfAcvm
  <2>2. j = i + 1 /\ y = x
    BY <1>3, <1>5
  <2>3. [arr EXCEPT ![j] = y] = new
    <3> HIDE DEF i, j, len, x, y, arr, new
    <3> QED BY <1>3, <1>7, <2>1, <2>2
  <2> HIDE DEF j, x, y, arr, new
  <2> QED BY <2>1, <2>3
<1>10. Replace([Top EXCEPT !.mem = mem], "ok")
  <2>1. [Top EXCEPT !.mem[block] = new] = [Top EXCEPT !.mem = mem]
    OBVIOUS
  <2> HIDE DEF mem, new
  <2> QED BY <1>1, <2>1
<1> HIDE DEF mem
<1> QED BY <1>1, <1>4, <1>8, <1>9, <1>10, MemorySteps

---------------------------------------------------------------------------
\* Equations

\* The witnesses of a multiplication term, and of a linear term.
LEMMA WitnessesOfProduct ==
    ASSUME NEW t \in F \X Nat \X Nat
    PROVE  TermWitnesses(t) = {t[2], t[3]} /\ Len(t) = 3 /\ t[1] \in F
<1>1. PICK a \in F, i \in Nat, j \in Nat : t = <<a, i, j>>
  OBVIOUS
<1>2. Len(t) = 3 /\ 2 .. 3 = {2, 3}
  BY <1>1
<1> QED BY <1>1, <1>2 DEF TermWitnesses

LEMMA WitnessesOfLinear ==
    ASSUME NEW t \in F \X Nat
    PROVE  TermWitnesses(t) = {t[2]} /\ Len(t) = 2 /\ t[1] \in F
<1>1. PICK a \in F, i \in Nat : t = <<a, i>>
  OBVIOUS
<1>2. Len(t) = 2 /\ 2 .. 2 = {2}
  BY <1>1
<1> QED BY <1>1, <1>2 DEF TermWitnesses

\* The only unknown of an equation that can be solved for it.
SolvableFor(e, w, v) ==
    /\ IsExpression(e) /\ IsValuation(v) /\ w \notin DOMAIN v
    /\ Support(e) \subseteq DOMAIN v \cup {w} /\ ~Unsolvable(e, w)

\* One more witness.
LEMMA WithOne ==
    ASSUME NEW v, IsValuation(v), NEW w
    PROVE  /\ IsValuation(With(v, w, 1)) /\ DOMAIN With(v, w, 1) = DOMAIN v \cup {w}
           /\ With(v, w, 1)[w] = 1
           /\ \A u \in DOMAIN v : u # w => With(v, w, 1)[u] = v[u]
BY SmallFelts DEF With, IsValuation

\* What a multiplication term contributes.
LEMMA ContributionIs ==
    ASSUME NEW e, NEW w, NEW v, SolvableFor(e, w, v), NEW k \in DOMAIN e.mul
    PROVE  LET t == e.mul[k]
               x == IF w \in TermWitnesses(t) THEN TermValue(t, With(v, w, 1)) ELSE 0
           IN  x = Contribution(t, e, w, v) /\ x \in F
<1> DEFINE t == e.mul[k]
           u == With(v, w, 1)
           i == t[2]
           j == t[3]
           c == t[1]
<1>1. /\ IsExpression(e) /\ IsValuation(v) /\ w \notin DOMAIN v
      /\ Support(e) \subseteq DOMAIN v \cup {w} /\ ~Unsolvable(e, w)
  BY DEF SolvableFor
<1>2. t \in F \X Nat \X Nat /\ (c # 0 => TermWitnesses(t) \subseteq Support(e))
  BY <1>1, ElementsOfBoth, TermInSupport
<1>3. TermWitnesses(t) = {i, j} /\ Len(t) = 3 /\ c \in F
  <2> HIDE DEF t
  <2> QED BY <1>2, WitnessesOfProduct
<1>4. t \in ToSet(e.mul)
  BY DEF ToSet
<1>5. t \in MulTermsOf(e, w) <=> c # 0 /\ w \in {i, j}
  BY <1>4 DEF MulTermsOf, Terms
<1>6. t \in MulTermsOf(e, w) => ~(i = w /\ j = w)
  BY <1>1 DEF Unsolvable
<1>7. /\ u[w] = 1 /\ \A x \in DOMAIN v : x # w => u[x] = v[x]
  BY <1>1, WithOne
<1>8. TermValue(t, u) = IF c = 0 THEN 0 ELSE Times(c, Times(u[i], u[j]))
  <2> HIDE DEF t
  <2> QED BY <1>3 DEF TermValue
<1>9. Contribution(t, e, w, v) = IF t \in MulTermsOf(e, w) THEN Times(c, v[IF i = w THEN j ELSE i]) ELSE 0
  BY DEF Contribution, Other
<1> HIDE DEF t, u, i, j, c
<1>10. CASE c = 0 \/ w \notin {i, j}
  <2>1. Contribution(t, e, w, v) = 0 /\ (w \in TermWitnesses(t) => TermValue(t, u) = 0)
    BY <1>3, <1>5, <1>8, <1>9, <1>10
  <2> QED BY <2>1, SmallFelts DEF t, u
<1>11. CASE c # 0 /\ w = i
  <2>1. j # w /\ j \in DOMAIN v
    BY <1>1, <1>2, <1>3, <1>5, <1>6, <1>11
  <2>2. u[i] = 1 /\ u[j] = v[j] /\ v[j] \in F
    BY <1>1, <1>7, <1>11, <2>1 DEF IsValuation
  <2>3. Times(u[i], u[j]) = v[j] /\ Times(c, v[j]) \in F
    BY <1>3, <2>2, TimesOne, TimesZero
  <2>4. TermValue(t, u) = Times(c, v[j]) /\ Contribution(t, e, w, v) = Times(c, v[j])
    BY <1>5, <1>8, <1>9, <1>11, <2>3
  <2> QED BY <1>3, <1>11, <2>3, <2>4 DEF t, u
<1>12. CASE c # 0 /\ w = j /\ w # i
  <2>1. i \in DOMAIN v
    BY <1>1, <1>2, <1>3, <1>12
  <2>2. u[j] = 1 /\ u[i] = v[i] /\ v[i] \in F
    BY <1>1, <1>7, <1>12, <2>1 DEF IsValuation
  <2>3. Times(v[i], 1) = Times(1, v[i])
    BY <2>2, FeltIsResidue DEF Times
  <2>4. Times(u[i], u[j]) = v[i] /\ Times(c, v[i]) \in F
    BY <1>3, <2>2, <2>3, TimesOne, TimesZero
  <2>5. TermValue(t, u) = Times(c, v[i]) /\ Contribution(t, e, w, v) = Times(c, v[i])
    BY <1>5, <1>8, <1>9, <1>12, <2>4
  <2> QED BY <1>3, <1>12, <2>4, <2>5 DEF t, u
<1> QED BY <1>10, <1>11, <1>12

\* What a linear term contributes.
LEMMA LinearContributionIs ==
    ASSUME NEW e, NEW w, NEW v, SolvableFor(e, w, v), NEW k \in DOMAIN e.lin
    PROVE  LET t == e.lin[k]
               x == IF w \in TermWitnesses(t) THEN TermValue(t, With(v, w, 1)) ELSE 0
           IN  x = (IF t[2] = w THEN t[1] ELSE 0) /\ x \in F
<1> DEFINE t == e.lin[k]
           u == With(v, w, 1)
<1>1. t \in F \X Nat /\ IsValuation(v)
  BY ElementsOfBoth DEF SolvableFor
<1>2. TermWitnesses(t) = {t[2]} /\ Len(t) = 2 /\ t[1] \in F
  <2> HIDE DEF t
  <2> QED BY <1>1, WitnessesOfLinear
<1>3. u[w] = 1
  BY <1>1, WithOne
<1>4. Times(t[1], 1) = t[1]
  <2> DEFINE c == t[1]
  <2>1. c \in F
    BY <1>2
  <2> HIDE DEF c
  <2>2. Times(c, 1) = Times(1, c)
    BY <2>1, FeltIsResidue DEF Times
  <2>3. Times(c, 1) = c
    BY <2>1, <2>2, TimesOne
  <2> QED BY <2>3 DEF c
<1>5. t[2] = w => TermValue(t, u) = t[1]
  <2> HIDE DEF t, u
  <2> QED BY <1>2, <1>3, <1>4 DEF TermValue
<1> HIDE DEF t, u
<1>6. LET x == IF w \in TermWitnesses(t) THEN TermValue(t, u) ELSE 0
      IN  x = (IF t[2] = w THEN t[1] ELSE 0) /\ x \in F
  BY <1>2, <1>5, SmallFelts
<1> QED BY <1>6 DEF t, u

\* The coefficient that the code computes is ACVM's.
LEMMA CoefficientAgrees ==
    ASSUME NEW e, NEW w, NEW v, SolvableFor(e, w, v)
    PROVE  Coefficient(e, w, v) = SkippedCoeff(e, w, v) /\ SkippedCoeff(e, w, v) \in F
<1> DEFINE all == e.mul \o e.lin
           u == With(v, w, 1)
           zs == [k \in DOMAIN all |-> IF w \in TermWitnesses(all[k]) THEN TermValue(all[k], u) ELSE 0]
           xs == [k \in DOMAIN e.mul |-> Contribution(e.mul[k], e, w, v)]
           ys == [k \in DOMAIN e.lin |-> IF e.lin[k][2] = w THEN e.lin[k][1] ELSE 0]
<1>0. IsExpression(e)
  BY DEF SolvableFor
<1>1. /\ \A k \in DOMAIN e.mul : k \in DOMAIN all /\ all[k] = e.mul[k]
      /\ \A k \in DOMAIN e.lin : Len(e.mul) + k \in DOMAIN all /\ all[Len(e.mul) + k] = e.lin[k]
  BY <1>0, ElementsOfBoth
<1>2. Coefficient(e, w, v) = Sum(zs)
  BY DEF Coefficient, SumOf
<1>3. SkippedCoeff(e, w, v) = Plus(Sum(ys), Sum(xs))
  BY DEF SkippedCoeff, LinearCoefficient
<1> HIDE DEF all, u
<1>4. ASSUME NEW k \in DOMAIN e.mul PROVE zs[k] = xs[k] /\ xs[k] \in F
  BY <1>1, ContributionIs DEF u
<1>5. ASSUME NEW k \in DOMAIN e.lin PROVE zs[Len(e.mul) + k] = ys[k] /\ ys[k] \in F
  BY <1>1, LinearContributionIs DEF u
<1>6. xs \in [DOMAIN e.mul -> F] /\ ys \in [DOMAIN e.lin -> F] /\ IsMap(zs) /\ DOMAIN zs = DOMAIN all
  BY <1>4, <1>5 DEF IsMap
<1>7. /\ \A k \in DOMAIN e.mul : zs[k] = xs[k]
      /\ \A k \in DOMAIN e.lin : zs[Len(e.mul) + k] = ys[k]
  BY <1>4, <1>5
<1> HIDE DEF xs, ys, zs
<1>8. /\ Sum(zs) = Plus(Sum(xs), Sum(ys))
      /\ Sum(xs) \in F /\ Sum(ys) \in F /\ Plus(Sum(xs), Sum(ys)) \in F
  BY <1>0, <1>6, <1>7, SumOverTerms DEF all
<1>9. Plus(Sum(xs), Sum(ys)) = Plus(Sum(ys), Sum(xs))
  BY <1>8, FeltIsResidue DEF Plus
<1> QED BY <1>2, <1>3, <1>8, <1>9

\* So is the rest; it is zero when nothing else is there.
LEMMA RestAgrees ==
    ASSUME NEW e, NEW w, NEW v, SolvableFor(e, w, v)
    PROVE  /\ Rest(e, v, {w}) = EmitExcluding(e, w, v) /\ EmitExcluding(e, w, v) \in F
           /\ NothingElse(e, w) => EmitExcluding(e, w, v) = 0
<1> DEFINE all == e.mul \o e.lin
           zs == [k \in DOMAIN all |-> IF TermWitnesses(all[k]) \cap {w} = {} THEN TermValue(all[k], v) ELSE 0]
           xs == ValuesWithout(e.mul, w, v)
           ys == ValuesWithout(e.lin, w, v)
<1>0. IsExpression(e) /\ IsValuation(v) /\ Support(e) \subseteq DOMAIN v \cup {w}
  BY DEF SolvableFor
<1>1. /\ \A k \in DOMAIN e.mul : k \in DOMAIN all /\ all[k] = e.mul[k]
      /\ \A k \in DOMAIN e.lin : Len(e.mul) + k \in DOMAIN all /\ all[Len(e.mul) + k] = e.lin[k]
      /\ e.qc \in F
  BY <1>0, ElementsOfBoth
<1>2. Rest(e, v, {w}) = Plus(Sum(zs), e.qc)
  BY DEF Rest, SumOf
<1>3. EmitExcluding(e, w, v) = Plus(Sum(xs), Plus(Sum(ys), e.qc))
  BY DEF EmitExcluding
<1> HIDE DEF all
<1>4. ASSUME NEW t \in (F \X Nat \X Nat) \cup (F \X Nat), t[1] # 0 => TermWitnesses(t) \subseteq Support(e)
      PROVE  (IF w \in TermWitnesses(t) THEN 0 ELSE TermValue(t, v)) \in F
  <2>1. CASE w \in TermWitnesses(t)
    BY <2>1, SmallFelts
  <2>2. CASE w \notin TermWitnesses(t)
    <3>1. t[1] # 0 => TermWitnesses(t) \subseteq DOMAIN v
      BY <1>0, <1>4, <2>2
    <3> QED BY <1>0, <2>2, <3>1, TermIsFelt
  <2> QED BY <2>1, <2>2
<1>5. ASSUME NEW k \in DOMAIN e.mul PROVE zs[k] = xs[k] /\ xs[k] \in F
  <2> DEFINE t == e.mul[k]
  <2>1. t \in (F \X Nat \X Nat) \cup (F \X Nat) /\ (t[1] # 0 => TermWitnesses(t) \subseteq Support(e))
    BY <1>0, ElementsOfBoth, TermInSupport
  <2>2. zs[k] = IF w \in TermWitnesses(t) THEN 0 ELSE TermValue(t, v)
    BY <1>1
  <2>3. xs[k] = IF w \in TermWitnesses(t) THEN 0 ELSE TermValue(t, v)
    BY DEF ValuesWithout
  <2> HIDE DEF t, zs, xs
  <2> QED BY <1>4, <2>1, <2>2, <2>3
<1>6. ASSUME NEW k \in DOMAIN e.lin PROVE zs[Len(e.mul) + k] = ys[k] /\ ys[k] \in F
  <2> DEFINE t == e.lin[k]
  <2>1. t \in (F \X Nat \X Nat) \cup (F \X Nat) /\ (t[1] # 0 => TermWitnesses(t) \subseteq Support(e))
    BY <1>0, ElementsOfBoth, TermInSupport
  <2>2. zs[Len(e.mul) + k] = IF w \in TermWitnesses(t) THEN 0 ELSE TermValue(t, v)
    BY <1>1
  <2>3. ys[k] = IF w \in TermWitnesses(t) THEN 0 ELSE TermValue(t, v)
    BY DEF ValuesWithout
  <2> HIDE DEF t, zs, ys
  <2> QED BY <1>4, <2>1, <2>2, <2>3
<1>7. xs \in [DOMAIN e.mul -> F] /\ ys \in [DOMAIN e.lin -> F] /\ IsMap(zs) /\ DOMAIN zs = DOMAIN all
  BY <1>5, <1>6 DEF IsMap, ValuesWithout
<1>8. /\ \A k \in DOMAIN e.mul : zs[k] = xs[k]
      /\ \A k \in DOMAIN e.lin : zs[Len(e.mul) + k] = ys[k]
  BY <1>5, <1>6
<1>9. NothingElse(e, w) => e.qc = 0 /\ Sum(xs) = 0 /\ Sum(ys) = 0
  <2> SUFFICES ASSUME NothingElse(e, w) PROVE e.qc = 0 /\ Sum(xs) = 0 /\ Sum(ys) = 0
    OBVIOUS
  <2>1. e.qc = 0 /\ \A t \in ToSet(e.mul) \cup ToSet(e.lin) : t[1] # 0 => w \in TermWitnesses(t)
    BY DEF NothingElse, Terms
  <2>2. ASSUME NEW k \in DOMAIN e.mul PROVE xs[k] = 0
    <3>1. e.mul[k] \in ToSet(e.mul)
      BY DEF ToSet
    <3> QED BY <2>1, <3>1 DEF ValuesWithout, TermValue
  <2>3. ASSUME NEW k \in DOMAIN e.lin PROVE ys[k] = 0
    <3>1. e.lin[k] \in ToSet(e.lin)
      BY DEF ToSet
    <3> QED BY <2>1, <3>1 DEF ValuesWithout, TermValue
  <2> DEFINE n == Len(e.mul)
             m == Len(e.lin)
  <2>4. n \in Nat /\ m \in Nat /\ DOMAIN e.mul = 1 .. n /\ DOMAIN e.lin = 1 .. m
    BY <1>0, TermsOfBoth
  <2> HIDE DEF xs, ys, n, m
  <2> QED BY <1>7, <2>1, <2>2, <2>3, <2>4, SumOfZeros
<1> HIDE DEF xs, ys, zs
<1>10. /\ Sum(zs) = Plus(Sum(xs), Sum(ys))
       /\ Sum(xs) \in F /\ Sum(ys) \in F /\ Plus(Sum(xs), Sum(ys)) \in F
  BY <1>0, <1>7, <1>8, SumOverTerms DEF all
<1>11. Plus(Plus(Sum(xs), Sum(ys)), e.qc) = Plus(Sum(xs), Plus(Sum(ys), e.qc))
  BY <1>1, <1>10, PlusAssociative
<1>12. Plus(Plus(Sum(xs), Sum(ys)), e.qc) \in F
  BY <1>1, <1>10, PlusIsFelt, FeltIsResidue
<1>13. Plus(0, Plus(0, 0)) = 0
  BY SmallFelts, PlusZero
<1> QED BY <1>2, <1>3, <1>9, <1>10, <1>11, <1>12, <1>13

\* What is solved for is in the support of the equation.
LEMMA SolvedInSupport ==
    ASSUME NEW e, IsExpression(e), NEW w, ~Unsolvable(e, w)
    PROVE  w \in Support(e)
<1> DEFINE ys == [k \in DOMAIN e.lin |-> IF e.lin[k][2] = w THEN e.lin[k][1] ELSE 0]
<1>1. /\ \A k \in DOMAIN e.mul : e.mul[k] \in F \X Nat \X Nat
      /\ \A k \in DOMAIN e.lin : e.lin[k] \in F \X Nat
  BY ElementsOfBoth
<1>2. CASE MulTermsOf(e, w) # {}
  <2>1. PICK t \in MulTermsOf(e, w) : TRUE
    BY <1>2
  <2>2. t \in ToSet(e.mul) /\ t[1] # 0 /\ w \in {t[2], t[3]}
    BY DEF MulTermsOf, Terms
  <2>3. PICK k \in DOMAIN e.mul : e.mul[k] = t
    BY <2>2 DEF ToSet
  <2>4. t \in F \X Nat \X Nat /\ TermWitnesses(t) \subseteq Support(e)
    BY <1>1, <2>2, <2>3, TermInSupport
  <2>5. TermWitnesses(t) = {t[2], t[3]}
    BY <2>4, WitnessesOfProduct
  <2> QED BY <2>2, <2>4, <2>5
<1>3. CASE MulTermsOf(e, w) = {}
  <2>1. Sum(ys) # 0
    BY <1>3 DEF Unsolvable, LinearCoefficient
  <2> DEFINE n == Len(e.lin)
  <2>2. n \in Nat /\ DOMAIN e.lin = 1 .. n
    BY TermsOfBoth
  <2>3. ys \in [1 .. n -> F]
    <3>1. ASSUME NEW k \in DOMAIN e.lin PROVE ys[k] \in F
      <4> DEFINE t == e.lin[k]
      <4>1. t[1] \in F
        BY <1>1
      <4> QED BY <4>1, SmallFelts
    <3> HIDE DEF n
    <3> QED BY <2>2, <3>1
  <2>4. PICK k \in 1 .. n : ys[k] # 0
    <3> HIDE DEF ys, n
    <3> QED BY <2>1, <2>2, <2>3, SumOfZeros
  <2> DEFINE t == e.lin[k]
  <2>5. t[2] = w /\ t[1] # 0
    BY <2>2, <2>4
  <2>6. t \in F \X Nat /\ TermWitnesses(t) \subseteq Support(e)
    BY <1>1, <2>2, <2>5, TermInSupport
  <2> HIDE DEF t
  <2>7. TermWitnesses(t) = {t[2]}
    BY <2>6, WitnessesOfLinear
  <2> QED BY <2>5, <2>6, <2>7
<1> QED BY <1>2, <1>3

\* The solution is ACVM's, when ACVM has one.
LEMMA SolutionAgrees ==
    ASSUME NEW e, NEW w, NEW v, SolvableFor(e, w, v)
    PROVE  /\ ~DividesByZero(e, w, v) => Solution(e, w, v) \in F
           /\ Coefficient(e, w, v) # 0 =>
                 /\ ~DividesByZero(e, w, v)
                 /\ Div(Neg(Rest(e, v, {w})), Coefficient(e, w, v)) = Solution(e, w, v)
<1> DEFINE c == SkippedCoeff(e, w, v)
           r == EmitExcluding(e, w, v)
<1>1. Coefficient(e, w, v) = c /\ c \in F
  BY CoefficientAgrees
<1>2. Rest(e, v, {w}) = r /\ r \in F /\ (NothingElse(e, w) => r = 0)
  BY RestAgrees
<1>3. Solution(e, w, v) = IF NothingElse(e, w) THEN 0 ELSE Div(Neg(r), c)
  BY DEF Solution
<1>4. DividesByZero(e, w, v) <=> ~NothingElse(e, w) /\ c = 0
  BY DEF DividesByZero
<1> HIDE DEF c, r
<1>5. Neg(r) \in F
  <2>1. r \in Int /\ -r \in Int
    BY <1>2, FeltIsResidue
  <2> QED BY <2>1, ResidueIsFelt DEF Neg
<1>6. c # 0 => Div(Neg(r), c) \in F /\ Times(Div(Neg(r), c), c) = Neg(r)
  BY <1>1, <1>5, DivIsFelt
<1>7. r = 0 => Neg(r) = 0
  <2>1. Neg(0) = 0
    BY SmallFelts, FeltIsResidue DEF Neg
  <2> QED BY <2>1
<1>8. c # 0 /\ NothingElse(e, w) => Div(Neg(r), c) = 0
  <2> DEFINE q == Div(Neg(r), c)
  <2> HIDE DEF q
  <2> SUFFICES ASSUME c # 0, NothingElse(e, w) PROVE q = 0
    BY DEF q
  <2>1. q \in F /\ Times(q, c) = 0
    BY <1>2, <1>6, <1>7 DEF q
  <2> QED BY <1>1, <2>1, TimesZero
<1> QED BY <1>1, <1>2, <1>3, <1>4, <1>6, <1>8, SmallFelts

\* The expressions mention finitely many witnesses.
LEMMA CollectedFinite ==
    ASSUME NEW e, IsExpression(e)
    PROVE  IsFiniteSet(CollectWitnesses(e))
<1> DEFINE n == Len(e.mul)
           m == Len(e.lin)
           ts == e.mul \o e.lin
           ws(k) == TermWitnesses(ts[k])
           Family == {ws(k) : k \in 1 .. n + m}
<1>1. /\ n \in Nat /\ m \in Nat
      /\ \A k \in 1 .. n : e.mul[k] \in F \X Nat \X Nat
      /\ \A k \in 1 .. m : e.lin[k] \in F \X Nat
      /\ DOMAIN ts = 1 .. n + m
      /\ \A k \in 1 .. n : ts[k] = e.mul[k]
      /\ \A k \in 1 .. m : ts[n + k] = e.lin[k]
  BY TermsOfBoth
<1> HIDE DEF n, m, ts
<1>2. CollectWitnesses(e) = UNION Family
  <2>1. ToSet(ts) = {ts[k] : k \in 1 .. n + m}
    BY <1>1 DEF ToSet
  <2> QED BY <2>1 DEF CollectWitnesses, ts
<1>3. IsFiniteSet(Family)
  <2>1. n + m \in Nat /\ 1 \in Int
    BY <1>1
  <2>2. IsFiniteSet(1 .. n + m)
    BY <2>1, FS_Interval
  <2> DEFINE f == [k \in 1 .. n + m |-> ws(k)]
  <2>3. f \in Surjection(1 .. n + m, Family)
    BY DEF Surjection
  <2> HIDE DEF Family, f
  <2> QED BY <2>2, <2>3, FS_Surjection
<1>4. ASSUME NEW k \in 1 .. n + m PROVE IsFiniteSet(ws(k))
  <2>1. CASE k \in 1 .. n
    <3>1. ts[k] \in F \X Nat \X Nat
      BY <1>1, <2>1
    <3>2. ws(k) = {ts[k][2], ts[k][3]}
      BY <3>1, WitnessesOfProduct
    <3> DEFINE i == ts[k][2]
               j == ts[k][3]
    <3> HIDE DEF i, j
    <3>3. IsFiniteSet({i}) /\ {i} \cup {j} = {i, j}
      BY FS_Singleton
    <3>4. IsFiniteSet({i} \cup {j})
      BY <3>3, FS_AddElement
    <3> QED BY <3>2, <3>3, <3>4 DEF i, j
  <2>2. CASE k \notin 1 .. n
    <3>1. k - n \in 1 .. m /\ n + (k - n) = k
      BY <1>1, <2>2
    <3>2. ts[k] \in F \X Nat
      BY <1>1, <3>1
    <3>3. ws(k) = {ts[k][2]}
      BY <3>2, WitnessesOfLinear
    <3> QED BY <3>3, FS_Singleton
  <2> QED BY <2>1, <2>2
<1>5. \A T \in Family : IsFiniteSet(T)
  BY <1>4
<1> HIDE DEF Family
<1> QED BY <1>2, <1>3, <1>5, FS_UNION

\* The unknown of an equation in @compute.
LEMMA EquationFacts ==
    ASSUME IInv, CInv, Running("compute"), ~AtEnd(Top), Op.op = "AssertZero"
    PROVE  /\ IsExpression(Op.e) /\ IsValuation(Top.vals) /\ IsSolver(Top.ref)
           /\ WriterAfter(Circuits[Top.c], Top.pc).known = DOMAIN Top.vals \cup Unknown(Op.e)
           /\ Unknown(Op.e) \cap Params(Circuits[Top.c]) = {}
           /\ Support(Op.e) \subseteq DOMAIN Top.vals \cup Unknown(Op.e)
           /\ \A w \in Unknown(Op.e) : /\ Unknown(Op.e) = {w} /\ SolvableFor(Op.e, w, Top.vals)
                                       /\ Support(Op.e) \ DOMAIN Top.vals = {w}
<1> DEFINE c == Circuits[Top.c]
           k == Top.pc
           v == Top.vals
           e == Op.e
           unknown == CollectWitnesses(e) \ WriterAfter(c, k - 1).known
<1>1. /\ IsOpcode(Op) /\ IsSequence(c.opcodes) /\ Translates(c)
      /\ k \in DOMAIN c.opcodes /\ Op = c.opcodes[k]
  BY OpFacts
<1>2. /\ DOMAIN v = WriterAfter(c, k - 1).known /\ Params(c) \subseteq DOMAIN v
      /\ IsValuation(v) /\ IsSolver(Top.ref)
  BY KnownNext
<1>3. IsExpression(e)
  BY <1>1 DEF IsOpcode
<1>4. /\ WriterAfter(c, k).known = WriterAfter(c, k - 1).known \cup unknown
      /\ ~(Cardinality(unknown) > 1) /\ \A w \in unknown : ~Unsolvable(e, w)
  <2> DEFINE op == c.opcodes[k]
             u == CollectWitnesses(op.e) \ WriterAfter(c, k - 1).known
  <2>1. op = Op
    BY <1>1
  <2> HIDE DEF c, k
  <2>2. op.op = "AssertZero" =>
           /\ WriterAfter(c, k).known = WriterAfter(c, k - 1).known \cup u
           /\ ~(Cardinality(u) > 1) /\ \A w \in u : ~Unsolvable(op.e, w)
    BY <1>1, KnownAfter
  <2> HIDE DEF op
  <2> QED BY <2>1, <2>2
<1>5. unknown = Unknown(e)
  BY <1>2 DEF Unknown
<1> HIDE DEF c, k, e, v
<1>6. Support(e) \subseteq CollectWitnesses(e)
  BY <1>3, TermInSupport
<1>7. ASSUME NEW w \in unknown PROVE unknown = {w}
  <2> SUFFICES ASSUME NEW u \in unknown, u # w PROVE FALSE
    OBVIOUS
  <2>1. IsFiniteSet(unknown)
    BY <1>3, CollectedFinite, FS_Subset
  <2>2. {w, u} \subseteq unknown
    OBVIOUS
  <2>3. Cardinality({w, u}) = 2
    <3>1. IsFiniteSet({w}) /\ Cardinality({w}) = 1 /\ u \notin {w}
      BY FS_Singleton
    <3>2. Cardinality({w} \cup {u}) = Cardinality({w}) + 1
      BY <3>1, FS_AddElement
    <3>3. {w} \cup {u} = {w, u}
      OBVIOUS
    <3> QED BY <3>1, <3>2, <3>3
  <2> HIDE DEF unknown
  <2>4. Cardinality({w, u}) <= Cardinality(unknown) /\ Cardinality(unknown) \in Nat
    BY <2>1, <2>2, FS_Subset, FS_CardinalityType
  <2> QED BY <1>4, <2>3, <2>4
<1>8. ASSUME NEW w \in unknown PROVE SolvableFor(e, w, v) /\ Support(e) \ DOMAIN v = {w}
  <2>1. unknown = {w} /\ ~Unsolvable(e, w) /\ w \in Support(e)
    BY <1>3, <1>4, <1>7, SolvedInSupport
  <2>2. Support(e) \subseteq DOMAIN v \cup {w} /\ w \notin DOMAIN v
    BY <1>2, <1>6, <2>1
  <2> QED BY <1>2, <1>3, <2>1, <2>2 DEF SolvableFor
<1>9. Unknown(e) \cap Params(c) = {} /\ Support(e) \subseteq DOMAIN v \cup Unknown(e)
  BY <1>2, <1>5, <1>6
<1> HIDE DEF unknown
<1> QED BY <1>2, <1>3, <1>4, <1>5, <1>7, <1>8, <1>9 DEF c, k, e, v

\* What ACVM does with an equation.
LEMMA EquationOfAcvm ==
    ASSUME IInv, CInv, Running("compute"), ~AtEnd(Top), Op.op = "AssertZero",
           Mirrors(Top), Top.ref.st = "solving", Reference(Top, Op).st = "solving"
    PROVE  LET a == Reference(Top, Op)
               e == Op.e
               v == Top.vals
           IN  /\ a.mem = Top.mem
               /\ Support(e) \ DOMAIN v = {} => a.sol = v
               /\ \A w : Support(e) \ DOMAIN v = {w} =>
                     /\ Coefficient(e, w, v) # 0
                     /\ a.sol = Override(v, Written(<<w>>,
                                     <<Div(Neg(Rest(e, v, {w})), Coefficient(e, w, v))>>))
<1> DEFINE f == Top
           op == Op
           r == f.ref
           a == AcvmAssertZero(r, op.e)
           unknown == Support(op.e) \ DOMAIN r.sol
<1>1. op.op = "AssertZero" /\ IsSolver(r)
  BY KnownNext
<1>2. f.ref.st = "solving" => Reference(f, op) = a
  <2> HIDE DEF f, op
  <2> QED BY <1>1, ReferenceIs
<1>3. /\ a.mem = r.mem
      /\ unknown = {} /\ a.st = "solving" => a.sol = r.sol
      /\ \A w : unknown = {w} /\ a.st = "solving" =>
            /\ Coefficient(op.e, w, r.sol) # 0
            /\ a.sol = Override(r.sol, Written(<<w>>,
                  <<Div(Neg(Rest(op.e, r.sol, unknown)), Coefficient(op.e, w, r.sol))>>))
  <2> DEFINE e == op.e
  <2> HIDE DEF r, op, e
  <2>1. LET b == AcvmAssertZero(r, e)
            u == Support(e) \ DOMAIN r.sol
        IN  /\ b.mem = r.mem
            /\ u = {} /\ b.st = "solving" => b.sol = r.sol
            /\ \A w : u = {w} /\ b.st = "solving" =>
                  /\ Coefficient(e, w, r.sol) # 0
                  /\ b.sol = Override(r.sol, Written(<<w>>,
                        <<Div(Neg(Rest(e, r.sol, u)), Coefficient(e, w, r.sol))>>))
    BY <1>1, AssertZeroContinues
  <2> QED BY <2>1 DEF e
<1>4. Reference(Top, Op) = a /\ a.st = "solving"
  BY <1>2
<1>5. r.sol = Top.vals /\ r.mem = Top.mem
  BY DEF Mirrors
<1> HIDE DEF a
<1>6. ASSUME NEW w, Support(op.e) \ DOMAIN Top.vals = {w}
      PROVE  /\ Coefficient(op.e, w, Top.vals) # 0
             /\ a.sol = Override(Top.vals, Written(<<w>>,
                   <<Div(Neg(Rest(op.e, Top.vals, {w})), Coefficient(op.e, w, Top.vals))>>))
  <2>1. unknown = {w}
    BY <1>5, <1>6
  <2>2. /\ Coefficient(op.e, w, r.sol) # 0
        /\ a.sol = Override(r.sol, Written(<<w>>,
              <<Div(Neg(Rest(op.e, r.sol, unknown)), Coefficient(op.e, w, r.sol))>>))
    <3> HIDE DEF unknown, r, op
    <3> QED BY <1>3, <1>4, <2>1
  <2> HIDE DEF unknown
  <2> QED BY <1>5, <2>1, <2>2
<1> QED BY <1>3, <1>4, <1>5, <1>6

\* An equation without unknowns solves nothing.
LEMMA SatisfiedFollows == ASSUME IInv, CInv, ComputeSatisfied PROVE CInv'
<1>1. /\ Running("compute") /\ ~AtEnd(Top) /\ Op.op = "AssertZero" /\ Unknown(Op.e) = {}
      /\ Replace(Top, "ok")
  BY DEF ComputeSatisfied, Computing, At
<1>2. /\ WriterAfter(Circuits[Top.c], Top.pc).known = DOMAIN Top.vals \cup Unknown(Op.e)
      /\ Support(Op.e) \subseteq DOMAIN Top.vals \cup Unknown(Op.e)
  BY <1>1, EquationFacts
<1>3. KnowsNext(Top, Top.vals) /\ Support(Op.e) \ DOMAIN Top.vals = {}
  BY <1>1, <1>2 DEF KnowsNext
<1>4. MemoryFits(Circuits[Top.c].opcodes, Top.pc + 1, Top.mem)
  BY <1>1, MemoryStays
<1> DEFINE mem == Top.mem
<1>5. /\ MemoryFits(Circuits[Top.c].opcodes, Top.pc + 1, mem)
      /\ mem = Top.mem /\ Replace(Top, "ok")
      /\ Mirrors(Top) /\ Top.ref.st = "solving" /\ Reference(Top, Op).st = "solving" =>
              Reference(Top, Op).sol = Top.vals /\ Reference(Top, Op).mem = mem
  BY <1>1, <1>3, <1>4, EquationOfAcvm
<1> HIDE DEF mem
<1> QED BY <1>1, <1>3, <1>5, MemorySteps

\* The code solves an equation as ACVM does; it divides by zero only when ACVM does not solve
\* it.
LEMMA SolveFollows == ASSUME IInv, CInv, ComputeSolve PROVE CInv'
<1> DEFINE v == Top.vals
           e == Op.e
<1>1. Running("compute") /\ ~AtEnd(Top) /\ Op.op = "AssertZero"
  BY DEF ComputeSolve, Computing, At
<1>2. PICK w \in Unknown(e) :
          IF DividesByZero(e, w, v) THEN Replace(Top, "trapped")
          ELSE Replace(Define(Top, <<w>>, <<Solution(e, w, v)>>), "ok")
  BY DEF ComputeSolve
<1> DEFINE x == Solution(e, w, v)
<1>3. /\ WriterAfter(Circuits[Top.c], Top.pc).known = DOMAIN v \cup Unknown(e)
      /\ Unknown(e) \cap Params(Circuits[Top.c]) = {}
      /\ Unknown(e) = {w} /\ SolvableFor(e, w, v) /\ Support(e) \ DOMAIN v = {w}
  BY <1>1, EquationFacts
<1>4. /\ ~DividesByZero(e, w, v) => x \in F
      /\ Coefficient(e, w, v) # 0 =>
            /\ ~DividesByZero(e, w, v)
            /\ Div(Neg(Rest(e, v, {w})), Coefficient(e, w, v)) = x
  <2> HIDE DEF e, v
  <2> QED BY <1>3, SolutionAgrees
<1>5. Mirrors(Top) /\ Top.ref.st = "solving" /\ Reference(Top, Op).st = "solving" =>
         /\ ~DividesByZero(e, w, v)
         /\ Reference(Top, Op).sol = Override(v, Written(<<w>>, <<x>>))
         /\ Reference(Top, Op).mem = Top.mem
  <2> SUFFICES ASSUME Mirrors(Top), Top.ref.st = "solving", Reference(Top, Op).st = "solving"
               PROVE  /\ ~DividesByZero(e, w, v)
                      /\ Reference(Top, Op).sol = Override(v, Written(<<w>>, <<x>>))
                      /\ Reference(Top, Op).mem = Top.mem
    OBVIOUS
  <2>1. /\ Coefficient(e, w, v) # 0 /\ Reference(Top, Op).mem = Top.mem
        /\ Reference(Top, Op).sol = Override(v, Written(<<w>>,
               <<Div(Neg(Rest(e, v, {w})), Coefficient(e, w, v))>>))
    BY <1>1, <1>3, EquationOfAcvm
  <2> HIDE DEF x, e, v
  <2> QED BY <1>4, <2>1
<1>6. CASE DividesByZero(e, w, v)
  <2> DEFINE out == "trapped"
  <2>1. out # "ok" /\ Replace(Top, out)
    BY <1>2, <1>6
  <2>2. Mirrors(Top) /\ Top.ref.st = "solving" /\ Reference(Top, Op).st = "solving" =>
              InSkippedCall /\ Reference(Top, Op).mem = Top.mem
    <3> HIDE DEF x, e, v
    <3> QED BY <1>5, <1>6
  <2> HIDE DEF out
  <2> QED BY <1>1, <2>1, <2>2, Stops
<1>7. CASE ~DividesByZero(e, w, v)
  <2>1. Replace(Define(Top, <<w>>, <<x>>), "ok")
    BY <1>2, <1>7
  <2>2. Written(<<w>>, <<x>>) \in [ToSet(<<w>>) -> F] /\ ToSet(<<w>>) = {w}
    <3> HIDE DEF x
    <3> QED BY <1>4, <1>7, WrittenOne
  <2> HIDE DEF x
  <2> DEFINE ws == <<w>>
             zs == <<x>>
  <2>3. /\ Written(ws, zs) \in [ToSet(ws) -> F]
        /\ ToSet(ws) \cap Params(Circuits[Top.c]) = {}
        /\ WriterAfter(Circuits[Top.c], Top.pc).known = DOMAIN Top.vals \cup ToSet(ws)
        /\ Replace(Define(Top, ws, zs), "ok")
        /\ Mirrors(Top) /\ Top.ref.st = "solving" /\ Reference(Top, Op).st = "solving" =>
                /\ Reference(Top, Op).sol = Override(Top.vals, Written(ws, zs))
                /\ Reference(Top, Op).mem = Top.mem
    BY <1>3, <1>5, <2>1, <2>2
  <2>4. Op.op # "MemoryInit"
    BY <1>1
  <2> HIDE DEF ws, zs
  <2> QED BY <1>1, <2>3, <2>4, DefineSteps
<1> QED BY <1>6, <1>7

---------------------------------------------------------------------------
\* Calls

\* The inputs of a circuit are its witnesses 0, 1, ...
LEMMA ParamIndexIs ==
    ASSUME prog \in Programs, NEW c \in ToSet(Circuits), NEW w \in Params(c)
    PROVE  ParamIndex(c, w) = w + 1 /\ w \in 0 .. Cardinality(Params(c)) - 1
<1> DEFINE n == Cardinality(Params(c))
<1>1. Params(c) = 0 .. n - 1
  BY InputsAssumption DEF Circuits
<1>2. n \in Int
  <2>1. c \in ToSet(prog.circuits)
    BY DEF Circuits
  <2>2. IsCircuit(c)
    BY <2>1, ProgramsAssumption DEF ToSet
  <2>3. IsFiniteSet(Params(c))
    BY <2>2, FS_Union DEF Params, IsCircuit
  <2> QED BY <2>3, FS_CardinalityType
<1> HIDE DEF n
<1>3. w \in 0 .. n - 1 /\ w \in Nat
  BY <1>1, <1>2
<1>4. {u \in Params(c) : u <= w} = 0 .. w
  BY <1>1, <1>2, <1>3
<1>5. Cardinality(0 .. w) = w + 1
  BY <1>3, FS_Interval
<1> QED BY <1>3, <1>4, <1>5 DEF ParamIndex, n

\* The frame of a function that begins fits, and mirrors a solver with the same inputs.
LEMMA ComputeBegins ==
    ASSUME prog \in Programs, WellFormed(Circuits), NEW c \in DOMAIN Circuits,
           NEW args \in [1 .. Cardinality(Params(Circuits[c])) -> F], NEW ref, IsSolver(ref)
    PROVE  LET h == Frame(c, args, Struct, ref)
               n == Cardinality(Params(Circuits[c]))
           IN  /\ ComputeFits(Circuits, h) /\ h.c = c /\ h.ref = ref
               /\ ref.sol = [k \in 0 .. n - 1 |-> args[k + 1]] /\ ref.mem = <<>> => Mirrors(h)
<1> DEFINE h == Frame(c, args, Struct, ref)
           d == Circuits[c]
           n == Cardinality(Params(d))
           vals == [w \in Params(d) |-> args[ParamIndex(d, w)]]
           sol == [k \in 0 .. n - 1 |-> args[k + 1]]
<1>1. IsCircuit(d) /\ d \in ToSet(Circuits)
  BY DEF WellFormed, ToSet
<1>2. vals \in [Params(d) -> F]
  BY <1>1, ParamIndexInRange
<1>3. Params(d) = 0 .. n - 1
  <2>1. d \in ToSet(prog.circuits)
    BY <1>1 DEF Circuits
  <2> QED BY <2>1, InputsAssumption
<1>4. vals = sol
  <2>1. ASSUME NEW w \in Params(d) PROVE args[ParamIndex(d, w)] = args[w + 1]
    <3> HIDE DEF d
    <3> QED BY <1>1, <2>1, ParamIndexIs
  <2> QED BY <1>3, <2>1
<1>5. Solved(d, vals) = <<>>
  <2>1. DOMAIN vals \ Params(d) = {}
    OBVIOUS
  <2> HIDE DEF vals, d
  <2> QED BY <2>1 DEF Solved
<1>6. h = [c |-> c, pc |-> 1, vals |-> vals, self |-> [w |-> <<>>, subs |-> <<>>], mem |-> <<>>,
           ref |-> ref]
  BY DEF Frame, Struct
<1>7. 1 \in 1 .. Len(d.opcodes) + 1 /\ 1 - 1 = 0
  BY <1>1 DEF IsCircuit, IsSequence
<1>8. MemoryFits(d.opcodes, 1, <<>>)
  <2>1. BlocksBefore(d.opcodes, 1) = {}
    BY BlocksGrow
  <2>2. DOMAIN <<>> = {}
    OBVIOUS
  <2> QED BY <2>1, <2>2 DEF MemoryFits
<1>9. DOMAIN vals = WriterAfter(d, 0).known
  <2>1. WriterAfter(d, 0) = Writer(d)
    BY WriterSteps
  <2> QED BY <2>1 DEF Writer
<1>10. IsValuation(vals) /\ Params(d) \subseteq DOMAIN vals
  BY <1>2 DEF IsValuation
<1> HIDE DEF h, vals, sol
<1>11. h.c = c /\ h.pc = 1 /\ h.vals = vals /\ h.self = [w |-> <<>>, subs |-> <<>>]
       /\ h.self.subs = <<>> /\ h.mem = <<>> /\ h.ref = ref
  BY <1>6
<1>12. ComputeFits(Circuits, h)
  <2>1. h = [c |-> h.c, pc |-> h.pc, vals |-> h.vals,
             self |-> [w |-> Solved(Circuits[h.c], h.vals), subs |-> h.self.subs],
             mem |-> h.mem, ref |-> h.ref]
    BY <1>5, <1>6, <1>11
  <2> HIDE DEF n
  <2> QED BY <1>7, <1>8, <1>9, <1>10, <1>11, <2>1 DEF ComputeFits
<1> QED BY <1>4, <1>11, <1>12 DEF h, n, d, sol, Mirrors

\* A callee gets the arguments that ACVM gives it, and ACVM asks it when the predicate is one.
LEMMA CallFollows == ASSUME IInv, CInv, ComputeCall PROVE CInv'
<1> DEFINE v == Top.vals
           op == Op
           r == Top.ref
           args == [k \in DOMAIN op.ins |-> v[op.ins[k]]]
           ref == IF r.st \in {"solving", "stalled"} THEN AcvmCallee(r, op) ELSE r
           h == Frame(op.id, args, Struct, ref)
           n == Cardinality(Params(Circuits[op.id]))
           fs == stack
<1>1. /\ Running("compute") /\ ~AtEnd(Top) /\ op.op = "Call" /\ stack' = Append(fs, h)
      /\ ToSet(op.ins) \cup Support(op.pred) \subseteq DOMAIN v
      /\ prog' = prog /\ phase' = phase /\ outcome' = outcome
  <2>1. Running("compute") /\ ~AtEnd(Top) /\ op.op = "Call" /\ ReadBy(op) \subseteq DOMAIN v
    BY DEF ComputeCall, Computing, At
  <2>2. ReadBy(op) = ToSet(op.ins) \cup Support(op.pred)
    BY <2>1 DEF ReadBy
  <2>3. stack' = Append(fs, h) /\ prog' = prog /\ phase' = phase /\ outcome' = outcome
    BY DEF ComputeCall
  <2> QED BY <2>1, <2>2, <2>3
<1>2. /\ WellFormed(Circuits) /\ ComputeStackFits(Circuits, fs) /\ outcome = "ok"
      /\ phase = "compute" /\ prog \in Programs /\ Len(fs) \in 1 .. Len(fs) /\ Top = fs[Len(fs)]
      /\ (Solving(fs, Len(fs)) => Mirrors(Top))
  BY <1>1, ComputeFacts
<1>3. /\ Top.pc \in DOMAIN Circuits[Top.c].opcodes /\ op = Circuits[Top.c].opcodes[Top.pc]
      /\ IsOpcode(op) /\ Checked(Circuits, Circuits[Top.c].opcodes, Top.pc)
  BY <1>1, OpFacts
<1>4. IsValuation(v) /\ IsSolver(r)
  BY <1>1, KnownNext
<1>5. op.id \in DOMAIN Circuits /\ Len(op.ins) = n /\ op.ins \in Seq(Nat) /\ DOMAIN op.ins = 1 .. n
  <2>1. op.id \in DOMAIN Circuits /\ Len(op.ins) = n
    BY <1>1, <1>3 DEF Checked
  <2>2. op.ins \in Seq(Nat)
    BY <1>1, <1>3 DEF IsOpcode
  <2> HIDE DEF n, op
  <2> QED BY <2>1, <2>2
<1>6. args \in [1 .. n -> F]
  <2>1. \A k \in DOMAIN op.ins : v[op.ins[k]] \in F
    BY <1>1, <1>4 DEF ToSet, IsValuation
  <2> HIDE DEF n, op
  <2> QED BY <1>5, <2>1
<1>7. LET a == AcvmCallee(r, op)
      IN  /\ IsSolver(a)
          /\ a.st = "skipped" => PredicateKnown(r, op) /\ Value(op.pred, r.sol) = 0
          /\ a.st = "solving" =>
                /\ Value(op.pred, r.sol) = 1 /\ a.mem = <<>>
                /\ a.sol = [k \in 0 .. (Len(op.ins) - 1) |-> r.sol[op.ins[k + 1]]]
  BY CalleeContinues
<1>8. IsSolver(ref)
  BY <1>4, <1>7
<1>9. /\ ComputeFits(Circuits, h) /\ h.c = op.id /\ h.ref = ref
      /\ ref.sol = [k \in 0 .. n - 1 |-> args[k + 1]] /\ ref.mem = <<>> => Mirrors(h)
  <2> DEFINE c == op.id
  <2>1. c \in DOMAIN Circuits /\ args \in [1 .. Cardinality(Params(Circuits[c])) -> F]
        /\ prog \in Programs /\ WellFormed(Circuits) /\ IsSolver(ref)
    BY <1>2, <1>5, <1>6, <1>8
  <2> HIDE DEF c, args, ref
  <2>2. LET g == Frame(c, args, Struct, ref)
            m == Cardinality(Params(Circuits[c]))
        IN  /\ ComputeFits(Circuits, g) /\ g.c = c /\ g.ref = ref
            /\ ref.sol = [k \in 0 .. m - 1 |-> args[k + 1]] /\ ref.mem = <<>> => Mirrors(g)
    BY <2>1, ComputeBegins
  <2> QED BY <2>2 DEF c
<1>10. Awaits(Circuits, Top, h)
  <2> HIDE DEF h
  <2> QED BY <1>1, <1>3, <1>9 DEF Awaits
<1>11. ASSUME Solving(fs, Len(fs))
       PROVE  /\ ref = AcvmCallee(r, op) /\ r.sol = v
              /\ Value(op.pred, r.sol) = Value(op.pred, v)
  <2>1. r.st = "solving"
    BY <1>2, <1>11 DEF Solving
  <2>2. r.sol = v
    BY <1>2, <1>11 DEF Mirrors
  <2> QED BY <2>1, <2>2
<1>12. Solving(fs, Len(fs)) => Asked(Circuits, Top, h)
  <2> HIDE DEF h, ref
  <2> QED BY <1>3, <1>7, <1>9, <1>11 DEF Asked
<1>13. ASSUME Solving(fs, Len(fs)), h.ref.st = "solving" PROVE Mirrors(h)
  <2>1. ref.st = "solving" /\ ref = AcvmCallee(r, op) /\ r.sol = v
    <3> HIDE DEF h, ref
    <3> QED BY <1>9, <1>11, <1>13
  <2>2. ref.sol = [k \in 0 .. n - 1 |-> v[op.ins[k + 1]]] /\ ref.mem = <<>>
    <3> HIDE DEF ref, n
    <3> QED BY <1>5, <1>7, <2>1
  <2>3. [k \in 0 .. n - 1 |-> v[op.ins[k + 1]]] = [k \in 0 .. n - 1 |-> args[k + 1]]
    <3>1. n \in Nat
      <4> HIDE DEF n, op
      <4> QED BY <1>5
    <3>2. ASSUME NEW k \in 0 .. n - 1 PROVE v[op.ins[k + 1]] = args[k + 1]
      <4>1. k + 1 \in DOMAIN op.ins
        <5> HIDE DEF n, op
        <5> QED BY <1>5, <3>1
      <4> QED BY <4>1
    <3> HIDE DEF args, n
    <3> QED BY <3>2
  <2> HIDE DEF h, ref, args, n
  <2> QED BY <1>9, <2>2, <2>3
<1>14. ComputeStackFits(Circuits, Append(fs, h))
  <2> HIDE DEF h, fs
  <2> QED BY <1>2, <1>9, <1>10, <1>12, <1>13, CalleeAdded
<1> HIDE DEF h, fs
<1> QED BY <1>1, <1>2, <1>14, OkKeeps

\* What is known of a caller.
LEMMA CallerFacts ==
    ASSUME IInv, CInv, Running("compute"), Len(stack) > 1
    PROVE  LET n == Len(stack)
           IN  /\ n - 1 \in 1 .. n /\ n \in Nat /\ Caller = stack[n - 1] /\ Top = stack[n]
               /\ ComputeFits(Circuits, Caller) /\ ComputeFits(Circuits, Top)
               /\ Awaits(Circuits, Caller, Top)
               /\ Solving(stack, n - 1) => Mirrors(Caller) /\ Asked(Circuits, Caller, Top)
               /\ Solving(stack, n) => Mirrors(Top)
<1> DEFINE fs == stack
           n == Len(fs)
<1>1. ComputeStackFits(Circuits, fs) /\ n > 1
  BY ComputeFacts
<1>2. n \in Nat
  BY <1>1 DEF ComputeStackFits
<1>3. Caller = fs[n - 1] /\ Top = fs[n]
  BY DEF Caller, Top
<1> HIDE DEF n
<1>4. n - 1 \in 1 .. n /\ n \in 1 .. n /\ n - 1 \in 1 .. n - 1 /\ (n - 1) + 1 = n
  BY <1>1, <1>2
<1>5. /\ ComputeFits(Circuits, fs[n - 1]) /\ (Solving(fs, n - 1) => Mirrors(fs[n - 1]))
      /\ ComputeFits(Circuits, fs[n]) /\ (Solving(fs, n) => Mirrors(fs[n]))
  BY <1>1, <1>4 DEF ComputeStackFits, n
<1>6. /\ Awaits(Circuits, fs[n - 1], fs[(n - 1) + 1])
      /\ Solving(fs, n - 1) => Asked(Circuits, fs[n - 1], fs[(n - 1) + 1])
  BY <1>1, <1>4 DEF ComputeStackFits, n
<1> QED BY <1>2, <1>3, <1>4, <1>5, <1>6 DEF n

\* What is known of the call that a caller waits for.
LEMMA AwaitedFacts ==
    ASSUME IInv, CInv, Running("compute"), NEW f, ComputeFits(Circuits, f),
           NEW g, Awaits(Circuits, f, g)
    PROVE  LET c == Circuits[f.c]
               op == c.opcodes[f.pc]
               callee == Circuits[g.c]
           IN  /\ op.op = "Call" /\ g.c = op.id /\ f.pc \in DOMAIN c.opcodes /\ IsSequence(c.opcodes)
               /\ op.outs \in Seq(Nat) /\ Returns(op) \in Seq(Nat) /\ Len(Returns(op)) = Len(op.outs)
               /\ ToSet(Returns(op)) \cap Params(callee) = {}
               /\ ToSet(op.outs) \cap Params(c) = {}
               /\ WriterAfter(c, f.pc).known = DOMAIN f.vals \cup ToSet(op.outs)
               /\ MemoryFits(c.opcodes, f.pc + 1, f.mem)
               /\ IsValuation(f.vals) /\ IsSolver(f.ref)
               /\ EmitExpression(op.pred, f.vals) = Value(op.pred, f.vals)
               /\ Value(op.pred, f.vals) \in F
<1> DEFINE c == Circuits[f.c]
           pc == f.pc
           code == c.opcodes
           op == code[pc]
           v == f.vals
           callee == Circuits[op.id]
<1>1. /\ WellFormed(Circuits) /\ \A i \in DOMAIN Circuits : Translates(Circuits[i])
  BY ComputeFacts
<1>2. /\ pc \in DOMAIN code /\ op.op = "Call" /\ g.c = op.id /\ Support(op.pred) \subseteq DOMAIN v
  BY DEF Awaits
<1>3. /\ f.c \in DOMAIN Circuits /\ IsValuation(v) /\ IsSolver(f.ref)
      /\ DOMAIN v = WriterAfter(c, pc - 1).known /\ MemoryFits(code, pc, f.mem)
  BY DEF ComputeFits
<1>4. IsCircuit(c) /\ IsSequence(code) /\ Translates(c) /\ Checked(Circuits, code, pc) /\ IsOpcode(op)
  BY <1>1, <1>2, <1>3 DEF WellFormed, IsCircuit
<1>5. /\ op.outs \in Seq(Nat) /\ IsExpression(op.pred)
      /\ op.id \in DOMAIN Circuits /\ Len(callee.returns) = Len(op.outs)
  BY <1>2, <1>4 DEF IsOpcode, Checked
<1>6. callee.returns \in Seq(Nat)
  BY <1>1, <1>5 DEF WellFormed, IsCircuit
<1>7. ~VerifierRefuses(c, op)
  BY <1>2, <1>4 DEF Translates, ToSet
<1>8. Outputs(op) = ToSet(op.outs)
  BY <1>2 DEF Outputs
<1>9. ToSet(op.outs) \cap Params(c) = {} /\ ToSet(callee.returns) \subseteq Members(callee)
  BY <1>2, <1>7, <1>8 DEF VerifierRefuses
<1>10. ToSet(callee.returns) \cap Params(callee) = {}
  <2> DEFINE d == callee
  <2> HIDE DEF d
  <2>1. Members(d) \cap Params(d) = {}
    BY DEF Members
  <2> QED BY <1>9, <2>1 DEF d
<1>11. WriterAfter(c, pc).known = DOMAIN v \cup ToSet(op.outs)
  <2>1. op.op # "AssertZero" => WriterAfter(c, pc).known = WriterAfter(c, pc - 1).known \cup Outputs(op)
    <3> HIDE DEF c, pc
    <3> QED BY <1>2, <1>4, KnownAfter
  <2> QED BY <1>2, <1>3, <1>8, <2>1
<1>12. MemoryFits(code, pc + 1, f.mem)
  <2>1. MadeBy(code[pc]) = {} /\ pc \in Nat \ {0}
    BY <1>2, <1>4 DEF MadeBy, IsSequence
  <2> HIDE DEF code, pc
  <2>2. BlocksBefore(code, pc + 1) = BlocksBefore(code, pc) \cup MadeBy(code[pc])
    BY <2>1, BlocksGrow
  <2> QED BY <1>3, <2>1, <2>2 DEF MemoryFits
<1>13. EmitExpression(op.pred, v) = Value(op.pred, v) /\ Value(op.pred, v) \in F
  <2> DEFINE e == op.pred
  <2>1. IsExpression(e) /\ Support(e) \subseteq DOMAIN v
    BY <1>2, <1>5
  <2> HIDE DEF e, v
  <2>2. EmitExpression(e, v) = Value(e, v) /\ Value(e, v) \in F
    BY <1>3, <2>1, ValueOfSupport
  <2> QED BY <2>2 DEF e
<1> QED BY <1>2, <1>3, <1>4, <1>5, <1>6, <1>9, <1>10, <1>11, <1>12, <1>13 DEF Returns

\* A caller whose witnesses and subcomponents change goes on.
Resumes(f, vals, w, sub, ref) ==
    [[f EXCEPT !.vals = vals, !.self.w = w]
        EXCEPT !.pc = @ + 1, !.self.subs = With(@, f.pc, sub), !.ref = ref]

LEMMA CallerMoves ==
    ASSUME NEW f, ComputeFits(Circuits, f), NEW newvals, NEW neww, NEW sub, NEW newref
    PROVE  Resumes(f, newvals, neww, sub, newref)
             = [c |-> f.c, pc |-> f.pc + 1, vals |-> newvals,
                self |-> [w |-> neww, subs |-> With(f.self.subs, f.pc, sub)],
                mem |-> f.mem, ref |-> newref]
<1> DEFINE c == f.c
           pc == f.pc
           vals == f.vals
           w == Solved(Circuits[f.c], f.vals)
           subs == f.self.subs
           self == [w |-> w, subs |-> subs]
           mem == f.mem
           ref == f.ref
           newpc == f.pc + 1
           self1 == [w |-> neww, subs |-> subs]
           newsubs == With(f.self.subs, f.pc, sub)
           self2 == [w |-> neww, subs |-> newsubs]
<1>1. f = [c |-> c, pc |-> pc, vals |-> vals, self |-> self, mem |-> mem, ref |-> ref]
  BY DEF ComputeFits
<1>0. [self EXCEPT !.w = neww] = self1 /\ [self1 EXCEPT !.subs = newsubs] = self2
      /\ self1.subs = subs
  <2> HIDE DEF w, subs, newsubs
  <2> QED OBVIOUS
<1>2. newpc = pc + 1 /\ newsubs = With(subs, pc, sub)
  OBVIOUS
<1> HIDE DEF c, pc, vals, w, subs, self, self1, self2, newsubs, mem, ref, newpc
<1> DEFINE f1 == [f EXCEPT !.vals = newvals]
           f2 == [f1 EXCEPT !.self = self1]
           f3 == [f2 EXCEPT !.pc = newpc]
           f4 == [f3 EXCEPT !.self = self2]
<1>3. f1 = [c |-> c, pc |-> pc, vals |-> newvals, self |-> self, mem |-> mem, ref |-> ref]
  BY <1>1
<1>4. [f EXCEPT !.vals = newvals, !.self.w = neww] = f2
  <2>1. f1.self = self
    BY <1>3
  <2>2. [f EXCEPT !.vals = newvals, !.self.w = neww]
          = [f1 EXCEPT !.self = [f1.self EXCEPT !.w = neww]]
    OBVIOUS
  <2> QED BY <1>0, <2>1, <2>2
<1> HIDE DEF f1
<1>5. f2 = [c |-> c, pc |-> pc, vals |-> newvals, self |-> self1, mem |-> mem, ref |-> ref]
  BY <1>3
<1> HIDE DEF f2
<1>6. f2.pc = pc
  BY <1>5
<1>7. f3 = [c |-> c, pc |-> newpc, vals |-> newvals, self |-> self1, mem |-> mem, ref |-> ref]
  BY <1>5
<1> HIDE DEF f3
<1>8. f3.self = self1
  BY <1>7
<1>9. f4 = [c |-> c, pc |-> newpc, vals |-> newvals, self |-> self2, mem |-> mem, ref |-> ref]
  BY <1>7
<1>10. [f2 EXCEPT !.pc = @ + 1, !.self.subs = With(@, pc, sub), !.ref = newref]
         = [f4 EXCEPT !.ref = newref]
  <2> DEFINE g3 == [f2 EXCEPT !.pc = f2.pc + 1]
             g4 == [g3 EXCEPT !.self = [g3.self EXCEPT !.subs = With(g3.self.subs, pc, sub)]]
  <2>1. [f2 EXCEPT !.pc = @ + 1, !.self.subs = With(@, pc, sub), !.ref = newref]
          = [g4 EXCEPT !.ref = newref]
    OBVIOUS
  <2>2. g3 = f3
    BY <1>2, <1>6 DEF f3
  <2>3. g4 = f4
    <3>1. g3.self = self1 /\ g3.self.subs = subs
      BY <1>0, <1>8, <2>2
    <3>2. [g3.self EXCEPT !.subs = With(g3.self.subs, pc, sub)] = self2
      BY <1>0, <1>2, <3>1
    <3> HIDE DEF g3
    <3> QED BY <2>2, <3>2
  <2> QED BY <2>1, <2>3
<1> HIDE DEF f4
<1>11. [f4 EXCEPT !.ref = newref]
         = [c |-> c, pc |-> newpc, vals |-> newvals, self |-> self2, mem |-> mem, ref |-> newref]
  BY <1>9
<1> QED BY <1>4, <1>10, <1>11 DEF Resumes, c, pc, newpc, self2, newsubs, mem

\* What ACVM does when a callee returns.
LEMMA ReturnedContinues ==
    ASSUME NEW op, IsSolver(Caller.ref)
    PROVE  /\ Continues(Caller.ref, Returned(op))
           /\ Caller.ref.st = "solving" /\ Returned(op).st = "solving" =>
                 /\ Returned(op).mem = Caller.ref.mem
                 /\ \/ /\ Top.ref.st = "skipped"
                       /\ Returned(op).sol = Override(Caller.ref.sol, Written(op.outs, Zeros(op.outs)))
                    \/ /\ Top.ref.st \notin {"skipped", "failed", "stalled"}
                       /\ ToSet(Returns(op)) \subseteq DOMAIN Top.ref.sol
                       /\ Returned(op).sol = Override(Caller.ref.sol, Written(op.outs,
                             [k \in DOMAIN Returns(op) |-> Top.ref.sol[Returns(op)[k]]]))
<1> DEFINE r == Caller.ref
           callee == Top.ref
           returns == Returns(op)
           a == AcvmReturn(r, op, callee, returns)
           xs == [k \in DOMAIN returns |-> callee.sol[returns[k]]]
<1>1. Continues(r, r)
  BY FailContinues
<1>2. Returned(op) = IF r.st \in {"solving", "stalled"} THEN a ELSE r
  BY DEF Returned
<1>3. /\ Continues(r, a) /\ a.mem = r.mem
      /\ a.st = "solving" =>
            \/ /\ callee.st = "skipped"
               /\ a.sol = Override(r.sol, Written(op.outs, Zeros(op.outs)))
            \/ /\ callee.st \notin {"skipped", "failed", "stalled"}
               /\ ToSet(returns) \subseteq DOMAIN callee.sol
               /\ a.sol = Override(r.sol, Written(op.outs, xs))
  <2> HIDE DEF r, callee, returns
  <2>1. IsSolver(r)
    BY DEF r
  <2> QED BY <2>1, ReturnContinues
<1> HIDE DEF a, xs
<1>4. CASE r.st \in {"solving", "stalled"}
  <2>1. Returned(op) = a
    BY <1>2, <1>4
  <2> QED BY <1>3, <2>1 DEF xs
<1>5. CASE r.st \notin {"solving", "stalled"}
  <2>1. Returned(op) = r
    BY <1>2, <1>5
  <2> QED BY <1>1, <1>5, <2>1
<1> QED BY <1>4, <1>5

\* The results that a callee's struct holds are the values of its witnesses.
LEMMA ResultsAre ==
    ASSUME NEW g, ComputeFits(Circuits, g), NEW returns \in Seq(Nat),
           ToSet(returns) \cap Params(Circuits[g.c]) = {}
    PROVE  /\ ToSet(returns) \subseteq DOMAIN g.self.w <=> ToSet(returns) \subseteq DOMAIN g.vals
           /\ ToSet(returns) \subseteq DOMAIN g.vals =>
                 \A k \in DOMAIN returns : g.self.w[returns[k]] = g.vals[returns[k]]
                                           /\ g.vals[returns[k]] \in F
<1> DEFINE c == Circuits[g.c]
           v == g.vals
           w == g.self.w
<1>1. w = Solved(c, v) /\ IsValuation(v)
  BY WitnessesMove DEF ComputeFits
<1> HIDE DEF c, v, w
<1>2. DOMAIN w = DOMAIN v \ Params(c) /\ \A x \in DOMAIN w : w[x] = v[x]
  BY <1>1 DEF Solved
<1>3. ToSet(returns) \cap Params(c) = {}
  BY DEF c
<1>4. \A k \in DOMAIN returns : returns[k] \in ToSet(returns)
  BY DEF ToSet
<1>5. ToSet(returns) \subseteq DOMAIN w <=> ToSet(returns) \subseteq DOMAIN v
  BY <1>2, <1>3
<1>6. ASSUME ToSet(returns) \subseteq DOMAIN v, NEW k \in DOMAIN returns
      PROVE  w[returns[k]] = v[returns[k]] /\ v[returns[k]] \in F
  BY <1>1, <1>2, <1>4, <1>5, <1>6 DEF IsValuation
<1> QED BY <1>5, <1>6 DEF v, w

\* The stack after a return.
LEMMA StackReturns ==
    ASSUME NEW fs, fs \in Seq(ToSet(fs)), Len(fs) > 1, NEW h
    PROVE  Append(SubSeq(fs, 1, Len(fs) - 2), h)
              = [k \in 1 .. Len(fs) - 1 |-> IF k = Len(fs) - 1 THEN h ELSE fs[k]]
<1> DEFINE n == Len(fs)
           init == SubSeq(fs, 1, n - 2)
           new == Append(init, h)
<1>1. n \in Nat /\ n > 1 /\ DOMAIN fs = 1 .. n
  OBVIOUS
<1>2. /\ init \in Seq(ToSet(fs)) /\ Len(init) = n - 2
      /\ \A k \in 1 .. n - 2 : init[k] = fs[k]
  BY <1>1
<1> HIDE DEF init, n
<1>3. /\ DOMAIN new = 1 .. n - 1 /\ new[n - 1] = h
      /\ \A k \in 1 .. n - 2 : new[k] = fs[k]
  BY <1>1, <1>2
<1>4. new = [k \in 1 .. n - 1 |-> new[k]]
  <2>1. new \in Seq(ToSet(fs) \cup {h})
    BY <1>1, <1>2 DEF new
  <2> HIDE DEF new
  <2> QED BY <1>3, <2>1
<1>5. ASSUME NEW k \in 1 .. n - 1 PROVE new[k] = IF k = n - 1 THEN h ELSE fs[k]
  <2>1. k = n - 1 \/ k \in 1 .. n - 2
    BY <1>1
  <2> HIDE DEF new
  <2> QED BY <1>1, <1>3, <2>1
<1> HIDE DEF new
<1> QED BY <1>4, <1>5 DEF new, init, n

\* The results of a callee that returns, scaled by the predicate, are those that ACVM has.
LEMMA ResultsAgree ==
    ASSUME IInv, CInv, Running("compute"), Len(stack) > 1
    PROVE  LET op == Code(Caller)[Caller.pc]
               v == Caller.vals
               p == EmitExpression(op.pred, v)
               ret == [k \in DOMAIN op.outs |-> Top.self.w[Returns(op)[k]]]
               g == Written(op.outs, Gated(p, ret))
           IN  /\ Continues(Caller.ref, Returned(op))
               /\ ToSet(Returns(op)) \subseteq DOMAIN Top.self.w => g \in [ToSet(op.outs) -> F]
               /\ Solving(stack, Len(stack) - 1) /\ Top.ref.st \in {"solving", "skipped"}
                     /\ Returned(op).st = "solving"
                     /\ ToSet(Returns(op)) \subseteq DOMAIN Top.self.w =>
                     /\ Returned(op).sol = Override(v, g) /\ Returned(op).mem = Caller.mem
               /\ Solving(stack, Len(stack)) /\ Returned(op).st = "solving" =>
                     ToSet(Returns(op)) \subseteq DOMAIN Top.self.w
<1> DEFINE f == Caller
           op == Code(Caller)[Caller.pc]
           v == f.vals
           p == EmitExpression(op.pred, v)
           returns == Returns(op)
           ret == [k \in DOMAIN op.outs |-> Top.self.w[returns[k]]]
           outs == op.outs
           n == Len(stack)
           a == Returned(op)
           known == ToSet(returns) \subseteq DOMAIN Top.self.w
           g == Written(outs, Gated(p, ret))
<1>0. op = Circuits[f.c].opcodes[f.pc]
  BY DEF Code
<1>1. /\ n - 1 \in 1 .. n /\ n \in Nat /\ ComputeFits(Circuits, f) /\ ComputeFits(Circuits, Top)
      /\ Awaits(Circuits, f, Top) /\ Caller = stack[n - 1] /\ Top = stack[n]
      /\ Solving(stack, n - 1) => Mirrors(f) /\ Asked(Circuits, f, Top)
      /\ Solving(stack, n) => Mirrors(Top)
  BY CallerFacts
<1>2. /\ outs \in Seq(Nat) /\ returns \in Seq(Nat) /\ Len(returns) = Len(outs)
      /\ ToSet(returns) \cap Params(Circuits[Top.c]) = {} /\ IsSolver(f.ref)
      /\ p = Value(op.pred, v) /\ p \in F
  <2> DEFINE t == Top
             o == Circuits[f.c].opcodes[f.pc]
  <2>1. ComputeFits(Circuits, f) /\ Awaits(Circuits, f, t)
    BY <1>1
  <2>2. op = o
    BY <1>0
  <2> HIDE DEF f, t, op
  <2>3. /\ o.outs \in Seq(Nat) /\ Returns(o) \in Seq(Nat) /\ Len(Returns(o)) = Len(o.outs)
        /\ ToSet(Returns(o)) \cap Params(Circuits[t.c]) = {} /\ IsSolver(f.ref)
        /\ EmitExpression(o.pred, f.vals) = Value(o.pred, f.vals) /\ Value(o.pred, f.vals) \in F
    BY <2>1, AwaitedFacts
  <2> HIDE DEF o
  <2> QED BY <2>2, <2>3 DEF t
<1>3. DOMAIN returns = DOMAIN outs
  <2> HIDE DEF returns, outs
  <2> QED BY <1>2
<1>4. /\ known <=> ToSet(returns) \subseteq DOMAIN Top.vals
      /\ ToSet(returns) \subseteq DOMAIN Top.vals =>
            \A k \in DOMAIN returns : Top.self.w[returns[k]] = Top.vals[returns[k]]
                                      /\ Top.vals[returns[k]] \in F
  <2> DEFINE t == Top
  <2>1. ComputeFits(Circuits, t) /\ ToSet(returns) \cap Params(Circuits[t.c]) = {}
    BY <1>1, <1>2
  <2> HIDE DEF t, returns
  <2>2. /\ ToSet(returns) \subseteq DOMAIN t.self.w <=> ToSet(returns) \subseteq DOMAIN t.vals
        /\ ToSet(returns) \subseteq DOMAIN t.vals =>
              \A k \in DOMAIN returns : t.self.w[returns[k]] = t.vals[returns[k]]
                                        /\ t.vals[returns[k]] \in F
    BY <1>2, <2>1, ResultsAre
  <2> QED BY <2>2 DEF t
<1>5. Continues(f.ref, a)
      /\ (f.ref.st = "solving" /\ a.st = "solving" =>
            /\ a.mem = f.ref.mem
            /\ \/ /\ Top.ref.st = "skipped"
                  /\ a.sol = Override(f.ref.sol, Written(outs, Zeros(outs)))
               \/ /\ Top.ref.st \notin {"skipped", "failed", "stalled"}
                  /\ ToSet(returns) \subseteq DOMAIN Top.ref.sol
                  /\ a.sol = Override(f.ref.sol, Written(outs,
                        [k \in DOMAIN returns |-> Top.ref.sol[returns[k]]])))
  <2> DEFINE op1 == op
  <2>1. IsSolver(Caller.ref)
    BY <1>2
  <2> HIDE DEF op1
  <2>2. /\ Continues(Caller.ref, Returned(op1))
        /\ Caller.ref.st = "solving" /\ Returned(op1).st = "solving" =>
              /\ Returned(op1).mem = Caller.ref.mem
              /\ \/ /\ Top.ref.st = "skipped"
                    /\ Returned(op1).sol = Override(Caller.ref.sol, Written(op1.outs, Zeros(op1.outs)))
                 \/ /\ Top.ref.st \notin {"skipped", "failed", "stalled"}
                    /\ ToSet(Returns(op1)) \subseteq DOMAIN Top.ref.sol
                    /\ Returned(op1).sol = Override(Caller.ref.sol, Written(op1.outs,
                          [k \in DOMAIN Returns(op1) |-> Top.ref.sol[Returns(op1)[k]]]))
    BY <2>1, ReturnedContinues
  <2> QED BY <2>2 DEF op1
<1>6. ASSUME known
      PROVE  g \in [ToSet(outs) -> F] /\ (p = 0 => Gated(p, ret) = Zeros(outs))
             /\ (p = 1 => Gated(p, ret) = ret)
  <2>1. ret \in [DOMAIN outs -> F]
    <3>1. \A k \in DOMAIN outs : Top.self.w[returns[k]] \in F
      <4> HIDE DEF returns, outs
      <4> QED BY <1>3, <1>4, <1>6
    <3> HIDE DEF returns
    <3> QED BY <3>1
  <2> HIDE DEF ret, outs, p
  <2>2. /\ Written(outs, Gated(p, ret)) \in [ToSet(outs) -> F]
        /\ p = 0 => Gated(p, ret) = Zeros(outs)
        /\ p = 1 => Gated(p, ret) = ret
    BY <1>2, <2>1, GatedResults
  <2> QED BY <2>2
<1>7. ASSUME Solving(stack, n - 1), a.st = "solving"
      PROVE  /\ f.ref.st = "solving" /\ f.ref.sol = v /\ f.ref.mem = f.mem
             /\ Top.ref.st = "skipped" => p = 0
             /\ Top.ref.st = "solving" => p = 1
  <2>1. f.ref.st = "solving"
    <3>1. n - 1 \in 1 .. n - 1
      <4> HIDE DEF n
      <4> QED BY <1>1
    <3> QED BY <1>1, <1>7, <3>1 DEF Solving
  <2>2. Mirrors(f) /\ Asked(Circuits, f, Top)
    BY <1>1, <1>7
  <2> QED BY <1>0, <1>2, <2>1, <2>2 DEF Mirrors, Asked
<1>8. ASSUME Solving(stack, n - 1), Top.ref.st = "solving"
      PROVE  Top.ref.sol = Top.vals
  <2>1. Solving(stack, n)
    <3> SUFFICES ASSUME NEW j \in 1 .. n PROVE stack[j].ref.st = "solving"
      BY DEF Solving
    <3>1. j = n \/ j \in 1 .. n - 1
      <4> HIDE DEF n
      <4> QED BY <1>1
    <3> QED BY <1>1, <1>8, <3>1 DEF Solving
  <2> QED BY <1>1, <2>1 DEF Mirrors
<1>9. ASSUME Solving(stack, n - 1), Top.ref.st \in {"solving", "skipped"}, a.st = "solving", known
      PROVE  a.sol = Override(v, g) /\ a.mem = f.mem
  <2> HIDE DEF a, f, v, outs, p, ret, g
  <2>1. CASE Top.ref.st = "skipped"
    <3>1. Gated(p, ret) = Zeros(outs)
      <4> HIDE DEF known
      <4> QED BY <1>6, <1>7, <1>9, <2>1
    <3> QED BY <1>5, <1>7, <1>9, <2>1, <3>1 DEF g
  <2>2. CASE Top.ref.st = "solving"
    <3> DEFINE xs == [k \in DOMAIN returns |-> Top.ref.sol[returns[k]]]
    <3>1. a.sol = Override(v, Written(outs, xs)) /\ a.mem = f.mem
      <4> HIDE DEF xs, known
      <4> QED BY <1>5, <1>7, <1>9, <2>2 DEF xs
    <3>2. xs = ret
      <4>1. Top.ref.sol = Top.vals
        BY <1>8, <1>9, <2>2
      <4>2. \A k \in DOMAIN returns : Top.ref.sol[returns[k]] = Top.self.w[returns[k]]
        <5> HIDE DEF returns
        <5> QED BY <1>4, <1>9, <4>1
      <4>3. xs = [k \in DOMAIN returns |-> Top.self.w[returns[k]]]
        BY <4>2
      <4> HIDE DEF xs, returns
      <4> QED BY <1>3, <4>3 DEF ret, outs
    <3>3. Gated(p, ret) = ret
      <4> HIDE DEF known
      <4> QED BY <1>6, <1>7, <1>9, <2>2
    <3> HIDE DEF xs
    <3> QED BY <3>1, <3>2, <3>3 DEF g
  <2> QED BY <1>9, <2>1, <2>2
<1>10. ASSUME Solving(stack, n), a.st = "solving" PROVE known
  <2>1. Top.ref.st = "solving" /\ Solving(stack, n - 1)
    <3>1. n \in 1 .. n /\ \A j \in 1 .. n - 1 : j \in 1 .. n
      <4> HIDE DEF n
      <4> QED BY <1>1
    <3> QED BY <1>1, <1>10, <3>1 DEF Solving
  <2>2. f.ref.st = "solving" /\ Top.ref.sol = Top.vals
    BY <1>7, <1>8, <1>10, <2>1
  <2>3. ToSet(returns) \subseteq DOMAIN Top.ref.sol
    <3> HIDE DEF a, f, outs, returns, known
    <3> QED BY <1>5, <1>10, <2>1, <2>2
  <2> QED BY <1>4, <2>2, <2>3
<1> HIDE DEF known
<1> QED BY <1>5, <1>6, <1>9, <1>10 DEF known

\* The caller of a callee that returns has the same results as ACVM.
LEMMA ReturnFollows == ASSUME IInv, CInv, ComputeReturn PROVE CInv'
<1> DEFINE f == Caller
           op == Code(Caller)[Caller.pc]
           v == f.vals
           p == EmitExpression(op.pred, v)
           ret == [k \in DOMAIN op.outs |-> Top.self.w[Returns(op)[k]]]
           ws == op.outs
           xs == Gated(p, ret)
           g == Written(ws, xs)
           n == Len(stack)
           fs == stack
           a == Returned(op)
           d == Define(f, ws, xs)
           newv == Override(v, g)
           neww == Override(f.self.w, g)
           subs == With(f.self.subs, f.pc, Top.self)
           h == Next_(f, newv, subs, f.mem, a)
           gs == stack'
<1>1. /\ Running("compute") /\ n > 1 /\ ToSet(Returns(op)) \subseteq DOMAIN Top.self.w
      /\ gs = Append(SubSeq(stack, 1, Len(stack) - 2),
                     [d EXCEPT !.pc = @ + 1, !.self.subs = With(@, Caller.pc, Top.self), !.ref = a])
      /\ prog' = prog /\ phase' = phase /\ outcome' = outcome
  BY DEF ComputeReturn
<1>2. /\ n - 1 \in 1 .. n /\ n \in Nat /\ ComputeFits(Circuits, f) /\ Awaits(Circuits, f, Top)
      /\ f = fs[n - 1] /\ Top = fs[n] /\ (Solving(fs, n - 1) => Mirrors(f) /\ Asked(Circuits, f, Top))
  BY <1>1, CallerFacts
<1>3. ComputeStackFits(Circuits, fs) /\ phase = "compute" /\ outcome = "ok"
  BY <1>1, ComputeFacts
<1>4. /\ f.pc \in DOMAIN Circuits[f.c].opcodes /\ IsSequence(Circuits[f.c].opcodes)
      /\ ToSet(ws) \cap Params(Circuits[f.c]) = {}
      /\ WriterAfter(Circuits[f.c], f.pc).known = DOMAIN v \cup ToSet(ws)
      /\ MemoryFits(Circuits[f.c].opcodes, f.pc + 1, f.mem)
      /\ IsValuation(v)
  <2> DEFINE t == Top
             o == Circuits[f.c].opcodes[f.pc]
  <2>1. ComputeFits(Circuits, f) /\ Awaits(Circuits, f, t)
    BY <1>2
  <2>2. op = o
    BY DEF Code
  <2> HIDE DEF f, t, op
  <2>3. /\ f.pc \in DOMAIN Circuits[f.c].opcodes /\ IsSequence(Circuits[f.c].opcodes)
        /\ ToSet(o.outs) \cap Params(Circuits[f.c]) = {}
        /\ WriterAfter(Circuits[f.c], f.pc).known = DOMAIN f.vals \cup ToSet(o.outs)
        /\ MemoryFits(Circuits[f.c].opcodes, f.pc + 1, f.mem)
        /\ IsValuation(f.vals)
    BY <1>1, <2>1, AwaitedFacts
  <2> HIDE DEF o
  <2> QED BY <2>2, <2>3
<1>5. /\ Continues(f.ref, a) /\ g \in [ToSet(ws) -> F]
      /\ Solving(fs, n - 1) /\ Top.ref.st \in {"solving", "skipped"} /\ a.st = "solving" =>
            a.sol = newv /\ a.mem = f.mem
  BY <1>1, ResultsAgree
<1> HIDE DEF g
<1>6. IsValuation(newv) /\ DOMAIN newv = DOMAIN v \cup ToSet(ws)
  <2>1. IsValuation(g) /\ DOMAIN g = ToSet(ws)
    <3> HIDE DEF ws
    <3> QED BY <1>5 DEF IsValuation
  <2> HIDE DEF v, ws
  <2>2. IsValuation(Override(v, g)) /\ DOMAIN Override(v, g) = DOMAIN v \cup DOMAIN g
    BY <1>4, <2>1, Overridden
  <2> QED BY <2>1, <2>2
<1>7. neww = Solved(Circuits[f.c], newv)
  <2> DEFINE c == Circuits[f.c]
  <2>1. f.self.w = Solved(c, v)
    <3> HIDE DEF f
    <3>1. f.self.w = Solved(Circuits[f.c], f.vals)
      BY <1>2, WitnessesMove
    <3> QED BY <3>1
  <2>2. DOMAIN g \cap Params(c) = {}
    <3> HIDE DEF ws, c
    <3>1. DOMAIN g = ToSet(ws)
      BY <1>5
    <3> QED BY <1>4, <3>1 DEF c
  <2> HIDE DEF c, v
  <2>3. Override(Solved(c, v), g) = Solved(c, Override(v, g))
    BY <2>2, MembersFollow
  <2> QED BY <2>1, <2>3 DEF c
<1>8. [d EXCEPT !.pc = @ + 1, !.self.subs = With(@, Caller.pc, Top.self), !.ref = a] = h
  <2>1. d = [f EXCEPT !.vals = newv, !.self.w = neww]
    BY DEF Define, g
  <2> DEFINE sub == Top.self
  <2> HIDE DEF f, newv, neww, a, d, sub
  <2>2. Resumes(f, newv, neww, sub, a)
           = [c |-> f.c, pc |-> f.pc + 1, vals |-> newv,
              self |-> [w |-> neww, subs |-> With(f.self.subs, f.pc, sub)],
              mem |-> f.mem, ref |-> a]
    BY <1>2, CallerMoves
  <2>3. [d EXCEPT !.pc = @ + 1, !.self.subs = With(@, f.pc, sub), !.ref = a]
           = [c |-> f.c, pc |-> f.pc + 1, vals |-> newv,
              self |-> [w |-> neww, subs |-> With(f.self.subs, f.pc, sub)],
              mem |-> f.mem, ref |-> a]
    BY <2>1, <2>2 DEF Resumes
  <2> QED BY <1>7, <2>3 DEF Next_, f, sub
<1>9. gs = [k \in 1 .. n - 1 |-> IF k = n - 1 THEN h ELSE fs[k]]
  <2>1. fs \in Seq(ToSet(fs)) /\ Len(fs) > 1
    BY <1>1, <1>3 DEF ComputeStackFits
  <2>2. gs = Append(SubSeq(fs, 1, Len(fs) - 2), h)
    <3> HIDE DEF h, d, a, f
    <3> QED BY <1>1, <1>8
  <2> HIDE DEF h, fs, gs
  <2>3. gs = [k \in 1 .. Len(fs) - 1 |-> IF k = Len(fs) - 1 THEN h ELSE fs[k]]
    BY <2>1, <2>2, StackReturns
  <2> QED BY <2>3 DEF fs
<1>10. /\ ComputeFits(Circuits, h) /\ h.c = f.c /\ h.ref = a /\ h.vals = newv /\ h.mem = f.mem
  <2> DEFINE mem == f.mem
  <2>1. /\ IsValuation(newv) /\ DOMAIN f.vals \subseteq DOMAIN newv /\ KnowsNext(f, newv)
        /\ MemoryFits(Circuits[f.c].opcodes, f.pc + 1, mem) /\ IsSolver(a)
    <3> HIDE DEF newv
    <3> QED BY <1>4, <1>5, <1>6 DEF KnowsNext, Continues
  <2> HIDE DEF f, newv, subs, mem, a
  <2>2. LET x == Next_(f, newv, subs, mem, a)
        IN  ComputeFits(Circuits, x) /\ x.c = f.c /\ x.ref = a /\ x.vals = newv /\ x.mem = mem
    BY <1>2, <1>4, <2>1, NextFits
  <2> QED BY <2>2 DEF mem
<1>11. ASSUME Solving(gs, n - 1) PROVE Mirrors(h)
  <2> HIDE DEF h, a, gs, newv
  <2> DEFINE m == n - 1
  <2>0. m \in 1 .. m /\ \A k \in 1 .. m : k \in 1 .. n
    <3>1. n > 1 /\ n \in Nat
      BY <1>1, <1>2
    <3> HIDE DEF n
    <3> QED BY <3>1
  <2>00. gs = [k \in 1 .. m |-> IF k = m THEN h ELSE fs[k]]
    BY <1>9
  <2>1. gs[m] = h /\ \A k \in 1 .. m : k # m => gs[k] = fs[k]
    <3> HIDE DEF m
    <3> QED BY <2>0, <2>00
  <2>2. a.st = "solving" /\ f.ref.st = "solving"
    <3>1. gs[m].ref.st = "solving"
      BY <1>11, <2>0 DEF Solving
    <3> QED BY <1>5, <1>10, <2>1, <3>1 DEF Continues
  <2>3. Solving(fs, m)
    <3> SUFFICES ASSUME NEW k \in 1 .. m PROVE fs[k].ref.st = "solving"
      BY DEF Solving
    <3>1. CASE k = m
      BY <1>2, <2>2, <3>1
    <3>2. CASE k # m
      <4>1. gs[k] = fs[k] /\ gs[k].ref.st = "solving"
        BY <1>11, <2>1, <3>2 DEF Solving
      <4> QED BY <4>1
    <3> QED BY <3>1, <3>2
  <2>4. Top.ref.st \in {"solving", "skipped"}
    <3> DEFINE o == op
               t == Top
               q == Top.ref
    <3>1. a = Returned(op) /\ IsSolver(Caller.ref)
      BY <1>2 DEF a, ComputeFits
    <3> HIDE DEF o
    <3>2. Caller.ref.st = "solving" /\ Returned(o).st = "solving" =>
             Top.ref.st = "skipped" \/ Top.ref.st \notin {"skipped", "failed", "stalled"}
      BY <3>1, ReturnedContinues
    <3>3. IsSolver(Top.ref)
      BY <1>1, CallerFacts DEF ComputeFits
    <3>4. Top.ref.st = "skipped" \/ Top.ref.st \notin {"skipped", "failed", "stalled"}
      BY <2>2, <3>1, <3>2 DEF o
    <3> QED BY <3>3, <3>4 DEF IsSolver
  <2>5. a.sol = newv /\ a.mem = f.mem
    BY <1>5, <2>2, <2>3, <2>4
  <2> QED BY <1>10, <2>5 DEF Mirrors
<1>12. ComputeStackFits(Circuits, gs)
  <2> DEFINE m == n - 1
  <2>1. m \in 1 .. Len(fs) /\ h.c = fs[m].c /\ Continues(fs[m].ref, h.ref)
    BY <1>2, <1>5, <1>10
  <2>2. gs = [k \in 1 .. m |-> IF k = m THEN h ELSE fs[k]] /\ (Solving(gs, m) => Mirrors(h))
    BY <1>9, <1>11
  <2> HIDE DEF h, gs, m, fs
  <2> QED BY <1>3, <1>10, <2>1, <2>2, TopChanges
<1> HIDE DEF gs
<1>13. ComputeStackFits(Circuits, stack')
  BY <1>12 DEF gs
<1> QED BY <1>1, <1>3, <1>13, OkKeeps

---------------------------------------------------------------------------
\* Reading a member that nobody has written

\* What ACVM executes it has read, unless the call is skipped.
LEMMA SolvingReads ==
    ASSUME NEW f, IsSolver(f.ref), f.ref.st = "solving", NEW op, IsOpcode(op),
           Reference(f, op).st = "solving"
    PROVE  \/ ReadBy(op) \subseteq DOMAIN f.ref.sol
           \/ /\ op.op \in {"Call", "BrilligCall"}
              /\ Support(op.pred) \subseteq DOMAIN f.ref.sol /\ Value(op.pred, f.ref.sol) = 0
              /\ Reference(f, op).mem = f.ref.mem
<1> DEFINE r == f.ref
           a == Reference(f, op)
           reads == ReadBy(op) \subseteq DOMAIN r.sol
           known == Support(op.pred) \subseteq DOMAIN r.sol
           p == Value(op.pred, r.sol)
<1>1. Fail(r).st = "failed"
  BY FailContinues
<1>2. CASE op.op \in {"AssertZero", "RANGE"}
  <2>1. ReadBy(op) = {}
    BY <1>2 DEF ReadBy
  <2> QED BY <2>1
<1>3. CASE op.op = "MemoryInit"
  <2>1. a = AcvmMemoryInit(r, op)
    BY <1>3, ReferenceIs
  <2>2. ReadBy(op) = ToSet(op.init)
    BY <1>3 DEF ReadBy
  <2>3. AcvmMemoryInit(r, op).st = "solving" => ToSet(op.init) \subseteq DOMAIN r.sol
    BY MemoryInitContinues
  <2> HIDE DEF a
  <2> QED BY <2>1, <2>2, <2>3 DEF a
<1>4. CASE op.op = "MemoryOp"
  <2>1. a = AcvmMemoryOp(r, op)
    BY <1>4, ReferenceIs
  <2>2. ReadBy(op) = Support(op.index) \cup (IF op.operation.qc = 1 THEN Support(op.value) ELSE {})
    BY <1>4 DEF ReadBy
  <2>3. AcvmMemoryOp(r, op).st = "solving" =>
           /\ Support(op.index) \subseteq DOMAIN r.sol
           /\ op.operation.qc # 0 => Support(op.value) \subseteq DOMAIN r.sol
    BY MemoryOpContinues
  <2> HIDE DEF a
  <2> QED BY <2>1, <2>2, <2>3 DEF a
<1>5. CASE op.op \in {"AND", "XOR"}
  <2>1. a = AcvmLogic(r, op)
    BY <1>5, ReferenceIs
  <2>2. ReadBy(op) = InputWitnesses(op.ins)
    BY <1>5 DEF ReadBy
  <2>3. AcvmLogic(r, op) = Fail(r) \/ InputWitnesses(op.ins) \subseteq DOMAIN r.sol
    BY DEF AcvmLogic
  <2> HIDE DEF a
  <2> QED BY <1>1, <2>1, <2>2, <2>3 DEF a
<1>6. CASE op.op = "BlackBox"
  <2>1. a = AcvmBlackBox(r, op)
    BY <1>6, ReferenceIs
  <2>2. ReadBy(op) = InputWitnesses(op.ins \o op.pred)
    BY <1>6 DEF ReadBy
  <2>3. AcvmBlackBox(r, op) = Fail(r) \/ InputWitnesses(op.ins \o op.pred) \subseteq DOMAIN r.sol
    BY DEF AcvmBlackBox
  <2> HIDE DEF a
  <2> QED BY <1>1, <2>1, <2>2, <2>3 DEF a
<1>7. CASE op.op = "BrilligCall"
  <2>1. a = AcvmBrilligCall(r, op)
    BY <1>7, ReferenceIs
  <2>2. ReadBy(op) = Support(op.pred) \cup BrilligSupport(op.ins)
    BY <1>7 DEF ReadBy
  <2> DEFINE b == AcvmBrilligCall(r, op)
  <2>3. b.mem = r.mem /\ (b.st = "solving" =>
           known /\ (p = 0 \/ BrilligSupport(op.ins) \subseteq DOMAIN r.sol))
    <3> HIDE DEF r
    <3>1. IsSolver(r)
      BY DEF r
    <3> QED BY <3>1, BrilligContinues
  <2> HIDE DEF b
  <2>4. a = b /\ b.st = "solving"
    BY <2>1 DEF b
  <2>5. reads \/ (known /\ p = 0 /\ a.mem = r.mem)
    <3> HIDE DEF a, p
    <3> QED BY <2>2, <2>3, <2>4
  <2> QED BY <1>7, <2>5
<1>8. CASE op.op = "Call"
  <2> DEFINE callee == AcvmCallee(r, op)
             returns == Returns(op)
             b == AcvmReturn(r, op, callee, returns)
  <2>1. a = b
    BY <1>8, ReferenceIs
  <2>2. ReadBy(op) = ToSet(op.ins) \cup Support(op.pred)
    BY <1>8 DEF ReadBy
  <2>3. /\ IsSolver(callee) /\ (callee.st = "skipped" => PredicateKnown(r, op) /\ p = 0)
        /\ callee.st = "solving" => PredicateKnown(r, op) /\ ToSet(op.ins) \subseteq DOMAIN r.sol
    <3> HIDE DEF r
    <3> QED BY CalleeContinues
  <2> HIDE DEF callee, returns
  <2>4. b.mem = r.mem /\ (b.st = "solving" =>
           callee.st = "skipped" \/ callee.st \notin {"skipped", "failed", "stalled"})
    <3> DEFINE xs == [k \in DOMAIN returns |-> callee.sol[returns[k]]]
    <3>1. IsSolver(r)
      OBVIOUS
    <3> HIDE DEF r
    <3>2. b.mem = r.mem /\ (b.st = "solving" =>
             \/ /\ callee.st = "skipped"
                /\ b.sol = Override(r.sol, Written(op.outs, Zeros(op.outs)))
             \/ /\ callee.st \notin {"skipped", "failed", "stalled"}
                /\ ToSet(returns) \subseteq DOMAIN callee.sol
                /\ b.sol = Override(r.sol, Written(op.outs, xs)))
      BY <3>1, ReturnContinues
    <3> HIDE DEF b, xs
    <3> QED BY <3>2
  <2>5. b.st = "solving"
    BY <2>1
  <2>6. callee.st \in {"skipped", "solving"}
    BY <2>3, <2>4, <2>5 DEF IsSolver
  <2>7. PredicateKnown(r, op) => known
    BY DEF PredicateKnown
  <2> HIDE DEF a, b, p
  <2>8. reads \/ (known /\ p = 0 /\ a.mem = r.mem)
    BY <2>1, <2>2, <2>3, <2>4, <2>6, <2>7
  <2> QED BY <1>8, <2>8 DEF a, p
<1>9. op.op \in {"AssertZero", "MemoryInit", "MemoryOp", "AND", "XOR", "RANGE", "BlackBox",
                 "Call", "BrilligCall"}
  BY DEF IsOpcode
<1> QED BY <1>2, <1>3, <1>4, <1>5, <1>6, <1>7, <1>8, <1>9

\* The code of an opcode reads too early only when ACVM fails, or skips the call.
LEMMA ReadsInTime ==
    ASSUME IInv, CInv, Running("compute"), ~AtEnd(Top), ~(ReadBy(Op) \subseteq DOMAIN Top.vals),
           Replace(Top, "undefined")
    PROVE  CInv'
<1> DEFINE f == Top
           op == Op
           out == "undefined"
<1>1. IsOpcode(op) /\ IsSolver(f.ref)
  BY OpFacts, KnownNext
<1>2. ASSUME Mirrors(Top), Top.ref.st = "solving", Reference(Top, Op).st = "solving"
      PROVE  InSkippedCall /\ Reference(Top, Op).mem = Top.mem
  <2>1. f.ref.sol = f.vals /\ f.ref.mem = f.mem
    BY <1>2 DEF Mirrors
  <2>2. /\ f.ref.st = "solving" /\ Reference(f, op).st = "solving"
        /\ ~(ReadBy(op) \subseteq DOMAIN f.ref.sol)
    BY <1>2, <2>1
  <2>3. /\ op.op \in {"Call", "BrilligCall"}
        /\ Support(op.pred) \subseteq DOMAIN f.ref.sol /\ Value(op.pred, f.ref.sol) = 0
        /\ Reference(f, op).mem = f.ref.mem
    <3> HIDE DEF f, op
    <3> QED BY <1>1, <2>2, SolvingReads
  <2> QED BY <2>1, <2>3 DEF InSkippedCall
<1>3. out # "ok" /\ Replace(Top, out)
  OBVIOUS
<1> HIDE DEF out
<1> QED BY <1>2, <1>3, Stops

\* A result is missing only when ACVM does not execute the program.
LEMMA ResultsInTime ==
    ASSUME IInv, CInv, Running("compute"), Len(stack) > 1,
           ~(ToSet(Returns(Code(Caller)[Caller.pc])) \subseteq DOMAIN Top.self.w),
           stack' = [stack EXCEPT ![Len(stack) - 1].ref = Returned(Code(Caller)[Caller.pc])],
           outcome' = "undefined", prog' = prog, phase' = phase
    PROVE  CInv'
<1> DEFINE fs == stack
           gs == stack'
           n == Len(fs)
           m == n - 1
           a == Returned(Code(Caller)[Caller.pc])
           g == [fs[m] EXCEPT !.ref = a]
<1>1. /\ m \in 1 .. n /\ n \in Nat /\ Caller = fs[m] /\ ComputeFits(Circuits, fs[m])
  BY CallerFacts
<1>2. ComputeStackFits(Circuits, fs) /\ DOMAIN fs = 1 .. n /\ phase = "compute"
  BY ComputeFacts
<1>3. Continues(fs[m].ref, a) /\ ~(Solving(fs, n) /\ a.st = "solving")
  BY <1>1, ResultsAgree
<1>4. g.ref = a
  <2> DEFINE f == fs[m]
             c == f.c
             pc == f.pc
             vals == f.vals
             self == [w |-> Solved(Circuits[f.c], f.vals), subs |-> f.self.subs]
             mem == f.mem
             ref == f.ref
  <2>1. f = [c |-> c, pc |-> pc, vals |-> vals, self |-> self, mem |-> mem, ref |-> ref]
    BY <1>1 DEF ComputeFits
  <2>2. g = [f EXCEPT !.ref = a]
    OBVIOUS
  <2> HIDE DEF f, c, pc, vals, self, mem, ref, a, g
  <2> QED BY <2>1, <2>2
<1>5. gs = [fs EXCEPT ![m] = g]
  <2> HIDE DEF a, m
  <2>1. gs = [fs EXCEPT ![m].ref = a]
    BY DEF a, m
  <2> QED BY <2>1
<1> HIDE DEF g, a, m
<1>6. /\ DOMAIN gs = 1 .. n /\ gs[m] = g
      /\ \A k \in 1 .. n : k # m => gs[k] = fs[k]
  <2> HIDE DEF gs, n
  <2> QED BY <1>1, <1>2, <1>5
<1>7. ASSUME AcvmSolving' PROVE FALSE
  <2>1. \A k \in 1 .. n : gs[k].ref.st = "solving"
    BY <1>6, <1>7 DEF AcvmSolving
  <2>2. a.st = "solving" /\ fs[m].ref.st = "solving"
    BY <1>1, <1>3, <1>4, <1>6, <2>1 DEF Continues
  <2>3. Solving(fs, n)
    <3> SUFFICES ASSUME NEW k \in 1 .. n PROVE fs[k].ref.st = "solving"
      BY DEF Solving
    <3>1. CASE k = m
      BY <2>2, <3>1
    <3>2. CASE k # m
      BY <1>6, <2>1, <3>2
    <3> QED BY <3>1, <3>2
  <2> QED BY <1>3, <2>2, <2>3
<1>8. FollowsAcvm' /\ SameMemory'
  BY <1>7 DEF FollowsAcvm, SameMemory
<1> QED BY <1>2, <1>8, AllTranslateKeeps DEF CInv

LEMMA UndefinedFollows == ASSUME IInv, CInv, ComputeUndefined PROVE CInv'
<1>1. Running("compute")
  BY DEF ComputeUndefined
<1>2. CASE ~AtEnd(Top) /\ ~(ReadBy(Op) \subseteq DOMAIN Top.vals) /\ Replace(Top, "undefined")
  BY <1>1, <1>2, ReadsInTime
<1>3. CASE /\ Len(stack) > 1
           /\ ~(ToSet(Returns(Code(Caller)[Caller.pc])) \subseteq DOMAIN Top.self.w)
           /\ stack' = [stack EXCEPT ![Len(stack) - 1].ref = Returned(Code(Caller)[Caller.pc])]
           /\ outcome' = "undefined" /\ prog' = prog /\ phase' = phase
  BY <1>1, <1>3, ResultsInTime
<1> QED BY <1>2, <1>3 DEF ComputeUndefined

---------------------------------------------------------------------------
\* The other steps

\* The entry circuit's function begins with the inputs that ACVM gets.
LEMMA TranslateFollows == ASSUME IInv, CInv, Translate PROVE CInv'
<1> DEFINE n == Cardinality(Params(Circuits[1]))
           sol == [k \in 0 .. (Len(inputs') - 1) |-> inputs'[k + 1]]
           h == Frame(1, inputs', Struct, Solver(sol))
           fs == <<h>>
           gs == stack'
<1>1. /\ prog' = prog /\ outcome' = "ok" /\ prog \in Programs
      /\ \A c \in ToSet(Circuits) : Translates(c)
      /\ inputs' \in [1 .. n -> F] /\ gs = fs
  BY DEF Translate, IInv
<1>2. Circuits' = Circuits
  BY <1>1 DEF Circuits
<1>3. WellFormed(Circuits) /\ 1 \in DOMAIN Circuits
  BY <1>1, TranslatedFits DEF WellFormed
<1>4. Len(inputs') = n
  <2>1. n \in Nat
    <3>1. IsCircuit(Circuits[1])
      BY <1>3 DEF WellFormed
    <3>2. IsFiniteSet(Params(Circuits[1]))
      BY <3>1, FS_Union DEF Params, IsCircuit
    <3> QED BY <3>2, FS_CardinalityType
  <2> HIDE DEF n
  <2> QED BY <1>1, <2>1
<1>5. IsSolver(Solver(sol)) /\ Solver(sol).sol = sol /\ Solver(sol).mem = <<>>
  <2> HIDE DEF sol
  <2> QED BY DEF IsSolver, Solver
<1>6. sol = [k \in 0 .. n - 1 |-> inputs'[k + 1]]
  BY <1>4
<1>7. ComputeFits(Circuits, h) /\ Mirrors(h)
  <2> DEFINE args == inputs'
             ref == Solver(sol)
             c == 1
  <2>1. c \in DOMAIN Circuits /\ args \in [1 .. Cardinality(Params(Circuits[c])) -> F]
        /\ prog \in Programs /\ WellFormed(Circuits) /\ IsSolver(ref)
    BY <1>1, <1>3, <1>5
  <2>2. ref.sol = [k \in 0 .. Cardinality(Params(Circuits[c])) - 1 |-> args[k + 1]]
        /\ ref.mem = <<>>
    <3> HIDE DEF sol
    <3> QED BY <1>5, <1>6
  <2> HIDE DEF c, args, ref
  <2>3. LET x == Frame(c, args, Struct, ref)
            m == Cardinality(Params(Circuits[c]))
        IN  /\ ComputeFits(Circuits, x) /\ x.c = c /\ x.ref = ref
            /\ ref.sol = [k \in 0 .. m - 1 |-> args[k + 1]] /\ ref.mem = <<>> => Mirrors(x)
    BY <2>1, ComputeBegins
  <2> QED BY <2>2, <2>3 DEF c, args, ref
<1> HIDE DEF h
<1>8. fs \in Seq({h}) /\ Len(fs) = 1 /\ fs[1] = h /\ fs # <<>> /\ DOMAIN fs = 1 .. 1
  OBVIOUS
<1> HIDE DEF fs
<1>9. ComputeStackFits(Circuits, fs)
  <2>1. ToSet(fs) = {h}
    BY <1>8 DEF ToSet
  <2> QED BY <1>7, <1>8, <2>1 DEF ComputeStackFits
<1>10. FollowsAcvm' /\ SameMemory'
  <2>1. \A k \in DOMAIN gs : Agree(gs[k]) /\ gs[k].mem = gs[k].ref.mem
    <3>1. \A k \in DOMAIN gs : gs[k] = h
      BY <1>1, <1>8
    <3> QED BY <1>7, <3>1 DEF Agree, Mirrors
  <2> QED BY <1>1, <2>1 DEF FollowsAcvm, SameMemory
<1>11. AllTranslate
  BY <1>1 DEF AllTranslate, ToSet
<1>12. AllTranslate'
  BY <1>1, <1>11, AllTranslateKeeps
<1>13. ComputeStackFits(Circuits, stack')
  BY <1>1, <1>9
<1> QED BY <1>2, <1>10, <1>12, <1>13 DEF CInv

\* In @constrain, and when the run has stopped, there is nothing to compare.
LEMMA OthersFollow == ASSUME CInv, phase' # "compute" PROVE CInv'
BY DEF CInv, FollowsAcvm, SameMemory

\* A step that changes nothing.
LEMMA UnchangedFollows == ASSUME CInv, UNCHANGED vars PROVE CInv'
<1>1. Circuits' = Circuits /\ prog' = prog /\ phase' = phase /\ outcome' = outcome /\ stack' = stack
  BY DEF vars, Circuits
<1>2. AllTranslate' <=> AllTranslate
  BY <1>1, AllTranslateKeeps
<1>3. FollowsAcvm' <=> FollowsAcvm
  BY <1>1 DEF FollowsAcvm, AcvmSolving, InSkippedCall, AtEnd, Op, Code, Top
<1>4. SameMemory' <=> SameMemory
  BY <1>1 DEF SameMemory, AcvmSolving
<1> QED BY <1>1, <1>2, <1>3, <1>4 DEF CInv

\* A step of @constrain does not come back to @compute.
LEMMA ConstrainLeaves == ASSUME Constrain PROVE phase' # "compute"
<1>1. phase = "constrain"
  BY DEF Constrain, ConstrainAssertZero, ConstrainMemoryInit, ConstrainMemoryRead,
         ConstrainMemoryWrite, ConstrainLogic, ConstrainRange, ConstrainBlackBox,
         ConstrainBrilligCall, ConstrainSkippedCall, ConstrainCall, ConstrainReturn,
         ConstrainEnds, Constraining, At, Running
<1>2. phase' \in {phase, "done"}
  BY DEF Constrain, ConstrainAssertZero, ConstrainMemoryInit, ConstrainMemoryRead,
         ConstrainMemoryWrite, ConstrainLogic, ConstrainRange, ConstrainBlackBox,
         ConstrainBrilligCall, ConstrainSkippedCall, ConstrainCall, ConstrainReturn,
         ConstrainEnds, Check
<1> QED BY <1>1, <1>2

\* A step of @compute.
LEMMA ComputeFollows == ASSUME IInv, CInv, Compute PROVE CInv'
<1>1. CASE ComputeEnds
  <2>1. phase' # "compute"
    BY <1>1 DEF ComputeEnds
  <2> QED BY <2>1, OthersFollow
<1> QED BY <1>1, SatisfiedFollows, SolveFollows, MemoryInitFollows, MemoryReadFollows,
     MemoryWriteFollows, LogicFollows, RangeFollows, BlackBoxFollows, BrilligFollows,
     CallFollows, ReturnFollows, UndefinedFollows
     DEF Compute

\* Every step keeps the invariant.
LEMMA NextFollows == ASSUME IInv, CInv, [Next]_vars PROVE CInv'
<1>1. CASE Translate
  BY <1>1, TranslateFollows
<1>2. CASE TranslationFails
  <2>1. phase' # "compute"
    BY <1>2 DEF TranslationFails
  <2> QED BY <2>1, OthersFollow
<1>3. CASE Compute
  BY <1>3, ComputeFollows
<1>4. CASE Constrain
  BY <1>4, ConstrainLeaves, OthersFollow
<1>5. CASE UNCHANGED vars
  BY <1>5, UnchangedFollows
<1>6. CASE Ended
  BY <1>5, <1>6 DEF Ended
<1> QED BY <1>1, <1>2, <1>3, <1>4, <1>5, <1>6 DEF Next

---------------------------------------------------------------------------
\* The theorems

\* In every reachable state of every program a running frame of @compute knows the witnesses
\* that the writer knew when it emitted the code, and as long as ACVM executes the program it
\* has ACVM's values for them, and ACVM's memory.
THEOREM ComputeInvariance == Spec => [](IInv /\ CInv)
<1>1. Init => IInv /\ CInv
  BY InitHolds DEF Init, CInv, FollowsAcvm, SameMemory
<1>2. IInv /\ CInv /\ [Next]_vars => IInv' /\ CInv'
  BY NextKeeps, NextFollows
<1> QED BY <1>1, <1>2, PTL DEF Spec

\* As long as ACVM executes the program, @compute finds ACVM's witnesses, and neither divides
\* by zero nor reads a member too early, except in a call that ACVM skips.
THEOREM FollowsReference == Spec => []FollowsAcvm
<1>1. CInv => FollowsAcvm
  BY DEF CInv
<1> QED BY <1>1, ComputeInvariance, PTL

\* As long as ACVM executes the program, the memory blocks of @compute are ACVM's.
THEOREM SharesMemory == Spec => []SameMemory
<1>1. CInv => SameMemory
  BY DEF CInv
<1> QED BY <1>1, ComputeInvariance, PTL
=============================================================================

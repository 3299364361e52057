---------------------------- MODULE HonestProofs ----------------------------
(***************************************************************************)
(* The honest prover is believed, for every prime and every set of         *)
(* circuits: as long as ACVM solves, @constrain accepts what @compute       *)
(* assigned.  First, an opcode that ACVM solves holds of the witnesses      *)
(* that it leaves.  From then on a frame of @compute records how its        *)
(* opcodes hold, and every call that has returned is an execution on        *)
(* record; and the frames of @constrain go over those executions again.     *)
(* Last, the type invariant: frames and structs have the shape of their     *)
(* circuits, whether ACVM solves or not.                                    *)
(***************************************************************************)
EXTENDS CircuitProofs

---------------------------------------------------------------------------
\* What ACVM solves satisfies the relation

\* The value of a term that the unknown has no part in, and the coefficient of one it has.
Free(t, w, v) == IF TermWitnesses(t) \cap {w} = {} THEN TermValue(t, v) ELSE 0
Bound(t, w, v) == IF w \in TermWitnesses(t) THEN TermValue(t, With(v, w, 1)) ELSE 0

\* A term of the expression e, in which the unknown w is not squared.
IsTermOf(e, w, t) ==
    /\ t \in (F \X Nat \X Nat) \cup (F \X Nat)
    /\ t[1] # 0 => TermWitnesses(t) \subseteq Support(e)
    /\ t \in F \X Nat \X Nat => t[1] = 0 \/ ~(t[2] = w /\ t[3] = w)
\* Whatever the value of the unknown, a term is the sum of its two parts.
LEMMA TermSplits ==
    ASSUME NEW e, NEW w, NEW v, SolvableFor(e, w, v), NEW x \in F,
           NEW u, u = Override(v, Written(<<w>>, <<x>>)), NEW t, IsTermOf(e, w, t)
    PROVE  /\ TermValue(t, u) = Plus(Free(t, w, v), Times(x, Bound(t, w, v)))
           /\ Free(t, w, v) \in F /\ Bound(t, w, v) \in F /\ TermValue(t, u) \in F
<1> DEFINE a == IF TermWitnesses(t) \cap {w} = {} THEN TermValue(t, v) ELSE 0
           o == With(v, w, 1)
           b == IF w \in TermWitnesses(t) THEN TermValue(t, o) ELSE 0
           c == t[1]
<1>1. /\ IsValuation(v) /\ w \notin DOMAIN v /\ Support(e) \subseteq DOMAIN v \cup {w}
  BY DEF SolvableFor
<1>2. Written(<<w>>, <<x>>) \in [{w} -> F] /\ Written(<<w>>, <<x>>)[w] = x
  <2>1. ToSet(<<w>>) = {w} /\ Written(<<w>>, <<x>>) \in [{w} -> F]
    BY WrittenOne
  <2>2. <<w>> \in [1 .. 1 -> {w}] /\ w \in ToSet(<<w>>) /\ 1 \in Nat
    BY <2>1
  <2>3. LastWrite(<<w>>, w) \in 1 .. 1
    BY <2>2, LastWriteIsOne
  <2>4. LastWrite(<<w>>, w) = 1
    BY <2>3
  <2> QED BY <2>1, <2>2, <2>4 DEF Written
<1>3. u[w] = x /\ \A z \in DOMAIN v : u[z] = v[z]
  BY <1>1, <1>2 DEF Override
<1>4. o[w] = 1 /\ \A z \in DOMAIN v : o[z] = v[z]
  <2>1. o[w] = 1 /\ \A z \in DOMAIN v : z # w => o[z] = v[z]
    BY <1>1, WithOne
  <2> HIDE DEF o
  <2> QED BY <1>1, <2>1
<1> HIDE DEF o
<1>0. /\ t \in (F \X Nat \X Nat) \cup (F \X Nat)
      /\ c # 0 => TermWitnesses(t) \subseteq Support(e)
      /\ t \in F \X Nat \X Nat => c = 0 \/ ~(t[2] = w /\ t[3] = w)
  BY DEF IsTermOf
<1>5. Plus(0, 0) = 0 /\ Times(x, 0) = 0 /\ 0 \in F /\ \A y \in F : Plus(0, y) = y /\ Plus(y, 0) = y
  BY SmallFelts, PlusZero, TimesZero
<1>6. CASE c = 0
  <2>1. TermValue(t, u) = 0 /\ TermValue(t, v) = 0 /\ TermValue(t, o) = 0
    BY <1>6 DEF TermValue
  <2>2. a = 0 /\ b = 0
    BY <2>1
  <2> HIDE DEF a, b
  <2>3. TermValue(t, u) = Plus(a, Times(x, b)) /\ a \in F /\ b \in F /\ TermValue(t, u) \in F
    BY <1>5, <2>1, <2>2
  <2> QED BY <2>3 DEF a, b, o, Free, Bound
<1>7. CASE c # 0 /\ w \notin TermWitnesses(t)
  <2>1. TermWitnesses(t) \subseteq DOMAIN v
    BY <1>0, <1>1, <1>7
  <2>2. TermValue(t, v) \in F
    BY <1>0, <1>1, <2>1, TermIsFelt
  <2>3. TermValue(t, u) = TermValue(t, v)
    <3>1. CASE t \in F \X Nat \X Nat
      <4>1. TermWitnesses(t) = {t[2], t[3]} /\ Len(t) = 3
        BY <3>1, WitnessesOfProduct
      <4> QED BY <1>3, <2>1, <4>1 DEF TermValue
    <3>2. CASE t \in F \X Nat
      <4>1. TermWitnesses(t) = {t[2]} /\ Len(t) = 2
        BY <3>2, WitnessesOfLinear
      <4> QED BY <1>3, <2>1, <4>1 DEF TermValue
    <3> QED BY <1>0, <3>1, <3>2
  <2>4. a = TermValue(t, v) /\ b = 0
    BY <1>7
  <2> HIDE DEF a, b
  <2>5. TermValue(t, u) = Plus(a, Times(x, b)) /\ a \in F /\ b \in F /\ TermValue(t, u) \in F
    BY <1>5, <2>2, <2>3, <2>4
  <2> QED BY <2>5 DEF a, b, o, Free, Bound
<1>8. CASE c # 0 /\ w \in TermWitnesses(t)
  <2>1. a = 0 /\ b = TermValue(t, o)
    BY <1>8
  <2>2. TermValue(t, u) = Times(x, TermValue(t, o)) /\ TermValue(t, o) \in F
    <3>1. CASE t \in F \X Nat
      <4>1. TermWitnesses(t) = {t[2]} /\ Len(t) = 2 /\ c \in F
        BY <3>1, WitnessesOfLinear
      <4>2. TermValue(t, u) = Times(c, x) /\ TermValue(t, o) = Times(c, 1)
        BY <1>3, <1>4, <1>8, <4>1 DEF TermValue
      <4> HIDE DEF c
      <4>3. Times(c, x) = Times(x, c) /\ Times(c, 1) = c
        BY <4>1, SmallFelts, TimesCommutes, TimesOne
      <4> QED BY <4>1, <4>2, <4>3
    <3>2. CASE t \in F \X Nat \X Nat
      <4> DEFINE i == t[2]
                 j == t[3]
      <4>1. TermWitnesses(t) = {i, j} /\ Len(t) = 3 /\ c \in F
        BY <3>2, WitnessesOfProduct
      <4>2. ~(i = w /\ j = w)
        BY <1>0, <1>8, <3>2
      <4>3. /\ TermValue(t, u) = Times(c, Times(u[i], u[j]))
            /\ TermValue(t, o) = Times(c, Times(o[i], o[j]))
        BY <1>8, <4>1 DEF TermValue
      <4>4. {i, j} \subseteq DOMAIN v \cup {w}
        BY <1>0, <1>1, <1>8, <4>1
      <4> HIDE DEF i, j, c
      <4>5. PICK y \in F : /\ Times(u[i], u[j]) = Times(x, y)
                           /\ Times(o[i], o[j]) = y
        <5>1. CASE i = w
          <6>1. j \in DOMAIN v
            BY <4>2, <4>4, <5>1
          <6>2. v[j] \in F
            BY <1>1, <6>1 DEF IsValuation
          <6> QED BY <1>3, <1>4, <5>1, <6>1, <6>2, TimesOne
        <5>2. CASE j = w
          <6>1. i \in DOMAIN v
            BY <4>2, <4>4, <5>2
          <6>2. v[i] \in F
            BY <1>1, <6>1 DEF IsValuation
          <6>3. Times(v[i], x) = Times(x, v[i]) /\ Times(v[i], 1) = v[i]
            BY <6>2, SmallFelts, TimesCommutes, TimesOne
          <6> QED BY <1>3, <1>4, <5>2, <6>1, <6>2, <6>3
        <5> QED BY <1>8, <4>1, <5>1, <5>2
      <4>6. Times(c, Times(x, y)) = Times(x, Times(c, y)) /\ Times(c, y) \in F
        <5>1. Times(c, Times(x, y)) = Times(Times(c, x), y)
          BY <4>1, TimesAssociative
        <5>2. Times(x, Times(c, y)) = Times(Times(x, c), y)
          BY <4>1, TimesAssociative
        <5>3. Times(c, x) = Times(x, c) /\ Times(c, y) \in F
          BY <4>1, TimesCommutes, TimesZero
        <5> QED BY <5>1, <5>2, <5>3
      <4> QED BY <4>3, <4>5, <4>6
    <3> QED BY <1>0, <3>1, <3>2
  <2> HIDE DEF a, b
  <2>3. Times(x, b) \in F
    BY <2>1, <2>2, TimesZero
  <2>4. TermValue(t, u) = Plus(a, Times(x, b)) /\ a \in F /\ b \in F /\ TermValue(t, u) \in F
    BY <1>5, <2>1, <2>2, <2>3
  <2> QED BY <2>4 DEF a, b, o, Free, Bound
<1> QED BY <1>6, <1>7, <1>8

\* The solution of an equation solves it.
LEMMA SolutionSolves ==
    ASSUME NEW e, NEW w, NEW v, SolvableFor(e, w, v), Coefficient(e, w, v) # 0,
           NEW x, x = Div(Neg(Rest(e, v, {w})), Coefficient(e, w, v)),
           NEW u, u = Override(v, Written(<<w>>, <<x>>))
    PROVE  Value(e, u) = 0 /\ x \in F
<1> DEFINE ts == e.mul \o e.lin
           n == Len(e.mul) + Len(e.lin)
           o == With(v, w, 1)
           ps == [k \in DOMAIN ts |-> IF TermWitnesses(ts[k]) \cap {w} = {} THEN TermValue(ts[k], v) ELSE 0]
           qs == [k \in DOMAIN ts |-> IF w \in TermWitnesses(ts[k]) THEN TermValue(ts[k], o) ELSE 0]
           zs == TermValues(ts, u)
           c == Coefficient(e, w, v)
           r == Rest(e, v, {w})
<1>1. IsExpression(e) /\ ~Unsolvable(e, w)
  BY DEF SolvableFor
<1>2. c = Sum(qs) /\ r = Plus(Sum(ps), e.qc) /\ Value(e, u) = Plus(Sum(zs), e.qc)
  BY DEF Coefficient, SumOf, Rest, Value
<1>3. c \in F /\ r \in F
  <2>1. c \in F
    BY CoefficientAgrees
  <2>2. r \in F
    BY RestAgrees
  <2> QED BY <2>1, <2>2
<1>4. Neg(r) \in F /\ Plus(r, Neg(r)) = 0
  <2> HIDE DEF r
  <2> QED BY <1>3, PlusNeg
<1>5. x \in F /\ Times(x, c) = Neg(r)
  <2> HIDE DEF r, c
  <2> QED BY <1>3, <1>4, DivIsFelt DEF r, c
<1>6. /\ n \in Nat /\ DOMAIN ts = 1 .. n /\ e.qc \in F
      /\ \A k \in DOMAIN ts : IsTermOf(e, w, ts[k])
  <2> DEFINE l == Len(e.mul)
             m == Len(e.lin)
  <2>1. /\ l \in Nat /\ m \in Nat /\ DOMAIN e.mul = 1 .. l /\ DOMAIN e.lin = 1 .. m
        /\ \A k \in 1 .. l : e.mul[k] \in F \X Nat \X Nat
        /\ \A k \in 1 .. m : e.lin[k] \in F \X Nat
        /\ e.qc \in F /\ DOMAIN ts = 1 .. l + m
        /\ \A k \in 1 .. l : ts[k] = e.mul[k]
        /\ \A k \in 1 .. m : ts[l + k] = e.lin[k]
    BY <1>1, TermsOfBoth
  <2>2. /\ \A k \in 1 .. l : e.mul[k][1] # 0 => TermWitnesses(e.mul[k]) \subseteq Support(e)
        /\ \A k \in 1 .. m : e.lin[k][1] # 0 => TermWitnesses(e.lin[k]) \subseteq Support(e)
    BY <1>1, <2>1, TermInSupport
  <2>3. \A k \in 1 .. l : e.mul[k][1] # 0 => ~(e.mul[k][2] = w /\ e.mul[k][3] = w)
    <3> SUFFICES ASSUME NEW k \in 1 .. l, e.mul[k][1] # 0, e.mul[k][2] = w /\ e.mul[k][3] = w PROVE FALSE
      OBVIOUS
    <3>1. e.mul[k] \in ToSet(e.mul)
      BY <2>1 DEF ToSet
    <3>2. e.mul[k] \in MulTermsOf(e, w)
      BY <3>1 DEF MulTermsOf, Terms
    <3> QED BY <1>1, <3>2 DEF Unsolvable
  <2>4. \A t \in F \X Nat : t \notin F \X Nat \X Nat
    <3>1. ASSUME NEW t \in F \X Nat, t \in F \X Nat \X Nat PROVE FALSE
      <4>1. Len(t) = 2
        BY WitnessesOfLinear
      <4>2. Len(t) = 3
        BY <3>1, WitnessesOfProduct
      <4> QED BY <4>1, <4>2
    <3> QED BY <3>1
  <2> DEFINE G(t) == IsTermOf(e, w, t)
  <2>5. ASSUME NEW k \in 1 .. l + m PROVE G(ts[k])
    <3>1. CASE k \in 1 .. l
      <4>1. ts[k] = e.mul[k] /\ G(e.mul[k])
        BY <2>1, <2>2, <2>3, <3>1 DEF IsTermOf
      <4> HIDE DEF G
      <4> QED BY <4>1
    <3>2. CASE k - l \in 1 .. m
      <4> DEFINE q == k - l
      <4>1. k = l + q /\ q \in 1 .. m
        <5> HIDE DEF l, m
        <5> QED BY <2>1, <3>2
      <4>2. ts[k] = e.lin[q] /\ G(e.lin[q])
        <5>1. ts[l + q] = e.lin[q]
          BY <2>1, <4>1
        <5>2. G(e.lin[q])
          BY <2>1, <2>2, <2>4, <4>1 DEF IsTermOf
        <5> HIDE DEF G, ts, l, q
        <5> QED BY <4>1, <5>1, <5>2
      <4> HIDE DEF G, q
      <4> QED BY <4>2
    <3>3. k \in 1 .. l \/ k - l \in 1 .. m
      <4> HIDE DEF l, m, ts
      <4> QED BY <2>1
    <3> QED BY <3>1, <3>2, <3>3
  <2>6. l + m \in Nat
    <3> HIDE DEF l, m
    <3> QED BY <2>1
  <2> QED BY <2>1, <2>5, <2>6
<1>7. \A k \in 1 .. n : zs[k] = Plus(ps[k], Times(x, qs[k])) /\ ps[k] \in F /\ qs[k] \in F /\ zs[k] \in F
  <2>1. ASSUME NEW k \in 1 .. n
        PROVE  zs[k] = Plus(ps[k], Times(x, qs[k])) /\ ps[k] \in F /\ qs[k] \in F /\ zs[k] \in F
    <3> DEFINE t == ts[k]
               a == Free(t, w, v)
               b == Bound(t, w, v)
    <3>1. zs[k] = TermValue(t, u) /\ ps[k] = a /\ qs[k] = b
      BY <1>6 DEF TermValues, Free, Bound
    <3>2. IsTermOf(e, w, t)
      BY <1>6
    <3>3. TermValue(t, u) = Plus(a, Times(x, b)) /\ a \in F /\ b \in F /\ TermValue(t, u) \in F
      <4> HIDE DEF t
      <4> QED BY <1>5, <3>2, TermSplits
    <3> HIDE DEF a, b, t, ps, qs, zs
    <3> QED BY <3>1, <3>3
  <2> QED BY <2>1
<1>8. ps \in [1 .. n -> F] /\ qs \in [1 .. n -> F] /\ zs \in [1 .. n -> F]
  <2>1. DOMAIN zs = DOMAIN ts /\ IsMap(zs)
    BY DEF TermValues, IsMap
  <2> HIDE DEF zs
  <2> QED BY <1>6, <1>7, <2>1 DEF IsMap
<1> HIDE DEF ps, qs, zs, n, c, r
<1>9. Sum(zs) = Plus(Sum(ps), Times(x, Sum(qs)))
  <2>1. \A k \in 1 .. n : zs[k] = Plus(ps[k], Times(x, qs[k]))
    BY <1>7
  <2>2. n \in Nat /\ x \in F
    BY <1>5, <1>6
  <2>3. AreLinear(n, x, ps, qs, zs)
    BY <1>8, <2>1, <2>2 DEF AreLinear
  <2>4. \A n1, x1, a1, b1, z1 : AreLinear(n1, x1, a1, b1, z1) => Sum(z1) = Plus(Sum(a1), Times(x1, Sum(b1)))
    BY SumIsLinear
  <2>5. \A z1 : AreLinear(n, x, ps, qs, z1) => Sum(z1) = Plus(Sum(ps), Times(x, Sum(qs)))
    BY <2>4
  <2>6. Sum(zs) = Plus(Sum(ps), Times(x, Sum(qs)))
    BY <2>3, <2>5
  <2> QED BY <2>6
<1>10. Sum(ps) \in F /\ Sum(qs) \in F
  BY <1>6, <1>8, SumIsFelt
<1>11. Value(e, u) = Plus(Plus(Sum(ps), Neg(r)), e.qc)
  BY <1>2, <1>5, <1>9
<1>12. Plus(Plus(Sum(ps), Neg(r)), e.qc) = Plus(r, Neg(r))
  <2> DEFINE a == Sum(ps)
             b == Neg(r)
             q == e.qc
  <2>1. a \in F /\ b \in F /\ q \in F
    BY <1>4, <1>6, <1>10
  <2>2. r = Plus(a, q)
    BY <1>2
  <2> HIDE DEF a, b, q
  <2>3. Plus(Plus(a, b), Plus(q, 0)) = Plus(Plus(a, q), Plus(b, 0))
    BY <2>1, SmallFelts, PlusExchange
  <2>4. Plus(q, 0) = q /\ Plus(b, 0) = b
    BY <2>1, PlusZero
  <2>5. Plus(Plus(a, b), q) = Plus(r, b)
    BY <2>2, <2>3, <2>4
  <2> QED BY <2>5 DEF a, b, q
<1> QED BY <1>4, <1>5, <1>11, <1>12

\* One valuation extends another.
Extends(v, u) == \A w \in DOMAIN v : w \in DOMAIN u /\ u[w] = v[w]

\* The witnesses that the relation of an opcode depends on.
Needs(op) ==
    CASE op.op = "AssertZero" -> Support(op.e)
      [] op.op = "MemoryInit" -> ToSet(op.init)
      [] op.op = "MemoryOp" -> Support(op.index) \cup Support(op.value)
      [] op.op \in {"AND", "XOR"} -> InputWitnesses(op.ins) \cup {op.out}
      [] op.op = "RANGE" -> InputWitnesses(op.ins)
      [] op.op = "BlackBox" -> InputWitnesses(op.ins \o op.pred) \cup ToSet(op.outs)
      [] op.op = "Call" -> Support(op.pred)
      [] op.op = "BrilligCall" -> {}

\* They are among the witnesses that @constrain reads.
LEMMA NeedsAreRead ==
    ASSUME NEW op, IsOpcode(op)
    PROVE  Needs(op) \subseteq GetWitnesses(op)
<1>1. op.op \in {"AssertZero", "MemoryInit", "MemoryOp", "AND", "XOR", "RANGE", "BlackBox",
                 "Call", "BrilligCall"}
  BY DEF IsOpcode
<1>2. CASE op.op = "AssertZero"
  <2>1. Support(op.e) \subseteq CollectWitnesses(op.e)
    BY <1>2, TermInSupport DEF IsOpcode
  <2> QED BY <1>2, <2>1 DEF Needs, GetWitnesses
<1>3. CASE op.op = "MemoryInit"
  BY <1>3 DEF Needs, GetWitnesses
<1>4. CASE op.op = "MemoryOp"
  <2>1. Support(op.index) \subseteq CollectWitnesses(op.index)
    BY <1>4, TermInSupport DEF IsOpcode
  <2>2. Support(op.value) \subseteq CollectWitnesses(op.value)
    BY <1>4, TermInSupport DEF IsOpcode
  <2> QED BY <1>4, <2>1, <2>2 DEF Needs, GetWitnesses
<1>5. CASE op.op \in {"AND", "XOR"}
  BY <1>5 DEF Needs, GetWitnesses
<1>6. CASE op.op = "RANGE"
  BY <1>6 DEF Needs, GetWitnesses
<1>7. CASE op.op = "BlackBox"
  BY <1>7 DEF Needs, GetWitnesses
<1>8. CASE op.op = "Call"
  <2>1. Support(op.pred) \subseteq CollectWitnesses(op.pred)
    BY <1>8, TermInSupport DEF IsOpcode
  <2> QED BY <1>8, <2>1 DEF Needs, GetWitnesses
<1>9. CASE op.op = "BrilligCall"
  BY <1>9 DEF Needs
<1> QED BY <1>1, <1>2, <1>3, <1>4, <1>5, <1>6, <1>7, <1>8, <1>9

\* Values of expressions and inputs depend on the witnesses they mention.
LEMMA ValueSame ==
    ASSUME NEW e, IsExpression(e), NEW v, NEW u, \A w \in Support(e) : v[w] = u[w]
    PROVE  Value(e, v) = Value(e, u)
<1> DEFINE W == Support(e)
<1>1. Value(e, [w \in W |-> v[w]]) = Value(e, v)
  BY ValueDepends
<1>2. Value(e, [w \in W |-> u[w]]) = Value(e, u)
  BY ValueDepends
<1>3. [w \in W |-> v[w]] = [w \in W |-> u[w]]
  OBVIOUS
<1> QED BY <1>1, <1>2, <1>3
\* Valuations that agree on the witnesses of the inputs give the inputs the same values.
LEMMA InputsSame ==
    ASSUME NEW xs, NEW v, NEW u, \A w \in InputWitnesses(xs) : v[w] = u[w]
    PROVE  InputValues(xs, v) = InputValues(xs, u)
<1> DEFINE W == InputWitnesses(xs)
<1>1. InputValues(xs, [w \in W |-> v[w]]) = InputValues(xs, v)
  BY InputsDepend
<1>2. InputValues(xs, [w \in W |-> u[w]]) = InputValues(xs, u)
  BY InputsDepend
<1>3. [w \in W |-> v[w]] = [w \in W |-> u[w]]
  OBVIOUS
<1> QED BY <1>1, <1>2, <1>3

\* So does the relation of an opcode, and what it leaves in memory.
LEMMA RelationSame ==
    ASSUME NEW op, IsOpcode(op), NEW v, NEW u, \A w \in Needs(op) : v[w] = u[w], NEW mem
    PROVE  /\ Holds(op, v, mem) <=> Holds(op, u, mem)
           /\ MemoryAfter(op, v, mem) = MemoryAfter(op, u, mem)
<1>1. op.op \in {"AssertZero", "MemoryInit", "MemoryOp", "AND", "XOR", "RANGE", "BlackBox",
                 "Call", "BrilligCall"}
  BY DEF IsOpcode
<1>2. CASE op.op = "AssertZero"
  <2>1. Value(op.e, v) = Value(op.e, u)
    BY <1>2, ValueSame DEF Needs, IsOpcode
  <2> QED BY <1>2, <2>1 DEF Holds, MemoryAfter
<1>3. CASE op.op = "MemoryInit"
  <2>1. \A k \in DOMAIN op.init : v[op.init[k]] = u[op.init[k]]
    BY <1>3 DEF Needs, ToSet
  <2>2. [k \in DOMAIN op.init |-> v[op.init[k]]] = [k \in DOMAIN op.init |-> u[op.init[k]]]
    BY <2>1
  <2> QED BY <1>3, <2>2 DEF Holds, MemoryAfter
<1>4. CASE op.op = "MemoryOp"
  <2>1. /\ \A w \in Support(op.index) : v[w] = u[w]
        /\ \A w \in Support(op.value) : v[w] = u[w]
    BY <1>4 DEF Needs
  <2>2. IsExpression(op.index) /\ IsExpression(op.value)
    BY <1>4 DEF IsOpcode
  <2>3. Value(op.index, v) = Value(op.index, u)
    BY <2>1, <2>2, ValueSame
  <2>4. Value(op.value, v) = Value(op.value, u)
    BY <2>1, <2>2, ValueSame
  <2> QED BY <1>4, <2>3, <2>4 DEF Holds, MemoryAfter
<1>5. CASE op.op \in {"AND", "XOR"}
  <2>1. (\A w \in InputWitnesses(op.ins) : v[w] = u[w]) /\ v[op.out] = u[op.out]
    BY <1>5 DEF Needs
  <2>2. InputValues(op.ins, v) = InputValues(op.ins, u)
    BY <2>1, InputsSame
  <2> QED BY <1>5, <2>1, <2>2 DEF Holds, MemoryAfter
<1>6. CASE op.op = "RANGE"
  <2>1. \A w \in InputWitnesses(op.ins) : v[w] = u[w]
    BY <1>6 DEF Needs
  <2>2. InputValues(op.ins, v) = InputValues(op.ins, u)
    BY <2>1, InputsSame
  <2> QED BY <1>6, <2>2 DEF Holds, MemoryAfter
<1>7. CASE op.op = "BlackBox"
  <2>1. IsInputs(op.ins) /\ IsInputs(op.pred)
    BY <1>7 DEF IsOpcode
  <2>2. /\ \A w \in InputWitnesses(op.ins \o op.pred) : v[w] = u[w]
        /\ \A w \in ToSet(op.outs) : v[w] = u[w]
    BY <1>7 DEF Needs
  <2>3. InputWitnesses(op.ins) \cup InputWitnesses(op.pred) \subseteq InputWitnesses(op.ins \o op.pred)
    BY <2>1, InputsOfBoth
  <2>4. InputValues(op.ins \o op.pred, v) = InputValues(op.ins \o op.pred, u)
    BY <2>2, InputsSame
  <2>5. InputValues(op.ins, v) = InputValues(op.ins, u)
    BY <2>2, <2>3, InputsSame
  <2>6. InputValues(op.pred, v) = InputValues(op.pred, u)
    BY <2>2, <2>3, InputsSame
  <2>7. [k \in DOMAIN op.outs |-> v[op.outs[k]]] = [k \in DOMAIN op.outs |-> u[op.outs[k]]]
    BY <2>2 DEF ToSet
  <2> QED BY <1>7, <2>4, <2>5, <2>6, <2>7 DEF Holds, MemoryAfter
<1>8. CASE op.op = "Call"
  <2>1. Value(op.pred, v) = Value(op.pred, u)
    BY <1>8, ValueSame DEF Needs, IsOpcode
  <2> QED BY <1>8, <2>1 DEF Holds, MemoryAfter
<1>9. CASE op.op = "BrilligCall"
  BY <1>9 DEF Holds, MemoryAfter
<1> QED BY <1>1, <1>2, <1>3, <1>4, <1>5, <1>6, <1>7, <1>8, <1>9

\* ACVM can assign xs to the sequence ws of witnesses.
Assigns(r, ws, xs) ==
    IsSolver(r) /\ IsSequence(ws) /\ ws = [k \in DOMAIN ws |-> ws[k]] /\ AssignAll(r, ws, xs).st = "solving"

\* What ACVM assigns is new, or is what was there.
LEMMA AssignExtends ==
    ASSUME NEW r, NEW ws, NEW xs, Assigns(r, ws, xs)
    PROVE  LET a == AssignAll(r, ws, xs)
           IN  /\ Extends(r.sol, a.sol)
               /\ \A k \in DOMAIN ws : ws[k] \in DOMAIN a.sol /\ a.sol[ws[k]] = xs[k]
<1>0. /\ IsSolver(r) /\ AssignAll(r, ws, xs).st = "solving" /\ Len(ws) \in Nat
      /\ ws \in [1 .. Len(ws) -> ToSet(ws)]
  BY DEF Assigns, ToSet
<1> DEFINE n == Len(ws)
           S == ToSet(ws)
<1>9. n \in Nat /\ ws \in [1 .. n -> S] /\ IsSolver(r) /\ AssignAll(r, ws, xs).st = "solving"
  BY <1>0
<1> HIDE DEF n, S
<1> DEFINE a == AssignAll(r, ws, xs)
           g == Written(ws, xs)
           clash == \E k \in DOMAIN ws : \/ ws[k] \in DOMAIN r.sol /\ r.sol[ws[k]] # xs[k]
                                         \/ \E m \in DOMAIN ws : ws[m] = ws[k] /\ xs[m] # xs[k]
<1>1. a.sol = Override(r.sol, g)
  BY <1>9, AssignContinues
<1>2. ~clash
  <2> SUFFICES ASSUME clash PROVE FALSE
    OBVIOUS
  <2>1. a = Fail(r)
    BY DEF AssignAll
  <2>2. Fail(r).st = "failed"
    BY <1>9, FailContinues
  <2> QED BY <1>9, <2>1, <2>2
<1>3. DOMAIN ws = 1 .. n
  BY <1>9
<1>4. ASSUME NEW w \in DOMAIN g
      PROVE  /\ \E k \in 1 .. n : ws[k] = w /\ g[w] = xs[k]
             /\ \A k \in 1 .. n : ws[k] = w => g[w] = xs[k]
  <2>1. w \in ToSet(ws)
    BY DEF Written
  <2>2. LastWrite(ws, w) \in 1 .. n /\ ws[LastWrite(ws, w)] = w
    BY <1>9, <2>1, LastWriteIsOne
  <2>3. g[w] = xs[LastWrite(ws, w)]
    BY <2>1 DEF Written
  <2> DEFINE j == LastWrite(ws, w)
  <2> HIDE DEF j, g
  <2>4. j \in 1 .. n /\ ws[j] = w /\ g[w] = xs[j]
    BY <2>2, <2>3 DEF j
  <2>5. \A k \in 1 .. n : ws[k] = w => xs[k] = xs[j]
    BY <1>2, <1>3, <2>4
  <2> QED BY <2>4, <2>5
<1>5. \A k \in 1 .. n : ws[k] \in DOMAIN g
  BY <1>3 DEF Written, ToSet
<1> HIDE DEF a, g
<1>6. DOMAIN a.sol = DOMAIN r.sol \cup DOMAIN g
      /\ \A w \in DOMAIN a.sol : a.sol[w] = IF w \in DOMAIN g THEN g[w] ELSE r.sol[w]
  BY <1>1 DEF Override
<1>7. Extends(r.sol, a.sol)
  <2>1. ASSUME NEW w \in DOMAIN r.sol PROVE w \in DOMAIN a.sol /\ a.sol[w] = r.sol[w]
    <3>1. CASE w \in DOMAIN g
      <4>1. PICK k \in 1 .. n : ws[k] = w /\ g[w] = xs[k]
        BY <1>4, <3>1
      <4>2. r.sol[w] = xs[k]
        BY <1>2, <1>3, <4>1
      <4> QED BY <1>6, <3>1, <4>1, <4>2
    <3>2. CASE w \notin DOMAIN g
      BY <1>6, <3>2
    <3> QED BY <3>1, <3>2
  <2> QED BY <2>1 DEF Extends
<1>8. \A k \in 1 .. n : ws[k] \in DOMAIN a.sol /\ a.sol[ws[k]] = xs[k]
  BY <1>4, <1>5, <1>6
<1> QED BY <1>3, <1>7, <1>8 DEF a
\* As does the assignment of a single witness.
LEMMA AssignOneExtends ==
    ASSUME NEW r, IsSolver(r), NEW w, NEW x, Assign(r, w, x).st = "solving"
    PROVE  LET a == Assign(r, w, x)
           IN  Extends(r.sol, a.sol) /\ w \in DOMAIN a.sol /\ a.sol[w] = x /\ a.mem = r.mem
<1> DEFINE ws == <<w>>
           xs == <<x>>
           a == AssignAll(r, ws, xs)
<1>1. ws \in [1 .. 1 -> {w}] /\ 1 \in Nat /\ 1 \in 1 .. 1 /\ ws[1] = w /\ xs[1] = x
  OBVIOUS
<1>2. Assign(r, w, x) = a
  BY DEF Assign
<1>3. a.mem = r.mem
  BY AssignContinues
<1> HIDE DEF ws, xs
<1>4. Assigns(r, ws, xs)
  BY <1>1, <1>2 DEF Assigns, IsSequence, ws
<1>5. Extends(r.sol, a.sol) /\ \A k \in DOMAIN ws : ws[k] \in DOMAIN a.sol /\ a.sol[ws[k]] = xs[k]
  BY <1>4, AssignExtends
<1>6. 1 \in DOMAIN ws
  BY <1>1
<1> HIDE DEF a
<1>7. Extends(r.sol, a.sol) /\ w \in DOMAIN a.sol /\ a.sol[w] = x /\ a.mem = r.mem
  BY <1>1, <1>3, <1>5, <1>6
<1> QED BY <1>2, <1>7

\* ACVM has executed an opcode: it goes on with more witnesses, of which the relation holds.
Executes(r, op, a) ==
    /\ Extends(r.sol, a.sol) /\ Needs(op) \subseteq DOMAIN a.sol
    /\ Holds(op, a.sol, r.mem) /\ a.mem = MemoryAfter(op, a.sol, r.mem)

\* The valuation as it was is an extension of itself.
LEMMA ExtendsItself ==
    ASSUME NEW v PROVE Extends(v, v)
BY DEF Extends
\* A valuation that extends an extension extends the first.
LEMMA ExtendsOn ==
    ASSUME NEW v, NEW u, NEW x, Extends(v, u), Extends(u, x) PROVE Extends(v, x)
BY DEF Extends
\* A solved constraint holds of the witnesses that solve it.
LEMMA AssertZeroExecutes ==
    ASSUME NEW r, IsSolver(r), NEW op, op.op = "AssertZero", IsExpression(op.e), IsValuation(r.sol),
           \/ Support(op.e) \subseteq DOMAIN r.sol
           \/ \E w : Support(op.e) \ DOMAIN r.sol = {w} /\ SolvableFor(op.e, w, r.sol),
           AcvmAssertZero(r, op.e).st = "solving"
    PROVE  Executes(r, op, AcvmAssertZero(r, op.e))
<1> DEFINE e == op.e
           v == r.sol
           a == AcvmAssertZero(r, e)
           unknown == Support(e) \ DOMAIN v
           live == {w \in unknown : Coefficient(e, w, v) # 0}
           rest == Rest(e, v, unknown)
           onlyUnknown == \E t \in Terms(e.mul) : TermWitnesses(t) \subseteq unknown
           chosen == CHOOSE u \in live : TRUE
           q(w) == Div(Neg(rest), Coefficient(e, w, v))
<1>1. a = IF onlyUnknown THEN Fail(r)
          ELSE CASE live = {} /\ rest # 0 -> Fail(r)
                 [] live = {} /\ rest = 0 -> IF unknown = {} THEN r ELSE [r EXCEPT !.st = "stalled"]
                 [] Cardinality(live) = 1 -> Assign(r, chosen, q(chosen))
                 [] OTHER -> Fail(r)
  BY DEF AcvmAssertZero, Rest
<1>2. Fail(r).st = "failed" /\ [r EXCEPT !.st = "stalled"].st = "stalled"
  BY FailContinues
<1>3. live = {} => Cardinality(live) # 1
  BY FS_EmptySet
<1>4. SUFFICES /\ Extends(v, a.sol) /\ Support(e) \subseteq DOMAIN a.sol
               /\ Value(e, a.sol) = 0 /\ a.mem = r.mem
  BY DEF Executes, Needs, Holds, MemoryAfter
<1>5. CASE unknown = {}
  <2>1. live = {}
    BY <1>5
  <2>2. a = Fail(r) \/ (a = r /\ rest = 0)
    <3> HIDE DEF live, unknown, a, onlyUnknown, rest, chosen, q
    <3> QED BY <1>1, <1>3, <1>5, <2>1
  <2>3. a = r /\ rest = 0
    <3> HIDE DEF a, rest
    <3>1. a.st = "solving"
      BY DEF a
    <3> QED BY <1>2, <2>2, <3>1
  <2>4. rest = Value(e, v)
    <3> DEFINE ts == e.mul \o e.lin
               zs == [k \in DOMAIN ts |-> IF TermWitnesses(ts[k]) \cap unknown = {} THEN TermValue(ts[k], v) ELSE 0]
    <3>1. rest = Plus(Sum(zs), e.qc)
      BY DEF Rest, SumOf
    <3>2. zs = TermValues(ts, v)
      <4>1. \A t : TermWitnesses(t) \cap unknown = {}
        BY <1>5
      <4> HIDE DEF unknown, ts
      <4> QED BY <4>1 DEF TermValues
    <3> HIDE DEF zs
    <3> QED BY <3>1, <3>2 DEF Value
  <2> HIDE DEF a, rest
  <2>5. Support(e) \subseteq DOMAIN v
    BY <1>5
  <2>6. a.sol = v /\ a.mem = r.mem /\ Value(e, v) = 0
    BY <2>3, <2>4
  <2> QED BY <2>5, <2>6, ExtendsItself
<1>6. ASSUME NEW w, unknown = {w}, SolvableFor(e, w, v)
      PROVE  /\ Extends(v, a.sol) /\ Support(e) \subseteq DOMAIN a.sol
             /\ Value(e, a.sol) = 0 /\ a.mem = r.mem
  <2>1. /\ Coefficient(e, w, v) # 0
        /\ a.sol = Override(v, Written(<<w>>, <<Div(Neg(Rest(e, v, unknown)), Coefficient(e, w, v))>>))
        /\ a.mem = r.mem
    BY <1>6, AssertZeroContinues
  <2> DEFINE x == Div(Neg(Rest(e, v, {w})), Coefficient(e, w, v))
             u == Override(v, Written(<<w>>, <<x>>))
  <2>2. a.sol = u
    <3> HIDE DEF unknown, a
    <3> QED BY <1>6, <2>1
  <2>3. Value(e, u) = 0 /\ x \in F
    <3> HIDE DEF x
    <3>1. x = Div(Neg(Rest(e, v, {w})), Coefficient(e, w, v))
      BY DEF x
    <3> QED BY <1>6, <2>1, <3>1, SolutionSolves
  <2>4. Written(<<w>>, <<x>>) \in [{w} -> F]
    <3> HIDE DEF x
    <3> QED BY <2>3, WrittenOne
  <2>5. w \notin DOMAIN v
    BY <1>6 DEF SolvableFor
  <2>6. Extends(v, u) /\ DOMAIN u = DOMAIN v \cup {w}
    <3> DEFINE g == Written(<<w>>, <<x>>)
    <3>1. g \in [{w} -> F]
      BY <2>4
    <3> HIDE DEF g
    <3> QED BY <2>5, <3>1 DEF Extends, Override, g
  <2>7. Support(e) \subseteq DOMAIN v \cup {w}
    BY <1>6
  <2> HIDE DEF u, a
  <2> QED BY <2>1, <2>2, <2>3, <2>6, <2>7
<1> QED BY <1>5, <1>6
\* A block that ACVM initialises is the block that the relation expects.
LEMMA MemoryInitExecutes ==
    ASSUME NEW r, IsSolver(r), NEW op, op.op = "MemoryInit", AcvmMemoryInit(r, op).st = "solving"
    PROVE  Executes(r, op, AcvmMemoryInit(r, op))
<1> DEFINE a == AcvmMemoryInit(r, op)
           v == r.sol
<1>1. /\ ToSet(op.init) \subseteq DOMAIN v /\ a.sol = v
      /\ a.mem = With(r.mem, op.block, [k \in DOMAIN op.init |-> v[op.init[k]]])
  BY MemoryInitContinues
<1> HIDE DEF a
<1>2. Needs(op) = ToSet(op.init) /\ Holds(op, v, r.mem)
      /\ MemoryAfter(op, v, r.mem) = With(r.mem, op.block, [k \in DOMAIN op.init |-> v[op.init[k]]])
  BY DEF Needs, Holds, MemoryAfter
<1>3. Executes(r, op, a)
  BY <1>1, <1>2, ExtendsItself DEF Executes
<1> QED BY <1>3 DEF a
\* The result that ACVM gives a bitwise operation satisfies it.
LEMMA LogicExecutes ==
    ASSUME NEW r, IsSolver(r), NEW op, op.op \in {"AND", "XOR"}, AcvmLogic(r, op).st = "solving"
    PROVE  Executes(r, op, AcvmLogic(r, op))
<1> DEFINE a == AcvmLogic(r, op)
           v == r.sol
           xs == InputValues(op.ins, v)
           x == Bits(op.op, xs[1], xs[2])
           b == Assign(r, op.out, x)
<1>1. /\ InputWitnesses(op.ins) \subseteq DOMAIN v /\ AllFit(xs, op.bits) /\ a = b
  <2>1. Fail(r).st = "failed"
    BY FailContinues
  <2> QED BY <2>1 DEF AcvmLogic
<1>2. Extends(v, b.sol) /\ op.out \in DOMAIN b.sol /\ b.sol[op.out] = x /\ b.mem = r.mem
  <2>1. b.st = "solving"
    BY <1>1
  <2> HIDE DEF x
  <2> QED BY <2>1, AssignOneExtends
<1> HIDE DEF a, b
<1>3. InputValues(op.ins, a.sol) = xs
  <2>1. \A w \in InputWitnesses(op.ins) : a.sol[w] = v[w]
    BY <1>1, <1>2 DEF Extends
  <2> QED BY <2>1, InputsSame
<1> HIDE DEF xs
<1>4. Holds(op, a.sol, r.mem)
  <2>1. AllFit(xs, op.bits) /\ a.sol[op.out] = Bits(op.op, xs[1], xs[2])
    BY <1>1, <1>2
  <2> QED BY <1>3, <2>1 DEF Holds
<1>5. Needs(op) \subseteq DOMAIN a.sol
  BY <1>1, <1>2 DEF Needs, Extends
<1>6. a.mem = MemoryAfter(op, a.sol, r.mem)
  BY <1>1, <1>2 DEF MemoryAfter
<1>7. Executes(r, op, a)
  BY <1>1, <1>2, <1>4, <1>5, <1>6 DEF Executes
<1> QED BY <1>7 DEF a
\* A range check that ACVM passes holds.
LEMMA RangeExecutes ==
    ASSUME NEW r, IsSolver(r), NEW op, op.op = "RANGE", AcvmRange(r, op).st = "solving"
    PROVE  Executes(r, op, AcvmRange(r, op))
<1> DEFINE a == AcvmRange(r, op)
           v == r.sol
<1>1. /\ InputWitnesses(op.ins) \subseteq DOMAIN v /\ AllFit(InputValues(op.ins, v), op.bits) /\ a = r
  <2>1. Fail(r).st = "failed"
    BY FailContinues
  <2> QED BY <2>1 DEF AcvmRange
<1> HIDE DEF a
<1>2. Needs(op) = InputWitnesses(op.ins) /\ Holds(op, v, r.mem) /\ MemoryAfter(op, v, r.mem) = r.mem
  BY <1>1 DEF Needs, Holds, MemoryAfter
<1>3. Executes(r, op, a)
  BY <1>1, <1>2, ExtendsItself DEF Executes
<1> QED BY <1>3 DEF a
\* The outputs that ACVM gives a black box satisfy it, called or skipped.
LEMMA BlackBoxExecutes ==
    ASSUME NEW r, IsSolver(r), NEW op \in AllOpcodes, op.op = "BlackBox", IsOpcode(op),
           IsValuation(r.sol), AcvmBlackBox(r, op).st = "solving"
    PROVE  Executes(r, op, AcvmBlackBox(r, op))
<1> DEFINE a == AcvmBlackBox(r, op)
           v == r.sol
           all == op.ins \o op.pred
           xs == BlackBox(op.fn, InputValues(all, v), Len(op.outs))
           b == AssignAll(r, op.outs, xs)
<1>1. /\ InputWitnesses(all) \subseteq DOMAIN v
      /\ AllFit(InputValues(op.ins, v), InputBits(op.fn)) /\ AllFit(InputValues(op.pred, v), 1)
      /\ a = b
  <2>1. Fail(r).st = "failed"
    BY FailContinues
  <2> QED BY <2>1 DEF AcvmBlackBox
<1>2. IsInputs(op.ins) /\ IsInputs(op.pred) /\ op.outs \in Seq(Nat)
  BY DEF IsOpcode
<1> DEFINE n == Len(op.outs)
<1>3. n \in Nat /\ op.outs \in [1 .. n -> Nat] /\ DOMAIN op.outs = 1 .. n
  BY <1>2
<1>4. /\ Extends(v, b.sol) /\ b.mem = r.mem
      /\ \A k \in 1 .. n : op.outs[k] \in DOMAIN b.sol /\ b.sol[op.outs[k]] = xs[k]
  <2>1. b.mem = r.mem
    BY AssignContinues
  <2>2. Assigns(r, op.outs, xs)
    BY <1>1, <1>2 DEF Assigns, IsSequence
  <2> HIDE DEF xs, n
  <2>3. /\ Extends(v, b.sol)
        /\ \A k \in DOMAIN op.outs : op.outs[k] \in DOMAIN b.sol /\ b.sol[op.outs[k]] = xs[k]
    BY <2>2, AssignExtends
  <2> QED BY <1>3, <2>1, <2>3
<1>5. xs \in [DOMAIN op.outs -> F]
  <2>1. [w \in InputWitnesses(all) |-> v[w]] \in [InputWitnesses(all) -> F]
    BY <1>1 DEF IsValuation
  <2>2. InputValues(all, [w \in InputWitnesses(all) |-> v[w]]) = InputValues(all, v)
    BY InputsDepend
  <2> QED BY <2>1, <2>2, ResultsAssumption
<1>6. [k \in DOMAIN op.outs |-> b.sol[op.outs[k]]] = xs
  <2> HIDE DEF xs, n, b
  <2> QED BY <1>3, <1>4, <1>5
<1> HIDE DEF a, b
<1>7. \A w \in InputWitnesses(all) : a.sol[w] = v[w]
  BY <1>1, <1>4 DEF Extends
<1>8. InputWitnesses(op.ins) \cup InputWitnesses(op.pred) \subseteq InputWitnesses(all)
  BY <1>2, InputsOfBoth
<1>9. InputValues(all, a.sol) = InputValues(all, v)
  BY <1>7, InputsSame
<1>10. InputValues(op.ins, a.sol) = InputValues(op.ins, v)
  BY <1>7, <1>8, InputsSame
<1>11. InputValues(op.pred, a.sol) = InputValues(op.pred, v)
  BY <1>7, <1>8, InputsSame
<1>12. Holds(op, a.sol, r.mem)
  BY <1>1, <1>6, <1>9, <1>10, <1>11 DEF Holds
<1>13. Needs(op) \subseteq DOMAIN a.sol
  <2>1. ToSet(op.outs) \subseteq DOMAIN a.sol
    BY <1>1, <1>3, <1>4 DEF ToSet
  <2>2. InputWitnesses(all) \subseteq DOMAIN a.sol
    BY <1>1, <1>4 DEF Extends
  <2> QED BY <2>1, <2>2 DEF Needs
<1>14. a.mem = MemoryAfter(op, a.sol, r.mem)
  BY <1>1, <1>4 DEF MemoryAfter
<1>15. Executes(r, op, a)
  BY <1>1, <1>4, <1>12, <1>13, <1>14 DEF Executes
<1> QED BY <1>15 DEF a
\* The relation asks nothing of the answers to an unconstrained call.
LEMMA BrilligExecutes ==
    ASSUME NEW r, IsSolver(r), NEW op, op.op = "BrilligCall", IsOpcode(op),
           AcvmBrilligCall(r, op).st = "solving"
    PROVE  Executes(r, op, AcvmBrilligCall(r, op))
<1> DEFINE a == AcvmBrilligCall(r, op)
           n == Len(op.outs)
<1>1. PICK xs : a = AssignAll(r, op.outs, xs)
  <2>1. Fail(r).st = "failed"
    BY FailContinues
  <2> QED BY <2>1 DEF AcvmBrilligCall
<1>2. n \in Nat /\ op.outs \in [1 .. n -> Nat]
  BY DEF IsOpcode
<1> DEFINE b == AssignAll(r, op.outs, xs)
<1>3. Extends(r.sol, b.sol) /\ b.mem = r.mem
  <2>1. b.mem = r.mem
    BY AssignContinues
  <2>2. Assigns(r, op.outs, xs)
    BY <1>1, <1>2 DEF Assigns, IsSequence
  <2> QED BY <2>1, <2>2, AssignExtends
<1> HIDE DEF a, b
<1>4. Needs(op) = {} /\ Holds(op, a.sol, r.mem) /\ MemoryAfter(op, a.sol, r.mem) = r.mem
  BY DEF Needs, Holds, MemoryAfter
<1>5. Executes(r, op, a)
  BY <1>1, <1>3, <1>4 DEF Executes, b
<1> QED BY <1>5 DEF a

\* A cell is read into a witness, or written.
LEMMA MemoryOpExecutes ==
    ASSUME NEW r, IsSolver(r), NEW op, op.op = "MemoryOp", IsOpcode(op), op.operation.qc \in {0, 1},
           op.operation.qc = 0 =>
              \E w \in CollectWitnesses(op.value) :
                 op.value = [mul |-> <<>>, lin |-> <<<<1, w>>>>, qc |-> 0],
           AcvmMemoryOp(r, op).st = "solving", IsValuation(AcvmMemoryOp(r, op).sol)
    PROVE  Executes(r, op, AcvmMemoryOp(r, op))
<1> DEFINE a == AcvmMemoryOp(r, op)
           v == r.sol
           i == Value(op.index, v) + 1
           x == Value(op.value, v)
           mem == r.mem
<1>1. /\ op.block \in DOMAIN mem /\ Support(op.index) \subseteq DOMAIN v
      /\ i \in DOMAIN mem[op.block]
      /\ op.operation.qc # 0 =>
            /\ Support(op.value) \subseteq DOMAIN v /\ a.sol = v
            /\ a.mem = [mem EXCEPT ![op.block] = [mem[op.block] EXCEPT ![i] = x]]
  BY MemoryOpContinues
<1>2. IsExpression(op.index) /\ IsExpression(op.value)
  BY DEF IsOpcode
<1>3. CASE op.operation.qc = 1
  <2>1. Support(op.value) \subseteq DOMAIN v /\ a.sol = v
        /\ a.mem = [mem EXCEPT ![op.block] = [mem[op.block] EXCEPT ![i] = x]]
    BY <1>1, <1>3
  <2>2. Needs(op) = Support(op.index) \cup Support(op.value)
    BY DEF Needs
  <2>3. Holds(op, v, mem)
    BY <1>1, <1>3 DEF Holds
  <2>4. MemoryAfter(op, v, mem) = [mem EXCEPT ![op.block] = [mem[op.block] EXCEPT ![i] = x]]
    <3>1. MemoryAfter(op, v, mem) = [mem EXCEPT ![op.block][i] = x]
      BY <1>1, <1>3 DEF MemoryAfter
    <3>2. [mem EXCEPT ![op.block][i] = x] = [mem EXCEPT ![op.block] = [mem[op.block] EXCEPT ![i] = x]]
      <4> HIDE DEF mem, i, x
      <4> QED BY <1>1
    <3> QED BY <3>1, <3>2
  <2> HIDE DEF a, mem, x, i
  <2>5. Extends(r.sol, a.sol) /\ Needs(op) \subseteq DOMAIN a.sol /\ Holds(op, a.sol, r.mem)
    BY <1>1, <2>1, <2>2, <2>3, ExtendsItself DEF mem
  <2>6. a.mem = MemoryAfter(op, a.sol, r.mem)
    BY <2>1, <2>4 DEF mem
  <2>7. Executes(r, op, a)
    BY <2>5, <2>6 DEF Executes
  <2> QED BY <2>7 DEF a
<1>4. CASE op.operation.qc = 0
  <2>1. PICK w \in CollectWitnesses(op.value) :
           op.value = [mul |-> <<>>, lin |-> <<<<1, w>>>>, qc |-> 0]
    BY <1>4
  <2>2. CollectWitnesses(op.value) = {w} /\ op.value.lin[1][2] = w
    BY <1>2, <2>1, OneWitness
  <2> DEFINE cell == mem[op.block][i]
             b == Assign(r, w, cell)
  <2>3. a = b
    <3>1. Fail(r).st = "failed"
      BY FailContinues
    <3> QED BY <1>1, <1>4, <2>2, <3>1 DEF AcvmMemoryOp
  <2>4. Extends(v, b.sol) /\ w \in DOMAIN b.sol /\ b.sol[w] = cell /\ b.mem = mem
    <3>1. b.st = "solving"
      BY <2>3
    <3> HIDE DEF cell
    <3> QED BY <3>1, AssignOneExtends
  <2> HIDE DEF a, b
  <2>5. IsValuation(a.sol)
    BY DEF a
  <2>6. Value(op.value, a.sol) = cell
    <3> DEFINE u == a.sol
               e == op.value
    <3>1. /\ IsValuation(u) /\ w \in DOMAIN u /\ IsExpression(e) /\ u[w] = cell
          /\ e = [mul |-> <<>>, lin |-> <<<<1, w>>>>, qc |-> 0] /\ CollectWitnesses(e) \subseteq DOMAIN u
      BY <1>2, <2>1, <2>2, <2>3, <2>4, <2>5
    <3> HIDE DEF u, e, cell
    <3>2. Value(e, u) = u[w]
      BY <3>1, WitnessValue
    <3>3. Value(e, u) = cell
      BY <3>1, <3>2
    <3> QED BY <3>3 DEF u, e
  <2>7. Value(op.index, a.sol) = Value(op.index, v)
    <3>1. \A y \in Support(op.index) : a.sol[y] = v[y]
      BY <1>1, <2>3, <2>4 DEF Extends
    <3> QED BY <1>2, <3>1, ValueSame
  <2>8. Needs(op) \subseteq DOMAIN a.sol
    <3>1. Support(op.value) \subseteq {w}
      BY <1>2, <2>2, TermInSupport
    <3>2. Support(op.index) \subseteq DOMAIN a.sol
      BY <1>1, <2>3, <2>4 DEF Extends
    <3> QED BY <2>3, <2>4, <3>1, <3>2 DEF Needs
  <2>9. Holds(op, a.sol, mem)
    BY <1>1, <2>6, <2>7 DEF Holds
  <2>10. MemoryAfter(op, a.sol, mem) = mem
    BY <1>4 DEF MemoryAfter
  <2>11. Executes(r, op, a)
    BY <2>3, <2>4, <2>8, <2>9, <2>10 DEF Executes
  <2> QED BY <2>11 DEF a
<1> QED BY <1>3, <1>4

\* ACVM executes the opcodes of a running @compute, calls apart.
LEMMA ReferenceExecutes ==
    ASSUME IInv, CInv, Running("compute"), ~AtEnd(Top), Op.op # "Call", Mirrors(Top),
           Top.ref.st = "solving", Reference(Top, Op).st = "solving",
           IsValuation(Reference(Top, Op).sol)
    PROVE  Executes(Top.ref, Op, Reference(Top, Op))
<1> DEFINE r == Top.ref
           a == Reference(Top, Op)
           c == Circuits[Top.c]
<1>1. /\ IsOpcode(Op) /\ Checked(Circuits, c.opcodes, Top.pc) /\ Op \in AllOpcodes
      /\ Op = c.opcodes[Top.pc]
  BY OpFacts
<1>2. ComputeFits(Circuits, Top)
  BY ComputeFacts
<1>3. IsSolver(r) /\ IsValuation(r.sol) /\ r.sol = Top.vals
  BY <1>2 DEF ComputeFits, Mirrors
<1>4. Op.op \in {"AssertZero", "MemoryInit", "MemoryOp", "AND", "XOR", "RANGE", "BlackBox", "BrilligCall"}
  BY <1>1 DEF IsOpcode
<1>5. /\ Op.op = "AssertZero" => a = AcvmAssertZero(r, Op.e)
      /\ Op.op = "MemoryInit" => a = AcvmMemoryInit(r, Op)
      /\ Op.op = "MemoryOp" => a = AcvmMemoryOp(r, Op)
      /\ Op.op \in {"AND", "XOR"} => a = AcvmLogic(r, Op)
      /\ Op.op = "RANGE" => a = AcvmRange(r, Op)
      /\ Op.op = "BlackBox" => a = AcvmBlackBox(r, Op)
      /\ Op.op = "BrilligCall" => a = AcvmBrilligCall(r, Op)
  BY ReferenceIs
<1>6. a.st = "solving" /\ IsValuation(a.sol)
  OBVIOUS
<1> HIDE DEF a, r
<1>7. CASE Op.op = "AssertZero"
  <2>1. /\ IsExpression(Op.e) /\ Support(Op.e) \subseteq DOMAIN Top.vals \cup Unknown(Op.e)
        /\ \A w \in Unknown(Op.e) : /\ SolvableFor(Op.e, w, Top.vals)
                                    /\ Support(Op.e) \ DOMAIN Top.vals = {w}
    BY <1>7, EquationFacts
  <2>2. \/ Support(Op.e) \subseteq DOMAIN r.sol
        \/ \E w : Support(Op.e) \ DOMAIN r.sol = {w} /\ SolvableFor(Op.e, w, r.sol)
    BY <1>3, <2>1
  <2>3. Executes(r, Op, AcvmAssertZero(r, Op.e))
    BY <1>3, <1>5, <1>6, <1>7, <2>1, <2>2, AssertZeroExecutes
  <2> QED BY <1>5, <1>7, <2>3 DEF a, r
<1>8. CASE Op.op = "MemoryInit"
  <2>1. Executes(r, Op, AcvmMemoryInit(r, Op))
    BY <1>3, <1>5, <1>6, <1>8, MemoryInitExecutes
  <2> QED BY <1>5, <1>8, <2>1 DEF a, r
<1>9. CASE Op.op = "MemoryOp"
  <2>1. /\ Op.operation.qc \in {0, 1}
        /\ Op.operation.qc = 0 =>
              \E w \in CollectWitnesses(Op.value) :
                 Op.value = [mul |-> <<>>, lin |-> <<<<1, w>>>>, qc |-> 0]
    BY <1>1, <1>9 DEF Checked
  <2>2. Executes(r, Op, AcvmMemoryOp(r, Op))
    BY <1>1, <1>3, <1>5, <1>6, <1>9, <2>1, MemoryOpExecutes
  <2> QED BY <1>5, <1>9, <2>2 DEF a, r
<1>10. CASE Op.op \in {"AND", "XOR"}
  <2>1. Executes(r, Op, AcvmLogic(r, Op))
    BY <1>3, <1>5, <1>6, <1>10, LogicExecutes
  <2> QED BY <1>5, <1>10, <2>1 DEF a, r
<1>11. CASE Op.op = "RANGE"
  <2>1. Executes(r, Op, AcvmRange(r, Op))
    BY <1>3, <1>5, <1>6, <1>11, RangeExecutes
  <2> QED BY <1>5, <1>11, <2>1 DEF a, r
<1>12. CASE Op.op = "BlackBox"
  <2>1. Executes(r, Op, AcvmBlackBox(r, Op))
    BY <1>1, <1>3, <1>5, <1>6, <1>12, BlackBoxExecutes
  <2> QED BY <1>5, <1>12, <2>1 DEF a, r
<1>13. CASE Op.op = "BrilligCall"
  <2>1. Executes(r, Op, AcvmBrilligCall(r, Op))
    BY <1>1, <1>3, <1>5, <1>6, <1>13, BrilligExecutes
  <2> QED BY <1>5, <1>13, <2>1 DEF a, r
<1> QED BY <1>4, <1>7, <1>8, <1>9, <1>10, <1>11, <1>12, <1>13

---------------------------------------------------------------------------
\* What ACVM leaves behind

\* A finished execution of a circuit: its number, its witnesses, the structs of its calls
\* by opcode, and its memory before every opcode and at the end.  The execution u is the
\* one that the call op of a circuit with witnesses v made, and that left the struct sub.
Answers(cs, op, v, sub, u) ==
    /\ u.c = op.id /\ sub = [w |-> Solved(cs[u.c], u.v), subs |-> u.subs]
    /\ ToSet(op.ins) \subseteq DOMAIN v /\ ToSet(op.outs) \subseteq DOMAIN v
    /\ \A w \in Params(cs[u.c]) : u.v[w] = v[op.ins[ParamIndex(cs[u.c], w)]]
    /\ \A k \in DOMAIN op.outs :
          cs[u.c].returns[k] \in DOMAIN u.v /\ v[op.outs[k]] = u.v[cs[u.c].returns[k]]

\* The k-th opcode of circuit c holds of the witnesses v, and a call that was made was
\* answered by an execution in T.
ObeysAt(T, cs, c, v, subs, ms, k) ==
    LET op == cs[c].opcodes[k]
    IN  /\ Needs(op) \subseteq DOMAIN v
        /\ Holds(op, v, ms[k]) /\ ms[k + 1] = MemoryAfter(op, v, ms[k])
        /\ op.op = "Call" /\ Value(op.pred, v) = 1 =>
              k \in DOMAIN subs /\ \E u \in T : Answers(cs, op, v, subs[k], u)
Obeys(T, cs, c, v, subs, ms, n) == \A k \in 1 .. n : ObeysAt(T, cs, c, v, subs, ms, k)

IsExecution(T, cs, t) ==
    /\ t = [c |-> t.c, v |-> t.v, subs |-> t.subs, ms |-> t.ms]
    /\ t.c \in DOMAIN cs /\ IsValuation(t.v) /\ DOMAIN t.v \subseteq Nat
    /\ Params(cs[t.c]) \subseteq DOMAIN t.v /\ t.ms[1] = <<>>
    /\ Obeys(T, cs, t.c, t.v, t.subs, t.ms, Len(cs[t.c].opcodes))
Complete(T, cs) == \A t \in T : IsExecution(T, cs, t)

\* With more witnesses, structs and executions, what held of the opcodes still holds.
LEMMA ObeysExtends ==
    ASSUME NEW T, NEW T2, T \subseteq T2, NEW cs, WellFormed(cs), NEW c \in DOMAIN cs,
           NEW v, NEW v2, Extends(v, v2), NEW subs, NEW subs2, NEW ms, NEW ms2,
           NEW n \in 0 .. Len(cs[c].opcodes),
           \A k \in 1 .. n : k \in DOMAIN subs => k \in DOMAIN subs2 /\ subs2[k] = subs[k],
           \A k \in 1 .. n + 1 : ms2[k] = ms[k],
           Obeys(T, cs, c, v, subs, ms, n)
    PROVE  Obeys(T2, cs, c, v2, subs2, ms2, n)
<1> SUFFICES ASSUME NEW k \in 1 .. n PROVE ObeysAt(T2, cs, c, v2, subs2, ms2, k)
  BY DEF Obeys
<1> DEFINE op == cs[c].opcodes[k]
<1>0. IsCircuit(cs[c])
  BY DEF WellFormed
<1>1. k \in 1 .. n + 1 /\ k + 1 \in 1 .. n + 1 /\ k \in DOMAIN cs[c].opcodes
  BY <1>0 DEF IsCircuit, IsSequence
<1>2. IsOpcode(op) /\ Checked(cs, cs[c].opcodes, k)
  BY <1>0, <1>1 DEF IsCircuit, WellFormed
<1>3. ObeysAt(T, cs, c, v, subs, ms, k)
  BY DEF Obeys
<1>4. Needs(op) \subseteq DOMAIN v /\ Holds(op, v, ms[k]) /\ ms[k + 1] = MemoryAfter(op, v, ms[k])
  BY <1>3 DEF ObeysAt
<1>5. \A w \in Needs(op) : v2[w] = v[w] /\ w \in DOMAIN v2
  BY <1>4 DEF Extends
<1>6. /\ Holds(op, v2, ms[k]) <=> Holds(op, v, ms[k])
      /\ MemoryAfter(op, v2, ms[k]) = MemoryAfter(op, v, ms[k])
  <2> HIDE DEF op
  <2> QED BY <1>2, <1>5, RelationSame
<1>7. ms2[k] = ms[k] /\ ms2[k + 1] = ms[k + 1]
  BY <1>1
<1>8. ASSUME op.op = "Call", Value(op.pred, v2) = 1
      PROVE  k \in DOMAIN subs2 /\ \E u \in T2 : Answers(cs, op, v2, subs2[k], u)
  <2>1. Needs(op) = Support(op.pred) /\ IsExpression(op.pred)
    BY <1>2, <1>8 DEF Needs, IsOpcode
  <2>2. Value(op.pred, v) = 1
    <3>1. Value(op.pred, v2) = Value(op.pred, v)
      BY <1>5, <2>1, ValueSame
    <3> QED BY <1>8, <3>1
  <2>3. k \in DOMAIN subs /\ \E u \in T : Answers(cs, op, v, subs[k], u)
    BY <1>3, <1>8, <2>2 DEF ObeysAt
  <2>4. PICK u \in T : Answers(cs, op, v, subs[k], u)
    BY <2>3
  <2>5. k \in DOMAIN subs2 /\ subs2[k] = subs[k]
    BY <2>3
  <2>6. /\ op.id \in DOMAIN cs /\ Len(op.ins) = Cardinality(Params(cs[op.id]))
        /\ op.ins \in Seq(Nat) /\ op.outs \in Seq(Nat)
    BY <1>2, <1>8 DEF Checked, IsOpcode
  <2>7. Answers(cs, op, v2, subs2[k], u)
    <3>1. /\ u.c = op.id /\ subs2[k] = [w |-> Solved(cs[u.c], u.v), subs |-> u.subs]
          /\ ToSet(op.ins) \subseteq DOMAIN v2 /\ ToSet(op.outs) \subseteq DOMAIN v2
      BY <2>4, <2>5 DEF Answers, Extends
    <3>2. ASSUME NEW w \in Params(cs[u.c])
          PROVE  u.v[w] = v2[op.ins[ParamIndex(cs[u.c], w)]]
      <4> DEFINE i == ParamIndex(cs[u.c], w)
      <4>1. i \in 1 .. Len(op.ins)
        <5>1. u.c \in DOMAIN cs /\ IsCircuit(cs[u.c])
          BY <2>6, <3>1 DEF WellFormed
        <5> QED BY <2>6, <3>1, <5>1, ParamIndexInRange DEF IsCircuit
      <4>2. op.ins[i] \in ToSet(op.ins)
        BY <2>6, <4>1 DEF ToSet
      <4>3. u.v[w] = v[op.ins[i]]
        BY <2>4 DEF Answers
      <4>4. op.ins[i] \in DOMAIN v
        BY <2>4, <4>2 DEF Answers
      <4> QED BY <4>3, <4>4 DEF Extends
    <3>3. ASSUME NEW j \in DOMAIN op.outs
          PROVE  cs[u.c].returns[j] \in DOMAIN u.v /\ v2[op.outs[j]] = u.v[cs[u.c].returns[j]]
      <4>1. op.outs[j] \in DOMAIN v
        BY <2>4 DEF Answers, ToSet
      <4> QED BY <2>4, <4>1 DEF Answers, Extends
    <3> QED BY <3>1, <3>2, <3>3 DEF Answers
  <2> QED BY <2>5, <2>7
<1> QED BY <1>4, <1>5, <1>6, <1>7, <1>8 DEF ObeysAt

---------------------------------------------------------------------------
\* The history of a running @compute

\* The witnesses of an expression are numbers, so no opcode writes the unit output.
LEMMA CollectedNumbers ==
    ASSUME NEW e, IsExpression(e)
    PROVE  CollectWitnesses(e) \subseteq Nat
<1> DEFINE ts == e.mul \o e.lin
           n == Len(e.mul)
           m == Len(e.lin)
<1>1. /\ n \in Nat /\ m \in Nat
      /\ \A k \in 1 .. n : e.mul[k] \in F \X Nat \X Nat
      /\ \A k \in 1 .. m : e.lin[k] \in F \X Nat
      /\ DOMAIN ts = 1 .. n + m
      /\ \A k \in 1 .. n : ts[k] = e.mul[k]
      /\ \A k \in 1 .. m : ts[n + k] = e.lin[k]
  BY TermsOfBoth
<1> HIDE DEF n, m, ts
<1>2. ASSUME NEW k \in DOMAIN ts PROVE TermWitnesses(ts[k]) \subseteq Nat
  <2>1. CASE k \in 1 .. n
    <3>1. ts[k] \in F \X Nat \X Nat
      BY <1>1, <2>1
    <3> DEFINE t == ts[k]
    <3> HIDE DEF t
    <3>2. t \in F \X Nat \X Nat
      BY <3>1 DEF t
    <3>3. TermWitnesses(t) = {t[2], t[3]}
      BY <3>2, WitnessesOfProduct
    <3>4. t[2] \in Nat /\ t[3] \in Nat
      BY <3>2
    <3> QED BY <3>3, <3>4 DEF t
  <2>2. CASE k \notin 1 .. n
    <3>1. k - n \in 1 .. m /\ n + (k - n) = k
      BY <1>1, <2>2
    <3> DEFINE t == ts[k]
    <3>2. t \in F \X Nat
      BY <1>1, <3>1
    <3> HIDE DEF t
    <3>3. TermWitnesses(t) = {t[2]}
      BY <3>2, WitnessesOfLinear
    <3>4. t[2] \in Nat
      BY <3>2
    <3> QED BY <3>3, <3>4 DEF t
  <2> QED BY <2>1, <2>2
<1> QED BY <1>2 DEF CollectWitnesses, ToSet, ts
\* The witnesses that an opcode can assign are numbers.
LEMMA OutputsAreNumbers ==
    ASSUME NEW op, IsOpcode(op)
    PROVE  Outputs(op) \subseteq Nat
<1>1. op.op \in {"AssertZero", "MemoryInit", "MemoryOp", "AND", "XOR", "RANGE", "BlackBox",
                 "Call", "BrilligCall"}
  BY DEF IsOpcode
<1>2. CASE op.op \in {"BlackBox", "Call", "BrilligCall"}
  <2>1. op.outs \in Seq(Nat)
    BY <1>2 DEF IsOpcode
  <2>2. ToSet(op.outs) \subseteq Nat
    BY <2>1 DEF ToSet
  <2> QED BY <1>2, <2>2 DEF Outputs
<1>3. CASE op.op \in {"AND", "XOR"}
  BY <1>3 DEF Outputs, IsOpcode
<1>4. CASE op.op = "MemoryOp"
  BY <1>4, CollectedNumbers DEF Outputs, IsOpcode
<1>5. CASE op.op \in {"AssertZero", "MemoryInit", "RANGE"}
  BY <1>5 DEF Outputs
<1> QED BY <1>1, <1>2, <1>3, <1>4, <1>5

\* The opcodes that a frame has executed hold of its witnesses.
Chronicle(T, cs, f) ==
    /\ DOMAIN f.vals \subseteq Nat
    /\ \E ms : /\ ms[1] = <<>> /\ ms[f.pc] = f.mem
               /\ Obeys(T, cs, f.c, f.vals, f.self.subs, ms, f.pc - 1)

\* The inputs of the callee g are those that f waits with.
GivenTo(cs, f, g) ==
    LET op == cs[f.c].opcodes[f.pc]
    IN  /\ ToSet(op.ins) \subseteq DOMAIN f.vals
        /\ \A w \in Params(cs[g.c]) : g.vals[w] = f.vals[op.ins[ParamIndex(cs[g.c], w)]]

\* The frame of the entry circuit has the inputs xs.
Entry(cs, f, xs) == f.c = 1 /\ \A w \in Params(cs[1]) : f.vals[w] = xs[ParamIndex(cs[1], w)]

\* As far as ACVM executes the program, in every frame.
Recorded(T, cs, fs) ==
    /\ Solving(fs, 1) => Entry(cs, fs[1], inputs)
    /\ \A k \in 1 .. Len(fs) : Solving(fs, k) =>
          Chronicle(T, cs, fs[k]) /\ (k > 1 => GivenTo(cs, fs[k - 1], fs[k]))
History(cs, fs) == \E T : Complete(T, cs) /\ Recorded(T, cs, fs)

\* The frame f executes its opcode, with the answer of an execution in T if it is a call,
\* and becomes h.
Proceeds(T, cs, f, h) ==
    LET op == cs[f.c].opcodes[f.pc]
    IN  /\ f.pc \in DOMAIN cs[f.c].opcodes
        /\ h.c = f.c /\ h.pc = f.pc + 1 /\ Extends(f.vals, h.vals) /\ DOMAIN h.vals \subseteq Nat
        /\ \A k \in 1 .. f.pc - 1 :
              k \in DOMAIN f.self.subs => k \in DOMAIN h.self.subs /\ h.self.subs[k] = f.self.subs[k]
        /\ Needs(op) \subseteq DOMAIN h.vals
        /\ Holds(op, h.vals, f.mem) /\ h.mem = MemoryAfter(op, h.vals, f.mem)
        /\ op.op = "Call" /\ Value(op.pred, h.vals) = 1 =>
              /\ f.pc \in DOMAIN h.self.subs
              /\ \E u \in T : Answers(cs, op, h.vals, h.self.subs[f.pc], u)

\* Its chronicle grows with it.
LEMMA ChronicleProceeds ==
    ASSUME NEW T, NEW T2, T \subseteq T2, NEW cs, WellFormed(cs), NEW f, ComputeFits(cs, f),
           NEW h, Chronicle(T, cs, f), Proceeds(T2, cs, f, h)
    PROVE  Chronicle(T2, cs, h)
<1> DEFINE c == f.c
           pc == f.pc
           op == cs[c].opcodes[pc]
<1>1. PICK ms : ms[1] = <<>> /\ ms[pc] = f.mem /\ Obeys(T, cs, c, f.vals, f.self.subs, ms, pc - 1)
  BY DEF Chronicle
<1> DEFINE ms2 == [k \in 1 .. pc + 1 |-> IF k = pc + 1 THEN h.mem ELSE ms[k]]
<1>2. /\ c \in DOMAIN cs /\ pc \in 1 .. Len(cs[c].opcodes) /\ pc \in Nat \ {0}
      /\ pc - 1 \in 0 .. Len(cs[c].opcodes)
  <2>1. c \in DOMAIN cs
    BY DEF ComputeFits
  <2>2. IsSequence(cs[c].opcodes)
    BY <2>1 DEF WellFormed, IsCircuit
  <2>3. pc \in DOMAIN cs[c].opcodes
    BY DEF Proceeds
  <2> HIDE DEF c, pc
  <2> QED BY <2>1, <2>2, <2>3 DEF IsSequence
<1>3. /\ h.c = c /\ h.pc = pc + 1 /\ Extends(f.vals, h.vals) /\ DOMAIN h.vals \subseteq Nat
      /\ \A k \in 1 .. pc - 1 :
            k \in DOMAIN f.self.subs => k \in DOMAIN h.self.subs /\ h.self.subs[k] = f.self.subs[k]
  BY DEF Proceeds
<1> HIDE DEF c, pc
<1>4. ms2[pc + 1] = h.mem /\ \A k \in 1 .. pc : ms2[k] = ms[k]
  BY <1>2
<1>5. (pc - 1) + 1 = pc /\ 1 \in 1 .. pc /\ pc \in 1 .. pc
  BY <1>2
<1> HIDE DEF ms2
<1>6. Obeys(T2, cs, c, h.vals, h.self.subs, ms2, pc - 1)
  <2> DEFINE n == pc - 1
             v == f.vals
             v2 == h.vals
             s == f.self.subs
             s2 == h.self.subs
  <2>1. n \in 0 .. Len(cs[c].opcodes) /\ Obeys(T, cs, c, v, s, ms, n) /\ Extends(v, v2)
    BY <1>1, <1>2, <1>3
  <2>2. \A k \in 1 .. n : k \in DOMAIN s => k \in DOMAIN s2 /\ s2[k] = s[k]
    BY <1>3
  <2>3. \A k \in 1 .. n + 1 : ms2[k] = ms[k]
    BY <1>4, <1>5
  <2> HIDE DEF n, v, v2, s, s2
  <2>4. Obeys(T2, cs, c, v2, s2, ms2, n)
    BY <1>2, <2>1, <2>2, <2>3, ObeysExtends
  <2> QED BY <2>4 DEF n, v2, s2
<1>7. ObeysAt(T2, cs, c, h.vals, h.self.subs, ms2, pc)
  <2>1. ms2[pc] = f.mem /\ ms2[pc + 1] = h.mem
    BY <1>1, <1>4, <1>5
  <2> QED BY <2>1 DEF ObeysAt, Proceeds, c, pc
<1>8. Obeys(T2, cs, h.c, h.vals, h.self.subs, ms2, h.pc - 1)
  <2>1. h.pc - 1 = pc /\ \A k \in 1 .. pc : k \in 1 .. pc - 1 \/ k = pc
    BY <1>2, <1>3
  <2> QED BY <1>3, <1>6, <1>7, <2>1 DEF Obeys
<1>9. ms2[1] = <<>> /\ ms2[h.pc] = h.mem
  BY <1>1, <1>3, <1>4, <1>5
<1> QED BY <1>3, <1>8, <1>9 DEF Chronicle

\* More executions do no harm.
LEMMA ChronicleGrows ==
    ASSUME NEW T, NEW T2, T \subseteq T2, NEW cs, WellFormed(cs), NEW f, ComputeFits(cs, f),
           Chronicle(T, cs, f)
    PROVE  Chronicle(T2, cs, f)
<1> DEFINE c == f.c
           n == f.pc - 1
           v == f.vals
           s == f.self.subs
<1>1. PICK ms : ms[1] = <<>> /\ ms[f.pc] = f.mem /\ Obeys(T, cs, c, v, s, ms, n)
  BY DEF Chronicle
<1>2. c \in DOMAIN cs /\ n \in 0 .. Len(cs[c].opcodes) /\ DOMAIN v \subseteq Nat
  <2>1. c \in DOMAIN cs /\ f.pc \in 1 .. Len(cs[c].opcodes) + 1
    BY DEF ComputeFits
  <2>2. Len(cs[c].opcodes) \in Nat
    BY <2>1 DEF WellFormed, IsCircuit, IsSequence
  <2> QED BY <2>1, <2>2 DEF Chronicle
<1> HIDE DEF c, n, v, s
<1>3. /\ \A k \in 1 .. n : k \in DOMAIN s => k \in DOMAIN s /\ s[k] = s[k]
      /\ \A k \in 1 .. n + 1 : ms[k] = ms[k]
  OBVIOUS
<1>4. Obeys(T2, cs, c, v, s, ms, n)
  BY <1>1, <1>2, <1>3, ExtendsItself, ObeysExtends
<1> QED BY <1>1, <1>2, <1>4 DEF Chronicle, c, n, v, s
\* One more execution leaves a set of complete executions complete.
LEMMA CompleteGrows ==
    ASSUME NEW T, NEW cs, WellFormed(cs), Complete(T, cs), NEW u, IsExecution(T, cs, u)
    PROVE  Complete(T \cup {u}, cs)
<1> DEFINE T2 == T \cup {u}
<1>1. SUFFICES ASSUME NEW t \in T2 PROVE IsExecution(T2, cs, t)
  BY DEF Complete
<1>2. IsExecution(T, cs, t)
  BY DEF Complete
<1>3. T \subseteq T2
  OBVIOUS
<1> HIDE DEF T2
<1> DEFINE c == t.c
           n == Len(cs[c].opcodes)
           v == t.v
           s == t.subs
           ms == t.ms
<1>4. c \in DOMAIN cs /\ Obeys(T, cs, c, v, s, ms, n)
  BY <1>2 DEF IsExecution
<1>5. n \in 0 .. n
  <2>1. Len(cs[c].opcodes) \in Nat
    BY <1>4 DEF WellFormed, IsCircuit, IsSequence
  <2> QED BY <2>1
<1>6. Obeys(T2, cs, c, v, s, ms, n)
  <2> DEFINE m == n
  <2>1. m \in 0 .. Len(cs[c].opcodes) /\ Obeys(T, cs, c, v, s, ms, m) /\ c \in DOMAIN cs
    BY <1>4, <1>5
  <2> HIDE DEF c, v, s, ms, m
  <2>2. /\ \A k \in 1 .. m : k \in DOMAIN s => k \in DOMAIN s /\ s[k] = s[k]
        /\ \A k \in 1 .. m + 1 : ms[k] = ms[k]
    OBVIOUS
  <2>3. Obeys(T2, cs, c, v, s, ms, m)
    BY <1>3, <2>1, <2>2, ExtendsItself, ObeysExtends
  <2> QED BY <2>3 DEF m, c, v, s, ms
<1> QED BY <1>2, <1>6 DEF IsExecution

\* The frame at n of the stack fs becomes h, those above it are dropped, and as far as ACVM
\* executes the program that is how the frame proceeds.
Onward(T, T2, cs, fs, n, h, gs) ==
    /\ T \subseteq T2 /\ WellFormed(cs) /\ ComputeStackFits(cs, fs) /\ Recorded(T, cs, fs)
    /\ n \in 1 .. Len(fs) /\ gs = [k \in 1 .. n |-> IF k = n THEN h ELSE fs[k]]
    /\ Continues(fs[n].ref, h.ref)
    /\ Solving(gs, n) => Proceeds(T2, cs, fs[n], h)

\* When the top frame proceeds, with or without a callee to return from, the record goes on.
LEMMA RecordedMoves ==
    ASSUME NEW T, NEW T2, NEW cs, NEW fs, NEW n, NEW h, NEW gs, Onward(T, T2, cs, fs, n, h, gs)
    PROVE  Recorded(T2, cs, gs)
<1>1. /\ T \subseteq T2 /\ WellFormed(cs) /\ ComputeStackFits(cs, fs) /\ Recorded(T, cs, fs)
      /\ n \in 1 .. Len(fs) /\ gs = [k \in 1 .. n |-> IF k = n THEN h ELSE fs[k]]
      /\ Continues(fs[n].ref, h.ref)
      /\ Solving(gs, n) => Proceeds(T2, cs, fs[n], h)
  BY DEF Onward
<1>2. Len(fs) \in Nat /\ n \in Nat \ {0} /\ n <= Len(fs)
  BY <1>1 DEF ComputeStackFits
<1>3. /\ DOMAIN gs = 1 .. n /\ gs[n] = h
      /\ \A k \in 1 .. n - 1 : k \in 1 .. n /\ k \in 1 .. Len(fs) /\ gs[k] = fs[k]
  BY <1>1, <1>2
<1>4. Len(gs) = n
  <2>1. gs \in [1 .. n -> ToSet(gs)]
    <3>1. gs = [k \in 1 .. n |-> gs[k]]
      BY <1>1
    <3>2. \A k \in 1 .. n : gs[k] \in ToSet(gs)
      BY <1>3 DEF ToSet
    <3> QED BY <3>1, <3>2
  <2> QED BY <1>2, <2>1, ByElements
<1>5. ASSUME NEW k \in 1 .. n, Solving(gs, k) PROVE Solving(fs, k)
  <2>1. \A j \in 1 .. k : gs[j].ref.st = "solving"
    BY <1>5 DEF Solving
  <2>2. ASSUME NEW j \in 1 .. k PROVE fs[j].ref.st = "solving"
    <3>1. CASE j = n
      <4>1. h.ref.st = "solving"
        BY <1>3, <2>1, <3>1
      <4> QED BY <1>1, <3>1, <4>1 DEF Continues
    <3>2. CASE j # n
      <4>1. j \in 1 .. n - 1
        BY <1>2, <3>2
      <4> QED BY <1>3, <2>1, <4>1
    <3> QED BY <3>1, <3>2
  <2> QED BY <2>2 DEF Solving
<1>6. ASSUME NEW k \in 1 .. n, Solving(gs, k)
      PROVE  Chronicle(T2, cs, gs[k]) /\ (k > 1 => GivenTo(cs, gs[k - 1], gs[k]))
  <2>1. /\ k \in 1 .. Len(fs) /\ ComputeFits(cs, fs[k]) /\ Chronicle(T, cs, fs[k])
        /\ k > 1 => GivenTo(cs, fs[k - 1], fs[k])
    <3>1. k \in 1 .. Len(fs)
      BY <1>2
    <3> QED BY <1>1, <1>5, <1>6, <3>1 DEF Recorded, ComputeStackFits
  <2>2. k > 1 => gs[k - 1] = fs[k - 1]
    <3>1. k > 1 => k - 1 \in 1 .. n - 1
      BY <1>2
    <3> QED BY <1>3, <3>1
  <2>3. CASE k = n
    <3>1. Proceeds(T2, cs, fs[n], h) /\ gs[k] = h
      BY <1>1, <1>3, <1>6, <2>3
    <3>2. Chronicle(T2, cs, h)
      BY <1>1, <2>1, <2>3, <3>1, ChronicleProceeds
    <3>3. h.c = fs[n].c /\ Extends(fs[n].vals, h.vals)
      BY <3>1 DEF Proceeds
    <3>4. Params(cs[h.c]) \subseteq DOMAIN fs[n].vals
      BY <2>1, <2>3, <3>3 DEF ComputeFits
    <3>5. k > 1 => GivenTo(cs, gs[k - 1], h)
      <4>1. \A w \in Params(cs[h.c]) : h.vals[w] = fs[n].vals[w]
        BY <3>3, <3>4 DEF Extends
      <4> QED BY <2>1, <2>2, <2>3, <3>3, <4>1 DEF GivenTo
    <3> QED BY <3>1, <3>2, <3>5
  <2>4. CASE k # n
    <3>1. gs[k] = fs[k]
      <4>1. k \in 1 .. n - 1
        BY <1>2, <2>4
      <4> QED BY <1>3, <4>1
    <3>2. Chronicle(T2, cs, fs[k])
      BY <1>1, <2>1, ChronicleGrows
    <3> QED BY <2>1, <2>2, <3>1, <3>2
  <2> QED BY <2>3, <2>4
<1>7. ASSUME Solving(gs, 1) PROVE Entry(cs, gs[1], inputs)
  <2>1. 1 \in 1 .. n /\ 1 \in 1 .. Len(fs)
    BY <1>2
  <2>2. Solving(fs, 1)
    BY <1>5, <1>7, <2>1
  <2>3. Entry(cs, fs[1], inputs) /\ ComputeFits(cs, fs[1])
    BY <1>1, <2>1, <2>2 DEF Recorded, ComputeStackFits
  <2>4. CASE n = 1
    <3>1. Proceeds(T2, cs, fs[1], h) /\ gs[1] = h
      BY <1>1, <1>3, <1>7, <2>4
    <3>2. h.c = fs[1].c /\ Extends(fs[1].vals, h.vals)
      BY <3>1 DEF Proceeds
    <3>3. Params(cs[1]) \subseteq DOMAIN fs[1].vals
      BY <2>3 DEF ComputeFits, Entry
    <3> QED BY <2>3, <3>1, <3>2, <3>3 DEF Entry, Extends
  <2>5. CASE n # 1
    <3>1. 1 \in 1 .. n - 1
      BY <1>2, <2>5
    <3> QED BY <1>3, <2>3, <3>1
  <2> QED BY <2>4, <2>5
<1> QED BY <1>4, <1>6, <1>7 DEF Recorded

\* A frame that has executed all its opcodes is an execution.
LEMMA FrameCompletes ==
    ASSUME NEW T, NEW cs, WellFormed(cs), NEW f, ComputeFits(cs, f), Chronicle(T, cs, f),
           f.pc > Len(cs[f.c].opcodes)
    PROVE  \E u : /\ IsExecution(T, cs, u) /\ u.c = f.c /\ u.v = f.vals /\ u.subs = f.self.subs
                  /\ f.self = [w |-> Solved(cs[u.c], u.v), subs |-> u.subs]
<1> DEFINE c == f.c
           v == f.vals
           s == f.self.subs
           n == Len(cs[c].opcodes)
<1>1. PICK ms : ms[1] = <<>> /\ ms[f.pc] = f.mem /\ Obeys(T, cs, c, v, s, ms, f.pc - 1)
  BY DEF Chronicle
<1>2. f.pc - 1 = n /\ c \in DOMAIN cs
  <2>1. c \in DOMAIN cs /\ f.pc \in 1 .. n + 1
    BY DEF ComputeFits
  <2>2. n \in Nat
    BY <2>1 DEF WellFormed, IsCircuit, IsSequence
  <2> HIDE DEF n
  <2>3. f.pc > n
    BY DEF n
  <2> QED BY <2>1, <2>2, <2>3
<1> DEFINE u == [c |-> c, v |-> v, subs |-> s, ms |-> ms]
<1>3. IsValuation(v) /\ DOMAIN v \subseteq Nat /\ Params(cs[c]) \subseteq DOMAIN v
  BY DEF ComputeFits, Chronicle
<1>4. f.self = [w |-> Solved(cs[c], v), subs |-> s]
  <2>1. f = [c |-> f.c, pc |-> f.pc, vals |-> f.vals,
             self |-> [w |-> Solved(cs[c], v), subs |-> s], mem |-> f.mem, ref |-> f.ref]
    BY DEF ComputeFits
  <2> DEFINE self == [w |-> Solved(cs[c], v), subs |-> s]
  <2> HIDE DEF self, c, v, s
  <2>2. f.self = self
    BY <2>1 DEF self
  <2> QED BY <2>2 DEF self
<1>5. Obeys(T, cs, c, v, s, ms, n)
  BY <1>1, <1>2
<1> HIDE DEF c, v, s
<1>6. u.c = c /\ u.v = v /\ u.subs = s /\ u.ms = ms /\ u = [c |-> u.c, v |-> u.v, subs |-> u.subs, ms |-> u.ms]
  OBVIOUS
<1> HIDE DEF u
<1>7. IsExecution(T, cs, u)
  BY <1>1, <1>2, <1>3, <1>5, <1>6 DEF IsExecution
<1> QED BY <1>4, <1>6, <1>7 DEF c, v, s

\* ACVM executes the frames up to n if it does so once the one at n has gone on.
LEMMA SolvingBefore ==
    ASSUME NEW fs, NEW n \in Nat, NEW h, Continues(fs[n].ref, h.ref),
           NEW gs, gs = [k \in 1 .. n |-> IF k = n THEN h ELSE fs[k]], Solving(gs, n)
    PROVE  Solving(fs, n)
<1>1. \A j \in 1 .. n : gs[j].ref.st = "solving"
  BY DEF Solving
<1>2. ASSUME NEW j \in 1 .. n PROVE fs[j].ref.st = "solving"
  <2>1. CASE j = n
    <3>1. h.ref.st = "solving"
      BY <1>1, <2>1
    <3> QED BY <2>1, <3>1 DEF Continues
  <2>2. CASE j # n
    <3>1. gs[j] = fs[j]
      BY <2>2
    <3> QED BY <1>1, <3>1
  <2> QED BY <2>1, <2>2
<1> QED BY <1>2 DEF Solving

\* The witnesses known at the next opcode are numbers.
LEMMA NextAreNumbers ==
    ASSUME IInv, CInv, Running("compute"), ~AtEnd(Top), DOMAIN Top.vals \subseteq Nat
    PROVE  WriterAfter(Circuits[Top.c], Top.pc).known \subseteq Nat
<1>1. IsOpcode(Op)
  BY OpFacts
<1>2. CASE Op.op = "AssertZero"
  <2>1. /\ WriterAfter(Circuits[Top.c], Top.pc).known = DOMAIN Top.vals \cup Unknown(Op.e)
        /\ IsExpression(Op.e)
    BY <1>2, EquationFacts
  <2>2. Unknown(Op.e) \subseteq Nat
    BY <2>1, CollectedNumbers DEF Unknown
  <2> QED BY <2>1, <2>2
<1>3. CASE Op.op # "AssertZero"
  <2>1. WriterAfter(Circuits[Top.c], Top.pc).known = DOMAIN Top.vals \cup Outputs(Op)
    BY <1>3, KnownNext
  <2> QED BY <1>1, <2>1, OutputsAreNumbers
<1> QED BY <1>2, <1>3

\* The code of an opcode that is not a call runs, and the frame becomes h.
LEMMA OpcodeRecords ==
    ASSUME IInv, CInv, CInv', Running("compute"), ~AtEnd(Top), Op.op # "Call",
           outcome' = "ok", phase' = phase, prog' = prog, History(Circuits, stack),
           NEW h, stack' = [stack EXCEPT ![Len(stack)] = h],
           h.c = Top.c, h.pc = Top.pc + 1, h.ref = Reference(Top, Op), h.self.subs = Top.self.subs
    PROVE  History(Circuits, stack')
<1> DEFINE cs == Circuits
           fs == stack
           gs == stack'
           n == Len(stack)
           f == Top
           a == Reference(Top, Op)
<1>1. /\ WellFormed(cs) /\ ComputeStackFits(cs, fs) /\ n \in 1 .. n /\ f = fs[n] /\ DOMAIN fs = 1 .. n
      /\ ComputeFits(cs, f) /\ (Solving(fs, n) => Mirrors(f)) /\ phase = "compute"
  BY ComputeFacts
<1>2. /\ f.pc \in DOMAIN cs[f.c].opcodes /\ Op = cs[f.c].opcodes[f.pc] /\ IsOpcode(Op)
      /\ f.pc \in Nat
  BY OpFacts
<1>3. ComputeStackFits(cs, gs)
  <2>1. cs' = cs
    BY DEF Circuits
  <2> HIDE DEF cs
  <2> QED BY <1>1, <2>1 DEF CInv, cs
<1>4. n \in Nat /\ gs = [k \in 1 .. n |-> IF k = n THEN h ELSE fs[k]]
  <2>1. n \in Nat
    BY <1>1 DEF ComputeStackFits
  <2>2. gs = [fs EXCEPT ![n] = h]
    OBVIOUS
  <2>3. fs = [k \in 1 .. n |-> fs[k]]
    BY <1>1 DEF ComputeStackFits
  <2> HIDE DEF n, fs, gs
  <2> QED BY <1>1, <2>1, <2>2, <2>3
<1>5. Len(gs) = n /\ gs[n] = h
  <2>1. DOMAIN gs = 1 .. n /\ gs[n] = h
    <3> HIDE DEF n, gs
    <3> QED BY <1>1, <1>4
  <2>2. DOMAIN gs = 1 .. Len(gs) /\ Len(gs) \in Nat
    BY <1>3 DEF ComputeStackFits
  <2> HIDE DEF n, gs
  <2> QED BY <1>4, <2>1, <2>2
<1>6. ComputeFits(cs, h) /\ (Solving(gs, n) => Mirrors(h))
  <2> HIDE DEF n, gs, cs
  <2> QED BY <1>1, <1>3, <1>5 DEF ComputeStackFits
<1>7. IsSolver(f.ref) /\ Continues(f.ref, h.ref)
  <2>1. IsSolver(f.ref)
    BY <1>1 DEF ComputeFits
  <2> QED BY <1>2, <2>1, ReferenceContinues
<1>8. PICK T : Complete(T, cs) /\ Recorded(T, cs, fs)
  BY DEF History
<1>9. ASSUME Solving(gs, n) PROVE Proceeds(T, cs, f, h)
  <2>1. Solving(fs, n)
    <3> HIDE DEF fs, gs, n
    <3> QED BY <1>1, <1>4, <1>7, <1>9, SolvingBefore, SMTT(40)
  <2>2. Mirrors(f) /\ f.ref.st = "solving"
    <3> HIDE DEF n
    <3> QED BY <1>1, <2>1 DEF Solving
  <2>3. h.ref.st = "solving" /\ Mirrors(h)
    <3> HIDE DEF n, gs
    <3> QED BY <1>1, <1>5, <1>6, <1>9 DEF Solving
  <2>4. IsValuation(a.sol) /\ a.sol = h.vals /\ a.mem = h.mem /\ a.st = "solving"
    <3>1. IsValuation(h.vals)
      BY <1>6 DEF ComputeFits
    <3> QED BY <2>3, <3>1 DEF Mirrors
  <2>5. Executes(f.ref, Op, a)
    BY <2>2, <2>4, ReferenceExecutes
  <2> HIDE DEF a
  <2>6. /\ Extends(f.vals, h.vals) /\ Needs(Op) \subseteq DOMAIN h.vals
        /\ Holds(Op, h.vals, f.mem) /\ h.mem = MemoryAfter(Op, h.vals, f.mem)
    BY <2>2, <2>4, <2>5 DEF Executes, Mirrors
  <2>7. DOMAIN h.vals \subseteq Nat
    <3>1. DOMAIN f.vals \subseteq Nat
      <4> HIDE DEF n
      <4> QED BY <1>1, <1>8, <2>1 DEF Recorded, Chronicle, n
    <3>2. WriterAfter(cs[f.c], f.pc).known \subseteq Nat
      BY <3>1, NextAreNumbers
    <3>3. DOMAIN h.vals = WriterAfter(cs[f.c], h.pc - 1).known /\ h.pc - 1 = f.pc
      BY <1>2, <1>6 DEF ComputeFits
    <3> QED BY <3>2, <3>3
  <2>8. \A k \in 1 .. f.pc - 1 :
           k \in DOMAIN f.self.subs => k \in DOMAIN h.self.subs /\ h.self.subs[k] = f.self.subs[k]
    OBVIOUS
  <2> HIDE DEF f, cs
  <2>9. h.c = f.c /\ h.pc = f.pc + 1
    BY DEF f
  <2> QED BY <1>2, <2>6, <2>7, <2>8, <2>9 DEF Proceeds
<1>10. Onward(T, T, cs, fs, n, h, gs)
  <2> HIDE DEF n, gs, cs, fs, f
  <2> QED BY <1>1, <1>4, <1>7, <1>8, <1>9 DEF Onward
<1> HIDE DEF n, gs, cs, fs, f
<1>11. Recorded(T, cs, gs)
  BY <1>10, RecordedMoves
<1>12. History(cs, gs)
  BY <1>8, <1>11 DEF History
<1> QED BY <1>12 DEF cs, gs

\* The fields of a frame.
IsFrame(f) ==
    f = [c |-> f.c, pc |-> f.pc, vals |-> f.vals, self |-> f.self, mem |-> f.mem, ref |-> f.ref]
\* What the code of an opcode, a call's apart, leaves alone in the running frame.
Moved(f) == IsFrame(f) /\ f.c = Top.c /\ f.pc = Top.pc /\ f.self.subs = Top.self.subs

\* The frame goes on to the next opcode.
LEMMA MovedProceeds ==
    ASSUME NEW f, Moved(f)
    PROVE  LET h == [f EXCEPT !.ref = Reference(Top, Op), !.pc = Top.pc + 1]
           IN  /\ h.c = Top.c /\ h.pc = Top.pc + 1 /\ h.ref = Reference(Top, Op)
               /\ h.self.subs = Top.self.subs
<1> DEFINE a == Reference(Top, Op)
           h == [f EXCEPT !.ref = a, !.pc = Top.pc + 1]
           c == f.c
           pc == f.pc
           vals == f.vals
           self == f.self
           mem == f.mem
           ref == f.ref
           pc1 == Top.pc + 1
           g == [f EXCEPT !.ref = a]
<1>1. f = [c |-> c, pc |-> pc, vals |-> vals, self |-> self, mem |-> mem, ref |-> ref]
  BY DEF Moved, IsFrame
<1>0. c = Top.c /\ self.subs = Top.self.subs
  BY DEF Moved
<1>2. h = [g EXCEPT !.pc = pc1]
  OBVIOUS
<1> HIDE DEF c, pc, vals, self, mem, ref, pc1, a
<1>3. g = [c |-> c, pc |-> pc, vals |-> vals, self |-> self, mem |-> mem, ref |-> a]
  BY <1>1
<1> HIDE DEF g, h
<1>4. h = [c |-> c, pc |-> pc1, vals |-> vals, self |-> self, mem |-> mem, ref |-> a]
  BY <1>2, <1>3
<1>5. h.c = c /\ h.pc = pc1 /\ h.self = self /\ h.ref = a
  BY <1>4
<1> QED BY <1>0, <1>5 DEF h, g, a, pc1

\* When the top frame proceeds past an opcode that is not a call, the record goes on.
LEMMA ReplaceRecords ==
    ASSUME IInv, CInv, CInv', Running("compute"), ~AtEnd(Top), Op.op # "Call",
           History(Circuits, stack), NEW f, Moved(f), Replace(f, "ok")
    PROVE  History(Circuits, stack')
<1> DEFINE h == [f EXCEPT !.ref = Reference(Top, Op), !.pc = Top.pc + 1]
<1>1. stack' = [stack EXCEPT ![Len(stack)] = h] /\ outcome' = "ok" /\ prog' = prog /\ phase' = phase
  BY ReplaceIs DEF Moved
<1>2. /\ h.c = Top.c /\ h.pc = Top.pc + 1 /\ h.ref = Reference(Top, Op)
      /\ h.self.subs = Top.self.subs
  BY MovedProceeds
<1> HIDE DEF h
<1> QED BY <1>1, <1>2, OpcodeRecords

\* The code of an opcode that writes witnesses.
LEMMA DefineMoves ==
    ASSUME IInv, CInv, Running("compute"), NEW ws, NEW xs
    PROVE  Moved(Define(Top, ws, xs))
<1> DEFINE f == Define(Top, ws, xs)
           c == Top.c
           pc == Top.pc
           vals == Top.vals
           w == Top.self.w
           subs == Top.self.subs
           self == [w |-> Solved(Circuits[c], vals), subs |-> subs]
           mem == Top.mem
           ref == Top.ref
           g == Written(ws, xs)
           v2 == Override(vals, g)
           w2 == Override(w, g)
<1>1. Top = [c |-> c, pc |-> pc, vals |-> vals, self |-> self, mem |-> mem, ref |-> ref]
  BY ComputeFacts DEF ComputeFits
<1>2. f = [Top EXCEPT !.vals = v2, !.self.w = w2]
  BY DEF Define
<1>3. self.subs = subs /\ [self EXCEPT !.w = w2] = [w |-> w2, subs |-> subs]
  OBVIOUS
<1> HIDE DEF c, pc, vals, w, subs, self, mem, ref, g, v2, w2
<1>4. f = [c |-> c, pc |-> pc, vals |-> v2, self |-> [self EXCEPT !.w = w2], mem |-> mem, ref |-> ref]
  BY <1>1, <1>2
<1>5. f = [c |-> c, pc |-> pc, vals |-> v2, self |-> [w |-> w2, subs |-> subs], mem |-> mem, ref |-> ref]
  BY <1>3, <1>4
<1> HIDE DEF f
<1>6. IsFrame(f) /\ f.c = Top.c /\ f.pc = Top.pc /\ f.self.subs = Top.self.subs
  BY <1>5 DEF IsFrame, c, pc, subs
<1> QED BY <1>6 DEF Moved, f

\* The code of an opcode that writes none.
LEMMA StoreMoves ==
    ASSUME IInv, CInv, Running("compute"), NEW m
    PROVE  Moved([Top EXCEPT !.mem = m])
<1> DEFINE f == [Top EXCEPT !.mem = m]
           self == [w |-> Solved(Circuits[Top.c], Top.vals), subs |-> Top.self.subs]
<1>1. Top = [c |-> Top.c, pc |-> Top.pc, vals |-> Top.vals, self |-> self, mem |-> Top.mem, ref |-> Top.ref]
  BY ComputeFacts DEF ComputeFits
<1> HIDE DEF self
<1>2. IsFrame(f) /\ f.c = Top.c /\ f.pc = Top.pc /\ f.self.subs = Top.self.subs
  BY <1>1 DEF IsFrame
<1> HIDE DEF f
<1> QED BY <1>2 DEF Moved, f

\* The code of an opcode that changes nothing.
LEMMA TopMoves ==
    ASSUME IInv, CInv, Running("compute")
    PROVE  Moved(Top)
<1> DEFINE self == [w |-> Solved(Circuits[Top.c], Top.vals), subs |-> Top.self.subs]
<1>1. Top = [c |-> Top.c, pc |-> Top.pc, vals |-> Top.vals, self |-> self, mem |-> Top.mem, ref |-> Top.ref]
  BY ComputeFacts DEF ComputeFits
<1> HIDE DEF self
<1> QED BY <1>1 DEF IsFrame, Moved

\* A call starts a frame with no history, which has its inputs from the caller.
LEMMA CallRecords ==
    ASSUME IInv, CInv, ComputeCall, History(Circuits, stack)
    PROVE  History(Circuits, stack')
<1> DEFINE cs == Circuits
           fs == stack
           gs == stack'
           n == Len(stack)
           f == Top
           op == Op
           v == Top.vals
           args == [k \in DOMAIN op.ins |-> v[op.ins[k]]]
           ref == IF f.ref.st \in {"solving", "stalled"} THEN AcvmCallee(f.ref, op) ELSE f.ref
           h == Frame(op.id, args, Struct, ref)
           callee == cs[op.id]
<1>1. /\ Running("compute") /\ ~AtEnd(Top) /\ op.op = "Call" /\ gs = Append(fs, h)
      /\ ToSet(op.ins) \subseteq DOMAIN v
  <2>1. Running("compute") /\ ~AtEnd(Top) /\ op.op = "Call" /\ ReadBy(op) \subseteq DOMAIN v
    BY DEF ComputeCall, Computing, At
  <2>2. ReadBy(op) = ToSet(op.ins) \cup Support(op.pred)
    BY <2>1 DEF ReadBy
  <2>3. gs = Append(fs, h)
    BY DEF ComputeCall
  <2> QED BY <2>1, <2>2, <2>3
<1>2. /\ WellFormed(cs) /\ ComputeStackFits(cs, fs) /\ n \in 1 .. n /\ f = fs[n] /\ DOMAIN fs = 1 .. n
  BY <1>1, ComputeFacts
<1>3. /\ f.pc \in DOMAIN cs[f.c].opcodes /\ op = cs[f.c].opcodes[f.pc]
      /\ IsOpcode(op) /\ Checked(cs, cs[f.c].opcodes, f.pc)
  BY <1>1, OpFacts
<1>4. /\ op.id \in DOMAIN cs /\ Len(op.ins) = Cardinality(Params(callee)) /\ op.ins \in Seq(Nat)
      /\ IsCircuit(callee)
  BY <1>1, <1>2, <1>3 DEF Checked, IsOpcode, WellFormed
<1>5. /\ n \in Nat /\ DOMAIN gs = 1 .. n + 1 /\ gs[n + 1] = h /\ Len(gs) = n + 1
      /\ \A k \in 1 .. n : gs[k] = fs[k]
  <2>1. n \in Nat /\ fs \in Seq(ToSet(fs))
    BY <1>2 DEF ComputeStackFits
  <2> HIDE DEF h
  <2>2. gs \in Seq(ToSet(fs) \cup {h})
    BY <1>1, <2>1
  <2> HIDE DEF fs, gs
  <2> QED BY <1>1, <2>1, <2>2 DEF n, fs
<1>6. /\ h.c = op.id /\ h.pc = 1 /\ h.mem = <<>>
      /\ h.vals = [w \in Params(callee) |-> args[ParamIndex(callee, w)]]
  BY DEF Frame
<1> HIDE DEF h
<1>7. PICK T : Complete(T, cs) /\ Recorded(T, cs, fs)
  BY DEF History
<1>8. Chronicle(T, cs, h)
  <2>1. DOMAIN h.vals \subseteq Nat
    BY <1>4, <1>6 DEF IsCircuit, Params
  <2> DEFINE ms == [k \in {1} |-> <<>>]
  <2>2. ms[1] = <<>> /\ ms[h.pc] = h.mem
    BY <1>6
  <2>3. Obeys(T, cs, h.c, h.vals, h.self.subs, ms, h.pc - 1)
    <3>1. \A k \in 1 .. h.pc - 1 : FALSE
      BY <1>6
    <3> QED BY <3>1 DEF Obeys
  <2> HIDE DEF ms
  <2> QED BY <2>1, <2>2, <2>3 DEF Chronicle
<1>9. GivenTo(cs, f, h)
  <2>1. ASSUME NEW w \in Params(callee)
        PROVE  h.vals[w] = v[op.ins[ParamIndex(callee, w)]]
    <3>1. ParamIndex(callee, w) \in 1 .. Cardinality(Params(callee))
      BY <1>4, ParamIndexInRange
    <3>2. ParamIndex(callee, w) \in DOMAIN op.ins
      BY <1>4, <3>1
    <3> QED BY <1>6, <3>2
  <2> HIDE DEF f, op
  <2> QED BY <1>1, <1>3, <1>6, <2>1 DEF GivenTo, f
<1>10. ASSUME NEW k \in 1 .. n, Solving(gs, k) PROVE Solving(fs, k)
  <2>1. \A j \in 1 .. k : j \in 1 .. n
    BY <1>5
  <2> QED BY <1>5, <1>10, <2>1 DEF Solving
<1>11. ASSUME NEW k \in 1 .. n + 1, Solving(gs, k)
       PROVE  Chronicle(T, cs, gs[k]) /\ (k > 1 => GivenTo(cs, gs[k - 1], gs[k]))
  <2>1. CASE k = n + 1
    <3>1. k - 1 = n /\ n \in 1 .. n
      BY <1>2, <1>5, <2>1
    <3>2. gs[k] = h /\ gs[k - 1] = f
      BY <1>2, <1>5, <2>1, <3>1
    <3> QED BY <1>8, <1>9, <3>2
  <2>2. CASE k # n + 1
    <3>1. k \in 1 .. n /\ (k > 1 => k - 1 \in 1 .. n)
      BY <1>5, <2>2
    <3>2. Solving(fs, k)
      BY <1>10, <1>11, <3>1
    <3>3. Chronicle(T, cs, fs[k]) /\ (k > 1 => GivenTo(cs, fs[k - 1], fs[k]))
      <4> HIDE DEF cs, fs
      <4>1. k \in 1 .. Len(fs)
        BY <3>1 DEF n, fs
      <4> QED BY <1>7, <3>2, <4>1 DEF Recorded
    <3> QED BY <1>5, <3>1, <3>3
  <2> QED BY <2>1, <2>2
<1>12. Recorded(T, cs, gs)
  <2>1. 1 \in 1 .. n
    BY <1>2
  <2> HIDE DEF gs, n, cs, fs
  <2>2. Solving(gs, 1) => Entry(cs, gs[1], inputs)
    BY <1>5, <1>7, <1>10, <2>1 DEF Recorded
  <2> QED BY <1>5, <1>11, <2>2 DEF Recorded
<1> QED BY <1>7, <1>12 DEF History

\* When ACVM goes on after a call, the callee was skipped, or its results are the caller's.
LEMMA ReturnExtends ==
    ASSUME NEW r, IsSolver(r), NEW op, op.outs \in Seq(Nat), NEW callee, IsSolver(callee),
           NEW returns \in Seq(Nat), Len(returns) = Len(op.outs),
           AcvmReturn(r, op, callee, returns).st = "solving"
    PROVE  LET a == AcvmReturn(r, op, callee, returns)
           IN  /\ Extends(r.sol, a.sol) /\ a.mem = r.mem
               /\ \/ callee.st = "skipped"
                  \/ /\ callee.st = "solving" /\ ToSet(returns) \subseteq DOMAIN callee.sol
                     /\ \A k \in DOMAIN op.outs :
                           op.outs[k] \in DOMAIN a.sol /\ a.sol[op.outs[k]] = callee.sol[returns[k]]
<1> DEFINE a == AcvmReturn(r, op, callee, returns)
           xs == [k \in DOMAIN returns |-> callee.sol[returns[k]]]
           s == [r EXCEPT !.st = "stalled"]
           z == AssignAll(r, op.outs, Zeros(op.outs))
           b == AssignAll(r, op.outs, xs)
           c == AssignAll(s, op.outs, xs)
<1>1. IF callee.st = "skipped" THEN a = z
      ELSE IF callee.st = "failed" \/ ~(ToSet(returns) \subseteq DOMAIN callee.sol) THEN a = Fail(r)
      ELSE IF callee.st = "stalled" THEN a = c ELSE a = b
  BY DEF AcvmReturn
<1>2. Fail(r).st = "failed"
  BY FailContinues
<1>3. c.st # "solving"
  <2>1. Continues(r, s) /\ s.st = "stalled"
    BY FailContinues
  <2> HIDE DEF s, xs
  <2>2. Continues(s, c)
    BY <2>1, AssignContinues DEF Continues
  <2> HIDE DEF c
  <2> QED BY <2>1, <2>2 DEF Continues
<1>4. a.st = "solving" /\ IsSequence(op.outs) /\ op.outs = [k \in DOMAIN op.outs |-> op.outs[k]]
  BY DEF IsSequence
<1>5. z.mem = r.mem /\ b.mem = r.mem
  BY AssignContinues
<1> DEFINE ws == op.outs
           zs == Zeros(op.outs)
<1>6. z.st = "solving" => Extends(r.sol, z.sol)
  <2>1. z.st = "solving" => Assigns(r, ws, zs)
    BY <1>4 DEF Assigns
  <2> HIDE DEF zs, ws
  <2>2. z.st = "solving" => Extends(r.sol, AssignAll(r, ws, zs).sol)
    BY <2>1, AssignExtends
  <2> QED BY <2>2 DEF ws, zs
<1>7. b.st = "solving" =>
         /\ Extends(r.sol, b.sol)
         /\ \A k \in DOMAIN ws : ws[k] \in DOMAIN b.sol /\ b.sol[ws[k]] = xs[k]
  <2>1. b.st = "solving" => Assigns(r, ws, xs)
    BY <1>4 DEF Assigns
  <2> HIDE DEF xs, ws
  <2>2. b.st = "solving" =>
           /\ Extends(r.sol, AssignAll(r, ws, xs).sol)
           /\ \A k \in DOMAIN ws : ws[k] \in DOMAIN AssignAll(r, ws, xs).sol
                                   /\ AssignAll(r, ws, xs).sol[ws[k]] = xs[k]
    BY <2>1, AssignExtends
  <2> QED BY <2>2 DEF ws
<1>8. \A k \in DOMAIN ws : k \in DOMAIN returns /\ xs[k] = callee.sol[returns[k]]
  OBVIOUS
<1>9. callee.st \in {"solving", "stalled", "failed", "skipped"}
  BY DEF IsSolver
<1> HIDE DEF a, z, b, c, xs, s
<1>10. \/ callee.st = "skipped" /\ a = z
       \/ callee.st = "solving" /\ ToSet(returns) \subseteq DOMAIN callee.sol /\ a = b
  BY <1>1, <1>2, <1>3, <1>4, <1>9
<1>11. /\ Extends(r.sol, a.sol) /\ a.mem = r.mem
       /\ \/ callee.st = "skipped"
          \/ /\ callee.st = "solving" /\ ToSet(returns) \subseteq DOMAIN callee.sol
             /\ \A k \in DOMAIN op.outs :
                   op.outs[k] \in DOMAIN a.sol /\ a.sol[op.outs[k]] = callee.sol[returns[k]]
  BY <1>4, <1>5, <1>6, <1>7, <1>8, <1>10
<1> QED BY <1>11 DEF a

\* What a return does to the stack.
LEMMA ReturnIs ==
    ASSUME IInv, CInv, ComputeReturn
    PROVE  LET n == Len(stack)
               f == Caller
               op == Code(Caller)[Caller.pc]
           IN  \E h : /\ stack' = [k \in 1 .. n - 1 |-> IF k = n - 1 THEN h ELSE stack[k]]
                      /\ h.c = f.c /\ h.pc = f.pc + 1 /\ h.ref = Returned(op) /\ h.mem = f.mem
                      /\ h.self.subs = With(f.self.subs, f.pc, Top.self)
<1> DEFINE f == Caller
           op == Code(Caller)[Caller.pc]
           v == f.vals
           p == EmitExpression(op.pred, v)
           ret == [k \in DOMAIN op.outs |-> Top.self.w[Returns(op)[k]]]
           ws == op.outs
           xs == Gated(p, ret)
           g == Written(ws, xs)
           n == Len(stack)
           fs == stack
           a == Returned(op)
           d == Define(f, ws, xs)
           newv == Override(v, g)
           neww == Override(f.self.w, g)
           self == [w |-> neww, subs |-> With(f.self.subs, f.pc, Top.self)]
           h == [c |-> f.c, pc |-> f.pc + 1, vals |-> newv, self |-> self, mem |-> f.mem, ref |-> a]
           gs == stack'
<1>1. /\ Running("compute") /\ n > 1
      /\ gs = Append(SubSeq(stack, 1, Len(stack) - 2),
                     [d EXCEPT !.pc = @ + 1, !.self.subs = With(@, Caller.pc, Top.self), !.ref = a])
  BY DEF ComputeReturn
<1>2. ComputeFits(Circuits, f)
  BY <1>1, CallerFacts
<1>3. ComputeStackFits(Circuits, fs)
  BY <1>1, ComputeFacts
<1>4. [d EXCEPT !.pc = @ + 1, !.self.subs = With(@, Caller.pc, Top.self), !.ref = a] = h
  <2>1. d = [f EXCEPT !.vals = newv, !.self.w = neww]
    BY DEF Define, g
  <2> DEFINE sub == Top.self
  <2> HIDE DEF f, newv, neww, a, d, sub
  <2>2. Resumes(f, newv, neww, sub, a)
           = [c |-> f.c, pc |-> f.pc + 1, vals |-> newv,
              self |-> [w |-> neww, subs |-> With(f.self.subs, f.pc, sub)],
              mem |-> f.mem, ref |-> a]
    BY <1>2, CallerMoves
  <2>3. [d EXCEPT !.pc = @ + 1, !.self.subs = With(@, f.pc, sub), !.ref = a]
           = [c |-> f.c, pc |-> f.pc + 1, vals |-> newv,
              self |-> [w |-> neww, subs |-> With(f.self.subs, f.pc, sub)],
              mem |-> f.mem, ref |-> a]
    BY <2>1, <2>2 DEF Resumes
  <2> QED BY <2>3 DEF f, sub
<1>5. gs = [k \in 1 .. n - 1 |-> IF k = n - 1 THEN h ELSE fs[k]]
  <2>1. fs \in Seq(ToSet(fs)) /\ Len(fs) > 1
    BY <1>1, <1>3 DEF ComputeStackFits
  <2>2. gs = Append(SubSeq(fs, 1, Len(fs) - 2), h)
    <3> HIDE DEF h, d, a, f
    <3> QED BY <1>1, <1>4
  <2> HIDE DEF h, fs, gs
  <2>3. gs = [k \in 1 .. Len(fs) - 1 |-> IF k = Len(fs) - 1 THEN h ELSE fs[k]]
    BY <2>1, <2>2, StackReturns
  <2> QED BY <2>3 DEF fs
<1>6. self.subs = With(f.self.subs, f.pc, Top.self)
  <2> HIDE DEF neww
  <2> QED OBVIOUS
<1> HIDE DEF self
<1>7. h.c = f.c /\ h.pc = f.pc + 1 /\ h.ref = a /\ h.mem = f.mem /\ h.self = self
  <2> HIDE DEF newv, a
  <2> QED OBVIOUS
<1> HIDE DEF h
<1> QED BY <1>5, <1>6, <1>7

\* What is known of the caller h after a return in which ACVM goes on.
LEMMA ReturnedFacts ==
    ASSUME IInv, CInv, Running("compute"), Len(stack) > 1, NEW h, ComputeFits(Circuits, h),
           h.c = Caller.c, h.pc = Caller.pc + 1, h.ref = Returned(Code(Caller)[Caller.pc]),
           h.ref.st = "solving", Mirrors(h), Solving(stack, Len(stack) - 1),
           DOMAIN Caller.vals \subseteq Nat
    PROVE  LET f == Caller
               op == Circuits[f.c].opcodes[f.pc]
           IN  /\ Extends(f.vals, h.vals) /\ DOMAIN h.vals \subseteq Nat /\ h.mem = f.mem
               /\ Needs(op) \subseteq DOMAIN h.vals /\ Holds(op, h.vals, f.mem)
               /\ h.mem = MemoryAfter(op, h.vals, f.mem)
               /\ Value(op.pred, h.vals) = 1 =>
                     /\ Solving(stack, Len(stack)) /\ ToSet(op.outs) \subseteq DOMAIN h.vals
                     /\ \A k \in DOMAIN op.outs :
                           /\ Returns(op)[k] \in DOMAIN Top.vals
                           /\ h.vals[op.outs[k]] = Top.vals[Returns(op)[k]]
<1> DEFINE f == Caller
           g == Top
           op == Circuits[f.c].opcodes[f.pc]
           n == Len(stack)
           a == Returned(op)
           returns == Returns(op)
<1>1. /\ n - 1 \in 1 .. n /\ n \in Nat /\ f = stack[n - 1] /\ g = stack[n]
      /\ ComputeFits(Circuits, f) /\ ComputeFits(Circuits, g) /\ Awaits(Circuits, f, g)
      /\ Mirrors(f) /\ Asked(Circuits, f, g) /\ (Solving(stack, n) => Mirrors(g))
  BY CallerFacts
<1>2. op.op = "Call" /\ Support(op.pred) \subseteq DOMAIN f.vals /\ f.pc \in DOMAIN Circuits[f.c].opcodes
  BY <1>1 DEF Awaits
<1>3. /\ op.outs \in Seq(Nat) /\ returns \in Seq(Nat) /\ Len(returns) = Len(op.outs)
      /\ WriterAfter(Circuits[f.c], f.pc).known = DOMAIN f.vals \cup ToSet(op.outs)
      /\ IsSolver(f.ref)
  <2> HIDE DEF f, g, op, returns
  <2>1. ComputeFits(Circuits, f) /\ Awaits(Circuits, f, g)
    BY <1>1
  <2>2. LET o == Circuits[f.c].opcodes[f.pc]
        IN  /\ o.outs \in Seq(Nat) /\ Returns(o) \in Seq(Nat) /\ Len(Returns(o)) = Len(o.outs)
            /\ WriterAfter(Circuits[f.c], f.pc).known = DOMAIN f.vals \cup ToSet(o.outs)
            /\ IsSolver(f.ref)
    BY <2>1, AwaitedFacts
  <2> QED BY <2>2 DEF op, returns
<1>4. IsSolver(g.ref) /\ f.pc \in Nat
  BY <1>1, SMTT(40) DEF ComputeFits
<1>5. f.ref.st = "solving"
  <2> HIDE DEF n, f
  <2>1. n - 1 \in 1 .. n - 1
    BY <1>1
  <2> QED BY <1>1, <2>1 DEF Solving, n
<1>6. a = AcvmReturn(f.ref, op, g.ref, returns) /\ a = h.ref /\ a.st = "solving"
  BY <1>5 DEF Returned, Code
<1> HIDE DEF a, returns, op, f, g
<1>7. /\ Extends(f.ref.sol, a.sol) /\ a.mem = f.ref.mem
      /\ \/ g.ref.st = "skipped"
         \/ /\ g.ref.st = "solving" /\ ToSet(returns) \subseteq DOMAIN g.ref.sol
            /\ \A k \in DOMAIN op.outs :
                  op.outs[k] \in DOMAIN a.sol /\ a.sol[op.outs[k]] = g.ref.sol[returns[k]]
  <2> DEFINE r == f.ref
             callee == g.ref
  <2>1. IsSolver(r) /\ IsSolver(callee) /\ a = AcvmReturn(r, op, callee, returns)
    BY <1>3, <1>4, <1>6
  <2> HIDE DEF r, callee
  <2>2. LET b == AcvmReturn(r, op, callee, returns)
        IN  /\ Extends(r.sol, b.sol) /\ b.mem = r.mem
            /\ \/ callee.st = "skipped"
               \/ /\ callee.st = "solving" /\ ToSet(returns) \subseteq DOMAIN callee.sol
                  /\ \A k \in DOMAIN op.outs :
                        op.outs[k] \in DOMAIN b.sol /\ b.sol[op.outs[k]] = callee.sol[returns[k]]
    BY <1>3, <1>6, <2>1, ReturnExtends
  <2> QED BY <2>1, <2>2 DEF r, callee
<1>8. Extends(f.vals, h.vals) /\ h.mem = f.mem /\ a.sol = h.vals /\ f.ref.sol = f.vals
  BY <1>1, <1>6, <1>7 DEF Mirrors
<1>9. Value(op.pred, h.vals) = Value(op.pred, f.vals)
  <2>1. IsOpcode(op)
    <3>1. WellFormed(Circuits) /\ f.c \in DOMAIN Circuits
      BY <1>1, ComputeFacts DEF ComputeFits
    <3> QED BY <1>2, <3>1 DEF WellFormed, IsCircuit, op
  <2>2. IsExpression(op.pred)
    BY <1>2, <2>1 DEF IsOpcode
  <2>3. \A w \in Support(op.pred) : h.vals[w] = f.vals[w]
    BY <1>2, <1>8 DEF Extends
  <2> QED BY <2>2, <2>3, ValueSame
<1>10. /\ g.ref.st = "skipped" => Value(op.pred, f.vals) = 0
       /\ g.ref.st = "solving" => Value(op.pred, f.vals) = 1
  BY <1>1 DEF Asked, op
<1>11. Holds(op, h.vals, f.mem) /\ h.mem = MemoryAfter(op, h.vals, f.mem)
  <2>1. Value(op.pred, h.vals) \in {0, 1}
    BY <1>7, <1>9, <1>10
  <2> QED BY <1>2, <1>8, <2>1 DEF Holds, MemoryAfter
<1>12. Needs(op) \subseteq DOMAIN h.vals
  BY <1>2, <1>8 DEF Needs, Extends
<1>13. DOMAIN h.vals \subseteq Nat
  <2>1. DOMAIN h.vals = WriterAfter(Circuits[f.c], f.pc).known
    <3>1. h.pc - 1 = f.pc /\ h.c = f.c
      BY <1>4 DEF f
    <3> QED BY <3>1 DEF ComputeFits
  <2>2. ToSet(op.outs) \subseteq Nat
    BY <1>3 DEF ToSet
  <2>3. DOMAIN f.vals \subseteq Nat
    BY DEF f
  <2> QED BY <1>3, <2>1, <2>2, <2>3
<1>14. ASSUME Value(op.pred, h.vals) = 1
       PROVE  /\ Solving(stack, n) /\ ToSet(op.outs) \subseteq DOMAIN h.vals
              /\ \A k \in DOMAIN op.outs :
                    returns[k] \in DOMAIN g.vals /\ h.vals[op.outs[k]] = g.vals[returns[k]]
  <2>1. g.ref.st = "solving"
    BY <1>7, <1>9, <1>10, <1>14
  <2>2. Solving(stack, n)
    <3> HIDE DEF n
    <3>1. \A k \in 1 .. n : k \in 1 .. n - 1 \/ k = n
      BY <1>1
    <3> QED BY <1>1, <2>1, <3>1 DEF Solving, n
  <2>3. g.ref.sol = g.vals
    BY <1>1, <2>2 DEF Mirrors
  <2>4. \A k \in DOMAIN op.outs : returns[k] \in ToSet(returns)
    BY <1>3 DEF ToSet
  <2>5. \A k \in DOMAIN op.outs :
           /\ returns[k] \in DOMAIN g.vals /\ op.outs[k] \in DOMAIN h.vals
           /\ h.vals[op.outs[k]] = g.vals[returns[k]]
    BY <1>7, <1>8, <2>1, <2>3, <2>4
  <2> QED BY <2>2, <2>5 DEF ToSet
<1> QED BY <1>8, <1>11, <1>12, <1>13, <1>14 DEF f, g, op, returns

\* The callee's execution is one more, and answers the call.
LEMMA ReturnRecords ==
    ASSUME IInv, CInv, CInv', ComputeReturn, History(Circuits, stack)
    PROVE  History(Circuits, stack')
<1> DEFINE cs == Circuits
           fs == stack
           gs == stack'
           n == Len(stack)
           m == n - 1
           f == Caller
           g == Top
           op == cs[f.c].opcodes[f.pc]
           o == Code(Caller)[Caller.pc]
<1>1. /\ Running("compute") /\ n > 1 /\ AtEnd(g)
      /\ prog' = prog /\ phase' = phase /\ outcome' = outcome /\ o = op
  BY DEF ComputeReturn, Code
<1>2. PICK h : /\ gs = [k \in 1 .. m |-> IF k = m THEN h ELSE fs[k]]
               /\ h.c = f.c /\ h.pc = f.pc + 1 /\ h.ref = Returned(op) /\ h.mem = f.mem
               /\ h.self.subs = With(f.self.subs, f.pc, g.self)
  <2> HIDE DEF o, op, f
  <2>1. \E h : /\ gs = [k \in 1 .. m |-> IF k = m THEN h ELSE fs[k]]
               /\ h.c = f.c /\ h.pc = f.pc + 1 /\ h.ref = Returned(o) /\ h.mem = f.mem
               /\ h.self.subs = With(f.self.subs, f.pc, g.self)
    BY ReturnIs DEF o, f
  <2> QED BY <1>1, <2>1
<1>3. /\ m \in 1 .. n /\ n \in Nat /\ f = fs[m] /\ g = fs[n]
      /\ ComputeFits(cs, f) /\ ComputeFits(cs, g) /\ Awaits(cs, f, g)
  BY <1>1, CallerFacts
<1>4. WellFormed(cs) /\ ComputeStackFits(cs, fs) /\ phase = "compute" /\ outcome = "ok"
  BY <1>1, ComputeFacts
<1>5. ComputeStackFits(cs, gs)
  <2>1. cs' = cs
    BY <1>1 DEF Circuits
  <2> HIDE DEF cs
  <2> QED BY <1>1, <1>4, <2>1 DEF CInv, cs
<1>6. m \in Nat \ {0} /\ m \in 1 .. Len(fs) /\ m \in 1 .. m
  <2> HIDE DEF n
  <2> QED BY <1>1, <1>3 DEF n
<1>7. Len(gs) = m /\ gs[m] = h
  <2> HIDE DEF m, gs
  <2>1. DOMAIN gs = 1 .. m /\ gs[m] = h
    BY <1>2, <1>6
  <2>2. DOMAIN gs = 1 .. Len(gs) /\ Len(gs) \in Nat
    BY <1>5 DEF ComputeStackFits
  <2> QED BY <1>6, <2>1, <2>2
<1>8. ComputeFits(cs, h) /\ (Solving(gs, m) => Mirrors(h))
  <2> HIDE DEF m, gs, cs
  <2> QED BY <1>5, <1>6, <1>7 DEF ComputeStackFits
<1>9. PICK T : Complete(T, cs) /\ Recorded(T, cs, fs)
  BY DEF History
<1>10. Continues(f.ref, h.ref)
  <2>1. IsSolver(Caller.ref)
    BY <1>3 DEF ComputeFits
  <2> HIDE DEF op
  <2>2. Continues(Caller.ref, Returned(op))
    BY <2>1, ReturnedContinues
  <2> QED BY <1>2, <2>2
<1>11. ASSUME Solving(gs, m)
       PROVE  /\ Solving(fs, m) /\ f.pc \in DOMAIN cs[f.c].opcodes /\ op.op = "Call"
              /\ Extends(f.vals, h.vals) /\ DOMAIN h.vals \subseteq Nat
              /\ Needs(op) \subseteq DOMAIN h.vals /\ Holds(op, h.vals, f.mem)
              /\ h.mem = MemoryAfter(op, h.vals, f.mem)
              /\ Value(op.pred, h.vals) = 1 =>
                    /\ Solving(fs, n) /\ ToSet(op.outs) \subseteq DOMAIN h.vals
                    /\ \A k \in DOMAIN op.outs :
                          Returns(op)[k] \in DOMAIN g.vals /\ h.vals[op.outs[k]] = g.vals[Returns(op)[k]]
  <2>1. Solving(fs, m)
    <3> HIDE DEF m, gs, fs, f
    <3> QED BY <1>2, <1>3, <1>6, <1>10, <1>11, SolvingBefore
  <2>2. h.ref.st = "solving" /\ Mirrors(h)
    <3> HIDE DEF m, gs
    <3> QED BY <1>6, <1>7, <1>8, <1>11 DEF Solving
  <2>3. DOMAIN f.vals \subseteq Nat
    <3> HIDE DEF m, cs, fs, f
    <3> QED BY <1>3, <1>6, <1>9, <2>1 DEF Recorded, Chronicle
  <2>4. f.pc \in DOMAIN cs[f.c].opcodes /\ op.op = "Call"
    BY <1>3 DEF Awaits
  <2>5. h.ref = Returned(o)
    <3> HIDE DEF o, op
    <3> QED BY <1>1, <1>2
  <2> QED BY <1>1, <1>2, <1>8, <2>1, <2>2, <2>3, <2>4, <2>5, ReturnedFacts
<1>12. \A k \in 1 .. f.pc - 1 :
          k \in DOMAIN f.self.subs => k \in DOMAIN h.self.subs /\ h.self.subs[k] = f.self.subs[k]
  <2>1. f.pc \in Nat
    BY <1>3 DEF ComputeFits
  <2>2. \A k \in 1 .. f.pc - 1 : k # f.pc
    BY <2>1
  <2> QED BY <1>2, <2>2 DEF With
<1>13. f.pc \in DOMAIN h.self.subs /\ h.self.subs[f.pc] = g.self
  BY <1>2 DEF With
<1> HIDE DEF cs, fs, gs, n, m, f, g, op, o
<1>14. ASSUME NEW T2, T \subseteq T2, Complete(T2, cs),
              Solving(gs, m) /\ Value(op.pred, h.vals) = 1 =>
                 \E u \in T2 : Answers(cs, op, h.vals, g.self, u)
       PROVE  History(cs, gs)
  <2>1. Solving(gs, m) => Proceeds(T2, cs, f, h)
    BY <1>2, <1>11, <1>12, <1>13, <1>14 DEF Proceeds, op
  <2>2. Onward(T, T2, cs, fs, m, h, gs)
    BY <1>2, <1>3, <1>4, <1>6, <1>9, <1>10, <1>14, <2>1 DEF Onward
  <2>3. Recorded(T2, cs, gs)
    BY <2>2, RecordedMoves
  <2> QED BY <1>14, <2>3 DEF History
<1>15. CASE Solving(gs, m) /\ Value(op.pred, h.vals) = 1
  <2>1. Solving(fs, n)
    BY <1>11, <1>15
  <2>2. Chronicle(T, cs, g) /\ GivenTo(cs, f, g)
    <3>1. n \in 1 .. Len(fs) /\ n > 1 /\ m = n - 1
      BY <1>1, <1>3, <1>6 DEF n, m, fs
    <3> QED BY <1>3, <1>9, <2>1, <3>1 DEF Recorded
  <2>3. g.pc > Len(cs[g.c].opcodes)
    BY <1>1 DEF AtEnd, Code, cs
  <2>4. PICK u : /\ IsExecution(T, cs, u) /\ u.c = g.c /\ u.v = g.vals /\ u.subs = g.self.subs
                 /\ g.self = [w |-> Solved(cs[u.c], u.v), subs |-> u.subs]
    BY <1>3, <1>4, <2>2, <2>3, FrameCompletes
  <2> DEFINE T2 == T \cup {u}
  <2>5. Complete(T2, cs)
    BY <1>4, <1>9, <2>4, CompleteGrows
  <2>6. Answers(cs, op, h.vals, g.self, u)
    <3>1. g.c = op.id
      BY <1>3 DEF Awaits, op
    <3>2. ToSet(op.ins) \subseteq DOMAIN h.vals
      BY <1>11, <1>15, <2>2 DEF GivenTo, Extends, op
    <3>3. ToSet(op.outs) \subseteq DOMAIN h.vals
      BY <1>11, <1>15
    <3>4. ASSUME NEW w \in Params(cs[u.c])
          PROVE  u.v[w] = h.vals[op.ins[ParamIndex(cs[u.c], w)]]
      <4> DEFINE i == ParamIndex(cs[u.c], w)
      <4>1. g.vals[w] = f.vals[op.ins[i]] /\ ToSet(op.ins) \subseteq DOMAIN f.vals
        BY <2>2, <2>4 DEF GivenTo, op
      <4>2. op.ins[i] \in ToSet(op.ins)
        <5>1. /\ op.id \in DOMAIN cs /\ Len(op.ins) = Cardinality(Params(cs[op.id]))
              /\ op.ins \in Seq(Nat) /\ IsCircuit(cs[op.id])
          <6>1. f.c \in DOMAIN cs
            BY <1>3 DEF ComputeFits
          <6>2. IsOpcode(op) /\ Checked(cs, cs[f.c].opcodes, f.pc)
            BY <1>4, <1>11, <1>15, <6>1 DEF WellFormed, IsCircuit, op
          <6> QED BY <1>4, <1>11, <1>15, <6>2 DEF Checked, IsOpcode, WellFormed, op
        <5>2. u.c = op.id
          BY <2>4, <3>1
        <5>3. i \in 1 .. Len(op.ins)
          BY <5>1, <5>2, ParamIndexInRange
        <5> QED BY <5>1, <5>3 DEF ToSet
      <4> HIDE DEF i
      <4>3. h.vals[op.ins[i]] = f.vals[op.ins[i]]
        BY <1>11, <1>15, <4>1, <4>2 DEF Extends
      <4> QED BY <2>4, <4>1, <4>3 DEF i
    <3>5. ASSUME NEW k \in DOMAIN op.outs
          PROVE  cs[u.c].returns[k] \in DOMAIN u.v /\ h.vals[op.outs[k]] = u.v[cs[u.c].returns[k]]
      <4>1. cs[u.c].returns = Returns(op)
        BY <2>4, <3>1 DEF Returns, cs
      <4> QED BY <1>11, <1>15, <2>4, <4>1
    <3> QED BY <2>4, <3>1, <3>2, <3>3, <3>4, <3>5 DEF Answers
  <2>7. u \in T2 /\ T \subseteq T2
    OBVIOUS
  <2> HIDE DEF T2
  <2>8. History(cs, gs)
    BY <1>14, <2>5, <2>6, <2>7
  <2> QED BY <2>8 DEF cs, gs
<1>16. CASE ~(Solving(gs, m) /\ Value(op.pred, h.vals) = 1)
  <2>1. History(cs, gs)
    BY <1>9, <1>14, <1>16
  <2> QED BY <2>1 DEF cs, gs
<1> QED BY <1>15, <1>16

\* A step of @compute that goes on runs the code of an opcode, or makes a call, or returns.
LEMMA StepReplaces ==
    ASSUME IInv, CInv, Compute, phase' = "compute", outcome' = "ok"
    PROVE  \/ ComputeCall \/ ComputeReturn
           \/ /\ Running("compute") /\ ~AtEnd(Top) /\ Op.op # "Call"
              /\ \E f : Moved(f) /\ Replace(f, "ok")
<1>1. ASSUME NEW f, NEW out, Replace(f, out) PROVE out = "ok"
  BY <1>1 DEF Replace
<1>2. CASE ComputeSatisfied
  <2>1. Running("compute") /\ ~AtEnd(Top) /\ Op.op = "AssertZero" /\ Replace(Top, "ok")
    BY <1>2 DEF ComputeSatisfied, Computing, At
  <2> QED BY <2>1, TopMoves
<1>3. CASE ComputeSolve
  <2>1. Running("compute") /\ ~AtEnd(Top) /\ Op.op = "AssertZero"
    BY <1>3 DEF ComputeSolve, Computing, At
  <2>2. \E w \in Unknown(Op.e) :
           IF DividesByZero(Op.e, w, Top.vals) THEN Replace(Top, "trapped")
           ELSE Replace(Define(Top, <<w>>, <<Solution(Op.e, w, Top.vals)>>), "ok")
    BY <1>3 DEF ComputeSolve
  <2>3. ~Replace(Top, "trapped")
    BY <1>1
  <2>4. PICK ws, xs : Replace(Define(Top, ws, xs), "ok")
    BY <2>2, <2>3
  <2> QED BY <2>1, <2>4, DefineMoves
<1>4. CASE ComputeMemoryInit
  <2>1. Running("compute") /\ ~AtEnd(Top) /\ Op.op = "MemoryInit"
    BY <1>4 DEF ComputeMemoryInit, Computing, At
  <2>2. PICK m : Replace([Top EXCEPT !.mem = m], "ok")
    <3>1. Replace([Top EXCEPT !.mem =
                     With(Top.mem, Op.block, [k \in DOMAIN Op.init |-> Top.vals[Op.init[k]]])], "ok")
      BY <1>4 DEF ComputeMemoryInit
    <3> QED BY <3>1
  <2> QED BY <2>1, <2>2, StoreMoves
<1>5. CASE ComputeMemoryRead
  <2>1. Running("compute") /\ ~AtEnd(Top) /\ Op.op = "MemoryOp"
    BY <1>5 DEF ComputeMemoryRead, Computing, At
  <2>2. PICK ws, xs : Replace(Define(Top, ws, xs), "ok")
    BY <1>5 DEF ComputeMemoryRead
  <2> QED BY <2>1, <2>2, DefineMoves
<1>6. CASE ComputeMemoryWrite
  <2> DEFINE b == Op.block
             x == SelectWrite(ComputedSelectors(EmitExpression(Op.index, Top.vals), Len(Top.mem[b])),
                              Top.mem[b], EmitExpression(Op.value, Top.vals))
             m == [Top.mem EXCEPT ![b] = x]
  <2>1. Running("compute") /\ ~AtEnd(Top) /\ Op.op = "MemoryOp"
    BY <1>6 DEF ComputeMemoryWrite, Computing, At
  <2>2. Replace([Top EXCEPT !.mem[b] = x], "ok")
    BY <1>6 DEF ComputeMemoryWrite
  <2>3. [Top EXCEPT !.mem[b] = x] = [Top EXCEPT !.mem = m]
    OBVIOUS
  <2> HIDE DEF x, m
  <2>4. Replace([Top EXCEPT !.mem = m], "ok")
    BY <2>2, <2>3
  <2> QED BY <2>1, <2>4, StoreMoves
<1>7. CASE ComputeLogic
  <2>1. Running("compute") /\ ~AtEnd(Top) /\ Op.op \in {"AND", "XOR"}
    BY <1>7 DEF ComputeLogic, Computing, At
  <2>2. PICK ws, xs : Replace(Define(Top, ws, xs), "ok")
    BY <1>7 DEF ComputeLogic
  <2> QED BY <2>1, <2>2, DefineMoves
<1>8. CASE ComputeRange
  <2>1. Running("compute") /\ ~AtEnd(Top) /\ Op.op = "RANGE" /\ Replace(Top, "ok")
    BY <1>8 DEF ComputeRange, Computing, At
  <2> QED BY <2>1, TopMoves
<1>9. CASE ComputeBlackBox
  <2>1. Running("compute") /\ ~AtEnd(Top) /\ Op.op = "BlackBox"
    BY <1>9 DEF ComputeBlackBox, Computing, At
  <2>2. PICK ws, xs : Replace(Define(Top, ws, xs), "ok")
    BY <1>9 DEF ComputeBlackBox
  <2> QED BY <2>1, <2>2, DefineMoves
<1>10. CASE ComputeBrilligCall
  <2> DEFINE results == Brillig(Op.id, BrilligArguments(Op.ins, Top.vals, Top.mem))
  <2>1. Running("compute") /\ ~AtEnd(Top) /\ Op.op = "BrilligCall"
    BY <1>10 DEF ComputeBrilligCall, Computing, At
  <2>2. IF results = Trap THEN Replace(Top, "trapped")
        ELSE Replace(Define(Top, Op.outs, Gated(EmitExpression(Op.pred, Top.vals), results)), "ok")
    BY <1>10 DEF ComputeBrilligCall
  <2>3. ~Replace(Top, "trapped")
    BY <1>1
  <2> HIDE DEF results
  <2>4. PICK ws, xs : Replace(Define(Top, ws, xs), "ok")
    BY <2>2, <2>3
  <2> QED BY <2>1, <2>4, DefineMoves
<1>11. CASE ComputeCall
  BY <1>11
<1>12. CASE ComputeReturn
  BY <1>12
<1>13. CASE ComputeUndefined
  <2>1. outcome' = "undefined"
    BY <1>13 DEF ComputeUndefined, Replace
  <2> QED BY <2>1
<1>14. CASE ComputeEnds
  <2>1. phase' = "constrain"
    BY <1>14 DEF ComputeEnds
  <2> QED BY <2>1
<1> QED BY <1>2, <1>3, <1>4, <1>5, <1>6, <1>7, <1>8, <1>9, <1>10, <1>11, <1>12, <1>13, <1>14 DEF Compute


\* No step of @compute that goes on loses the record.
LEMMA StepRecords ==
    ASSUME IInv, CInv, CInv', Compute, phase' = "compute", outcome' = "ok",
           History(Circuits, stack)
    PROVE  History(Circuits, stack')
<1>1. CASE ComputeCall
  BY <1>1, CallRecords
<1>2. CASE ComputeReturn
  BY <1>2, ReturnRecords
<1>3. CASE Running("compute") /\ ~AtEnd(Top) /\ Op.op # "Call" /\ \E f : Moved(f) /\ Replace(f, "ok")
  <2>1. PICK f : Moved(f) /\ Replace(f, "ok")
    BY <1>3
  <2> QED BY <1>3, <2>1, ReplaceRecords
<1> QED BY <1>1, <1>2, <1>3, StepReplaces

\* The record begins with the entry circuit's frame.
LEMMA TranslateRecords ==
    ASSUME IInv, Translate
    PROVE  History(Circuits, stack)'
<1> DEFINE cs == Circuits
           ref == Solver([k \in 0 .. (Len(inputs') - 1) |-> inputs'[k + 1]])
           h == Frame(1, inputs', Struct, ref)
           gs == stack'
           xs == inputs'
           T == {}
<1>1. gs = <<h>> /\ prog' = prog
  BY DEF Translate
<1>2. WellFormed(cs) /\ IsCircuit(cs[1])
  <2>1. WellFormed(cs)
    BY TranslatedFits DEF Translate, IInv
  <2> QED BY <2>1 DEF WellFormed
<1>3. /\ h.c = 1 /\ h.pc = 1 /\ h.mem = <<>>
      /\ h.vals = [w \in Params(cs[1]) |-> xs[ParamIndex(cs[1], w)]]
  BY DEF Frame
<1> HIDE DEF h, ref
<1>4. Len(gs) = 1 /\ gs[1] = h
  BY <1>1
<1>5. Entry(cs, h, xs)
  BY <1>3 DEF Entry
<1>6. Chronicle(T, cs, h)
  <2>1. DOMAIN h.vals \subseteq Nat
    BY <1>2, <1>3 DEF IsCircuit, Params
  <2> DEFINE ms == [k \in {1} |-> <<>>]
  <2>2. ms[1] = <<>> /\ ms[h.pc] = h.mem
    BY <1>3
  <2>3. Obeys(T, cs, h.c, h.vals, h.self.subs, ms, h.pc - 1)
    <3>1. \A k \in 1 .. h.pc - 1 : FALSE
      BY <1>3
    <3> QED BY <3>1 DEF Obeys
  <2> HIDE DEF ms
  <2> QED BY <2>1, <2>2, <2>3 DEF Chronicle
<1>7. \A k \in 1 .. Len(gs) : gs[k] = h /\ ~(k > 1)
  BY <1>4
<1>8. Complete(T, cs)
  BY DEF Complete
<1>9. cs' = cs
  BY <1>1 DEF Circuits
<1> HIDE DEF cs, gs, xs, T
<1>10. /\ Solving(gs, 1) => Entry(cs, gs[1], xs)
       /\ \A k \in 1 .. Len(gs) : Solving(gs, k) =>
             Chronicle(T, cs, gs[k]) /\ (k > 1 => GivenTo(cs, gs[k - 1], gs[k]))
  BY <1>4, <1>5, <1>6, <1>7
<1>11. \E U : /\ Complete(U, cs')
              /\ Solving(gs, 1) => Entry(cs', gs[1], xs)
              /\ \A k \in 1 .. Len(gs) : Solving(gs, k) =>
                    Chronicle(U, cs', gs[k]) /\ (k > 1 => GivenTo(cs', gs[k - 1], gs[k]))
  BY <1>8, <1>9, <1>10
<1> QED BY <1>11 DEF History, Recorded, cs, gs, xs

---------------------------------------------------------------------------
\* @constrain on the struct that @compute made

\* The frame f of @constrain goes over the execution t: its struct is the one that @compute
\* made of t, and so far it has read the witnesses and the memory of t.
Retraces(cs, f, t) ==
    /\ f.c = t.c /\ f.self.subs = t.subs
    /\ \A w \in DOMAIN t.v \ Params(cs[t.c]) : w \in DOMAIN f.self.w /\ f.self.w[w] = t.v[w]
    /\ \A w \in DOMAIN f.vals \cap DOMAIN t.v : f.vals[w] = t.v[w]
    /\ f.ref.mem = t.ms[f.pc]

\* The frames fs go over the executions ts, each of which was asked for by the one before.
Trace(T, cs, fs, ts) ==
    /\ \A k \in 1 .. Len(fs) : ts[k] \in T /\ Retraces(cs, fs[k], ts[k])
    /\ \A k \in 1 .. Len(fs) - 1 :
          Answers(cs, cs[fs[k].c].opcodes[fs[k].pc], ts[k].v, ts[k].subs[fs[k].pc], ts[k + 1])
    /\ NeedsUnit(1, cs[1]) => fs[1].self.w[Unit] = 0
Retraced(cs, fs) == \E T, ts : Complete(T, cs) /\ Trace(T, cs, fs, ts)

\* When ACVM has executed the program, the frame of @compute is an execution, which the
\* frame of @constrain will go over.
LEMMA EndsRetraced ==
    ASSUME IInv, CInv, ComputeEnds, History(Circuits, stack), solved'
    PROVE  Retraced(Circuits, stack')
<1> DEFINE cs == Circuits
           f == Top
           w0 == f.self.w
           all == IF NeedsUnit(1, cs[1]) THEN With(w0, Unit, 0) ELSE w0
           self == [f.self EXCEPT !.w = all]
           h == Frame(1, inputs, self, Solver(<<>>))
           gs == stack'
<1>1. /\ Running("compute") /\ Len(stack) = 1 /\ AtEnd(f) /\ f.ref.st = "solving"
      /\ gs = <<h>>
  BY DEF ComputeEnds
<1>2. /\ WellFormed(cs) /\ ComputeStackFits(cs, stack) /\ ComputeFits(cs, f) /\ f = stack[1]
      /\ inputs \in [1 .. Cardinality(Params(cs[1])) -> F]
  BY <1>1, ComputeFacts
<1>3. PICK T : Complete(T, cs) /\ Recorded(T, cs, stack)
  BY DEF History
<1>4. Solving(stack, 1)
  <2>1. \A j \in 1 .. 1 : j = 1
    OBVIOUS
  <2> QED BY <1>1, <1>2, <2>1 DEF Solving
<1>5. Entry(cs, f, inputs) /\ Chronicle(T, cs, f)
  <2>1. 1 \in 1 .. Len(stack)
    BY <1>1
  <2> QED BY <1>2, <1>3, <1>4, <2>1 DEF Recorded
<1>6. f.pc > Len(cs[f.c].opcodes)
  BY <1>1 DEF AtEnd, Code
<1>7. PICK u : /\ IsExecution(T, cs, u) /\ u.c = f.c /\ u.v = f.vals /\ u.subs = f.self.subs
               /\ f.self = [w |-> Solved(cs[u.c], u.v), subs |-> u.subs]
  BY <1>2, <1>5, <1>6, FrameCompletes, SMTT(40)
<1> DEFINE T2 == T \cup {u}
           ts == [k \in {1} |-> u]
<1>8. Complete(T2, cs)
  BY <1>2, <1>3, <1>7, CompleteGrows
<1>9. w0 = Solved(cs[u.c], u.v) /\ self = [w |-> all, subs |-> u.subs]
  <2> DEFINE s == f.self
             w1 == Solved(cs[u.c], u.v)
             subs == u.subs
  <2>1. s = [w |-> w1, subs |-> subs]
    BY <1>7
  <2> HIDE DEF s, w1, subs, all
  <2>2. s.w = w1 /\ [s EXCEPT !.w = all] = [w |-> all, subs |-> subs]
    BY <2>1
  <2> QED BY <2>2 DEF s, w1, subs
<1>10. u.c = 1 /\ DOMAIN u.v \subseteq Nat
  BY <1>5, <1>7 DEF Entry, IsExecution
<1>11. ASSUME NEW w \in DOMAIN u.v \ Params(cs[u.c])
       PROVE  w \in DOMAIN all /\ all[w] = u.v[w]
  <2>1. w \in DOMAIN w0 /\ w0[w] = u.v[w]
    BY <1>9 DEF Solved
  <2>2. w # Unit
    BY <1>10 DEF Unit
  <2> HIDE DEF w0
  <2> QED BY <2>1, <2>2 DEF With
<1>12. NeedsUnit(1, cs[1]) => all[Unit] = 0
  <2> HIDE DEF w0
  <2> QED BY DEF With
<1> HIDE DEF all, w0, self
<1>13. /\ h.c = 1 /\ h.pc = 1 /\ h.self = self /\ h.ref = Solver(<<>>)
       /\ h.vals = [w \in Params(cs[1]) |-> inputs[ParamIndex(cs[1], w)]]
  BY DEF Frame
<1>14. h.ref.mem = <<>> /\ self.w = all /\ self.subs = u.subs
  BY <1>9, <1>13 DEF Solver
<1> HIDE DEF h
<1>15. Retraces(cs, h, u)
  <2>1. \A w \in DOMAIN h.vals : h.vals[w] = u.v[w]
    BY <1>5, <1>7, <1>13 DEF Entry
  <2>2. h.ref.mem = u.ms[h.pc]
    BY <1>7, <1>13, <1>14 DEF IsExecution
  <2> QED BY <1>10, <1>11, <1>13, <1>14, <2>1, <2>2 DEF Retraces
<1>16. Len(gs) = 1 /\ gs[1] = h
  BY <1>1
<1>17. ts[1] = u /\ u \in T2
  OBVIOUS
<1> HIDE DEF gs, ts, T2, cs
<1>18. Trace(T2, cs, gs, ts)
  <2>1. \A k \in 1 .. Len(gs) : k = 1
    BY <1>16
  <2>2. \A k \in 1 .. Len(gs) - 1 : FALSE
    BY <1>16
  <2>3. NeedsUnit(1, cs[1]) => gs[1].self.w[Unit] = 0
    BY <1>12, <1>13, <1>14, <1>16
  <2> QED BY <1>15, <1>16, <1>17, <2>1, <2>2, <2>3 DEF Trace
<1> QED BY <1>8, <1>18 DEF Retraced, cs, gs

\* The frame at n becomes g, those above it are dropped.
LEMMA TraceMoves ==
    ASSUME NEW T, NEW cs, NEW fs, NEW ts, Trace(T, cs, fs, ts), Len(fs) \in Nat,
           NEW n \in 1 .. Len(fs), NEW g, Retraces(cs, g, ts[n]), g.self = fs[n].self,
           NEW gs, gs = [k \in 1 .. n |-> IF k = n THEN g ELSE fs[k]]
    PROVE  Trace(T, cs, gs, ts)
<1>1. /\ n \in Nat \ {0} /\ DOMAIN gs = 1 .. n /\ gs[n] = g
      /\ \A k \in 1 .. n - 1 : k \in 1 .. n /\ k \in 1 .. Len(fs) - 1 /\ k \in 1 .. Len(fs)
                               /\ gs[k] = fs[k]
  OBVIOUS
<1>2. Len(gs) = n
  <2>1. gs \in [1 .. n -> ToSet(gs)]
    <3>1. gs = [k \in 1 .. n |-> gs[k]]
      OBVIOUS
    <3>2. \A k \in 1 .. n : gs[k] \in ToSet(gs)
      BY <1>1 DEF ToSet
    <3> QED BY <3>1, <3>2
  <2> QED BY <1>1, <2>1, ByElements
<1>3. ASSUME NEW k \in 1 .. n PROVE ts[k] \in T /\ Retraces(cs, gs[k], ts[k])
  <2>1. CASE k = n
    BY <1>1, <2>1 DEF Trace
  <2>2. CASE k # n
    <3>1. k \in 1 .. n - 1
      BY <1>1, <2>2
    <3> QED BY <1>1, <3>1 DEF Trace
  <2> QED BY <2>1, <2>2
<1>4. ASSUME NEW k \in 1 .. n - 1
      PROVE  Answers(cs, cs[gs[k].c].opcodes[gs[k].pc], ts[k].v, ts[k].subs[gs[k].pc], ts[k + 1])
  BY <1>1 DEF Trace
<1>5. gs[1].self = fs[1].self
  <2>1. CASE n = 1
    BY <1>1, <2>1
  <2>2. CASE n # 1
    <3>1. 1 \in 1 .. n - 1
      BY <1>1, <2>2
    <3> QED BY <1>1, <3>1
  <2> QED BY <2>1, <2>2
<1>6. NeedsUnit(1, cs[1]) => gs[1].self.w[Unit] = 0
  BY <1>5 DEF Trace
<1> HIDE DEF Retraces
<1> QED BY <1>2, <1>3, <1>4, <1>6 DEF Trace

\* What is read has the value it has in the execution.
LEMMA ReadRetraces ==
    ASSUME mode = "honest", FrameFits(Circuits, Top), NEW t, Retraces(Circuits, Top, t),
           NEW witnesses, NEW v \in Read(witnesses)
    PROVE  \A w \in DOMAIN v \cap DOMAIN t.v : v[w] = t.v[w]
<1> DEFINE new == witnesses \ DOMAIN Top.vals
           self == Top.self.w
<1>1. PICK g \in [new -> F] :
         v = Override(Top.vals, g) /\ \A w \in new \cap DOMAIN self : g[w] = self[w]
  BY DEF Read
<1>2. /\ DOMAIN v = DOMAIN Top.vals \cup new
      /\ \A w \in DOMAIN v : v[w] = IF w \in new THEN g[w] ELSE Top.vals[w]
  <2> HIDE DEF new
  <2> QED BY <1>1 DEF Override
<1>3. SUFFICES ASSUME NEW w \in DOMAIN v, w \in DOMAIN t.v PROVE v[w] = t.v[w]
  OBVIOUS
<1>4. CASE w \in new
  <2>1. w \notin Params(Circuits[t.c])
    BY <1>4 DEF FrameFits, Retraces
  <2>2. w \in DOMAIN self /\ self[w] = t.v[w]
    BY <1>3, <2>1 DEF Retraces
  <2> HIDE DEF new, self
  <2> QED BY <1>1, <1>2, <1>4, <2>2
<1>5. CASE w \notin new
  <2>1. v[w] = Top.vals[w] /\ w \in DOMAIN Top.vals
    BY <1>2, <1>5
  <2> QED BY <1>3, <2>1 DEF Retraces
<1> QED BY <1>4, <1>5

\* The execution that a frame goes over obeys the opcodes that the frame meets.
LEMMA ExecutionObeys ==
    ASSUME NEW T, NEW cs, Complete(T, cs), NEW t \in T, NEW f, Retraces(cs, f, t),
           f.pc \in DOMAIN cs[f.c].opcodes, IsSequence(cs[f.c].opcodes)
    PROVE  LET op == cs[f.c].opcodes[f.pc]
           IN  /\ Needs(op) \subseteq DOMAIN t.v
               /\ Holds(op, t.v, f.ref.mem) /\ t.ms[f.pc + 1] = MemoryAfter(op, t.v, f.ref.mem)
               /\ op.op = "Call" /\ Value(op.pred, t.v) = 1 =>
                     \E u \in T : Answers(cs, op, t.v, t.subs[f.pc], u)
<1>1. IsExecution(T, cs, t)
  BY DEF Complete
<1>2. t.c = f.c /\ f.ref.mem = t.ms[f.pc]
  BY DEF Retraces
<1>3. f.pc \in 1 .. Len(cs[f.c].opcodes)
  BY DEF IsSequence
<1>4. Obeys(T, cs, f.c, t.v, t.subs, t.ms, Len(cs[f.c].opcodes))
  BY <1>1, <1>2 DEF IsExecution
<1>5. ObeysAt(T, cs, f.c, t.v, t.subs, t.ms, f.pc)
  BY <1>3, <1>4 DEF Obeys
<1> QED BY <1>2, <1>5 DEF ObeysAt

\* What is known of a running frame.
LEMMA TraceOfTop ==
    ASSUME IInv, NEW ops, Constraining(ops), mode = "honest", Retraced(Circuits, stack)
    PROVE  \E T, ts : /\ Complete(T, Circuits) /\ Trace(T, Circuits, stack, ts)
                      /\ ts[Len(stack)] \in T /\ Retraces(Circuits, Top, ts[Len(stack)])
<1>1. PICK T, ts : Complete(T, Circuits) /\ Trace(T, Circuits, stack, ts)
  BY DEF Retraced
<1>2. Len(stack) \in 1 .. Len(stack)
  <2>1. StackFits(Circuits, stack)
    BY Running_
  <2> QED BY <2>1 DEF StackFits
<1> QED BY <1>1, <1>2 DEF Trace, Top

\* The fields of the frame after a step.
LEMMA AdvancedIs ==
    ASSUME IInv, NEW ops, Constraining(ops), NEW v, NEW mem
    PROVE  LET g == Advanced(Top, v, mem)
           IN  /\ g.c = Top.c /\ g.pc = Top.pc + 1 /\ g.vals = v /\ g.self = Top.self
               /\ g.ref.mem = MemoryAfter(Op, v, Top.ref.mem)
<1> DEFINE f == Top
           c == f.c
           pc == f.pc
           vals == f.vals
           self == f.self
           old == f.mem
           r == f.ref
           next == f.pc + 1
           m == MemoryAfter(Op, v, f.ref.mem)
           ref == [r EXCEPT !.mem = m]
           g == Advanced(f, v, mem)
<1>1. FrameFits(Circuits, f)
  BY Running_
<1>2. /\ f = [c |-> c, pc |-> pc, vals |-> vals, self |-> self, mem |-> old, ref |-> r]
      /\ r = [st |-> r.st, sol |-> r.sol, mem |-> old]
  BY <1>1, FrameRecord
<1>3. ref.mem = m
  <2> DEFINE st == r.st
             sol == r.sol
  <2>1. r = [st |-> st, sol |-> sol, mem |-> old]
    BY <1>2
  <2> HIDE DEF r, st, sol, old, m
  <2> QED BY <2>1
<1>4. g = [f EXCEPT !.vals = v, !.mem = mem, !.pc = next, !.ref = ref]
  BY DEF Advanced
<1> HIDE DEF g, c, pc, vals, self, old, r, ref, next, m, f
<1>5. g = [c |-> c, pc |-> next, vals |-> v, self |-> self, mem |-> mem, ref |-> ref]
  BY <1>2, <1>4, RecordAdvances
<1>6. g.c = c /\ g.pc = next /\ g.vals = v /\ g.self = self /\ g.ref = ref
  BY <1>5
<1> QED BY <1>3, <1>6 DEF c, next, self, g, f, m

\* The code of an opcode, with the witnesses that the execution has: its relation holds.
LEMMA CheckRetraces ==
    ASSUME IInv, NEW ops, Constraining(ops), mode = "honest", Retraced(Circuits, stack),
           NEW v, v \in Claims(Op) \/ (v = Top.vals /\ Needs(Op) = {}),
           NEW mem, NEW met, Check(v, mem, met)
    PROVE  holds' = TRUE /\ Retraced(Circuits, stack')
<1> DEFINE cs == Circuits
           f == Top
           n == Len(stack)
           g == Advanced(f, v, mem)
           m == f.ref.mem
<1>1. PICK T, ts : /\ Complete(T, cs) /\ Trace(T, cs, stack, ts)
                   /\ ts[n] \in T /\ Retraces(cs, f, ts[n])
  BY TraceOfTop
<1> DEFINE t == ts[n]
<1>2. /\ WellFormed(cs) /\ StackFits(cs, stack) /\ FrameFits(cs, f) /\ holds = TRUE
      /\ f.pc \in DOMAIN cs[f.c].opcodes /\ Op = cs[f.c].opcodes[f.pc] /\ IsOpcode(Op)
  BY Running_
<1>3. IsSequence(cs[f.c].opcodes)
  BY <1>2 DEF FrameFits, WellFormed, IsCircuit
<1>4. \A w \in DOMAIN v \cap DOMAIN t.v : v[w] = t.v[w]
  <2>1. CASE v \in Claims(Op)
    <3> HIDE DEF t
    <3> QED BY <1>1, <1>2, <2>1, ReadRetraces DEF Claims, t
  <2>2. CASE v = Top.vals
    BY <1>1, <2>2 DEF Retraces
  <2> QED BY <2>1, <2>2
<1>5. Needs(Op) \subseteq DOMAIN v
  <2>1. CASE v \in Claims(Op)
    <3>1. GetWitnesses(Op) \subseteq DOMAIN v
      BY <2>1, ClaimIsValuation
    <3> QED BY <1>2, <3>1, NeedsAreRead
  <2> QED BY <2>1
<1>6. /\ Needs(Op) \subseteq DOMAIN t.v
      /\ Holds(Op, t.v, m) /\ t.ms[f.pc + 1] = MemoryAfter(Op, t.v, m)
  <2> HIDE DEF t, f, cs
  <2>1. t \in T /\ Retraces(cs, f, t)
    BY <1>1 DEF t
  <2> QED BY <1>1, <1>2, <1>3, <2>1, ExecutionObeys DEF m
<1>7. Holds(Op, v, m) /\ MemoryAfter(Op, v, m) = t.ms[f.pc + 1]
  <2> DEFINE op == Op
             u == t.v
  <2>1. IsOpcode(op) /\ \A w \in Needs(op) : v[w] = u[w]
    BY <1>2, <1>4, <1>5, <1>6
  <2> HIDE DEF op, u, m
  <2>2. (Holds(op, v, m) <=> Holds(op, u, m)) /\ MemoryAfter(op, v, m) = MemoryAfter(op, u, m)
    BY <2>1, RelationSame
  <2> QED BY <1>6, <2>2 DEF op, u
<1>8. holds' = TRUE
  <2>1. holds' = (holds /\ Holds(Op, v, m))
    BY DEF Check
  <2> HIDE DEF m
  <2> QED BY <1>2, <1>7, <2>1
<1>9. /\ g.c = f.c /\ g.pc = f.pc + 1 /\ g.vals = v /\ g.self = f.self
      /\ g.ref.mem = MemoryAfter(Op, v, m)
  BY AdvancedIs
<1>10. stack' = [stack EXCEPT ![n] = g]
  BY DEF Check
<1> HIDE DEF g
<1>11. Retraces(cs, g, t)
  BY <1>1, <1>4, <1>7, <1>9 DEF Retraces
<1>12. n \in Nat /\ n \in 1 .. n /\ stack' = [k \in 1 .. n |-> IF k = n THEN g ELSE stack[k]]
  <2>1. stack \in Seq(ToSet(stack)) /\ n \in Nat /\ n > 0 /\ DOMAIN stack = 1 .. n
    BY <1>2 DEF StackFits
  <2>2. stack = [k \in 1 .. n |-> stack[k]]
    BY <2>1
  <2> HIDE DEF n
  <2> QED BY <1>10, <2>1, <2>2
<1>13. g.self = stack[n].self
  BY <1>9 DEF Top
<1> HIDE DEF cs, t
<1>14. Trace(T, cs, stack', ts)
  <2>1. Retraces(cs, g, ts[n])
    BY <1>11 DEF t
  <2> HIDE DEF n
  <2>2. n \in 1 .. Len(stack) /\ Len(stack) \in Nat
    BY <1>12 DEF n
  <2> QED BY <1>1, <1>12, <1>13, <2>1, <2>2, TraceMoves
<1> QED BY <1>1, <1>8, <1>14 DEF Retraced, cs

\* A call that is made: the callee goes over the execution that answered it in @compute.
LEMMA CallRetraces ==
    ASSUME IInv, ConstrainCall, mode = "honest", Retraced(Circuits, stack)
    PROVE  holds' = TRUE /\ Retraced(Circuits, stack')
<1> DEFINE ops == {"Call"}
           cs == Circuits
           fs == stack
           gs == stack'
           f == Top
           n == Len(stack)
           op == Op
<1>0. \A o \in ops : o = "Call"
  OBVIOUS
<1>1. Constraining(ops)
  BY DEF ConstrainCall
<1> HIDE DEF ops
<1>2. PICK v \in Claims(op) :
         /\ EmitExpression(op.pred, v) = 1
         /\ gs = Append([stack EXCEPT ![Len(stack)].vals = v],
                        Frame(op.id, [k \in DOMAIN op.ins |-> v[op.ins[k]]],
                              Subcircuit(Top), Solver(<<>>)))
  BY DEF ConstrainCall
<1> DEFINE args == [k \in DOMAIN op.ins |-> v[op.ins[k]]]
           callee == Frame(op.id, args, Subcircuit(f), Solver(<<>>))
           caller == [f EXCEPT !.vals = v]
<1>3. /\ WellFormed(cs) /\ StackFits(cs, fs) /\ FrameFits(cs, f) /\ holds = TRUE /\ op.op = "Call"
      /\ f.pc \in DOMAIN cs[f.c].opcodes /\ op = cs[f.c].opcodes[f.pc] /\ IsOpcode(op)
      /\ Checked(cs, cs[f.c].opcodes, f.pc)
  BY <1>0, <1>1, Running_
<1>4. PICK T, ts : /\ Complete(T, cs) /\ Trace(T, cs, fs, ts)
                   /\ ts[n] \in T /\ Retraces(cs, f, ts[n])
  BY <1>1, TraceOfTop
<1> DEFINE t == ts[n]
           sub == t.subs[f.pc]
<1>5. GetWitnesses(op) \subseteq DOMAIN v
  BY <1>1, ClaimIsValuation
<1>6. \A w \in DOMAIN v \cap DOMAIN t.v : v[w] = t.v[w]
  <2> HIDE DEF t
  <2> QED BY <1>2, <1>3, <1>4, ReadRetraces DEF Claims, t
<1>7. PICK u \in T : Answers(cs, op, t.v, sub, u)
  <2>1. IsSequence(cs[f.c].opcodes)
    BY <1>3 DEF FrameFits, WellFormed, IsCircuit
  <2>2. /\ Needs(op) \subseteq DOMAIN t.v
        /\ op.op = "Call" /\ Value(op.pred, t.v) = 1 => \E x \in T : Answers(cs, op, t.v, t.subs[f.pc], x)
    <3> HIDE DEF t, f, cs
    <3>1. t \in T /\ Retraces(cs, f, t)
      BY <1>4 DEF t
    <3> QED BY <1>3, <1>4, <2>1, <3>1, ExecutionObeys
  <2> DEFINE e == op.pred
             x == t.v
  <2>3. IsExpression(e) /\ Needs(op) = Support(e)
    BY <1>3 DEF IsOpcode, Needs
  <2>4. Support(e) \subseteq DOMAIN v
    BY <1>3, <1>5, <2>3, NeedsAreRead
  <2>5. \A w \in Support(e) : v[w] = x[w]
    BY <1>6, <2>2, <2>3, <2>4
  <2>6. IsValuation(v)
    BY <1>1, ClaimIsValuation
  <2>7. CollectWitnesses(e) \subseteq DOMAIN v
    BY <1>3, <1>5 DEF GetWitnesses
  <2> HIDE DEF e, x
  <2>8. EmitExpression(e, v) = Value(e, v)
    BY <2>3, <2>6, <2>7, ExpressionAgrees
  <2>9. Value(e, v) = Value(e, x)
    BY <2>3, <2>5, ValueSame
  <2>10. Value(e, x) = 1
    BY <1>2, <2>8, <2>9 DEF e
  <2> QED BY <1>3, <2>2, <2>10 DEF e, x
<1>8. /\ u.c = op.id /\ sub = [w |-> Solved(cs[u.c], u.v), subs |-> u.subs]
      /\ ToSet(op.ins) \subseteq DOMAIN t.v
      /\ \A w \in Params(cs[u.c]) : u.v[w] = t.v[op.ins[ParamIndex(cs[u.c], w)]]
  BY <1>7 DEF Answers
<1>9. /\ op.id \in DOMAIN cs /\ Len(op.ins) = Cardinality(Params(cs[op.id])) /\ op.ins \in Seq(Nat)
      /\ op.outs \in Seq(Nat) /\ IsCircuit(cs[op.id])
  BY <1>3 DEF Checked, IsOpcode, WellFormed
<1>10. ToSet(op.ins) \subseteq DOMAIN v
  <2>1. ToSet(op.ins \o op.outs) \subseteq DOMAIN v
    BY <1>3, <1>5 DEF GetWitnesses
  <2> HIDE DEF op
  <2> QED BY <1>9, <2>1, ConcatHolds
<1>11. /\ callee.c = op.id /\ callee.pc = 1 /\ callee.self = Subcircuit(f)
       /\ callee.vals = [w \in Params(cs[op.id]) |-> args[ParamIndex(cs[op.id], w)]]
       /\ callee.ref.mem = <<>>
  BY DEF Frame, Solver
<1>12. Subcircuit(f) = sub
  <2>1. Subcircuit(f) = f.self.subs[f.pc]
    BY DEF Subcircuit
  <2>2. f.self.subs = t.subs
    <3> HIDE DEF t, f, cs
    <3> QED BY <1>4 DEF Retraces, t
  <2> QED BY <2>1, <2>2
<1>13. ASSUME NEW w \in Params(cs[op.id]) PROVE callee.vals[w] = u.v[w]
  <2> DEFINE i == ParamIndex(cs[op.id], w)
  <2>1. i \in DOMAIN op.ins /\ op.ins[i] \in ToSet(op.ins)
    <3>1. i \in 1 .. Cardinality(Params(cs[op.id]))
      BY <1>9, ParamIndexInRange
    <3> QED BY <1>9, <3>1 DEF ToSet
  <2>2. callee.vals[w] = v[op.ins[i]]
    <3> HIDE DEF callee, i
    <3> QED BY <1>11, <2>1 DEF i
  <2>3. u.v[w] = t.v[op.ins[i]]
    <3> HIDE DEF t, op
    <3> QED BY <1>8
  <2>4. v[op.ins[i]] = t.v[op.ins[i]]
    <3> HIDE DEF i, t, op
    <3> QED BY <1>6, <1>8, <1>10, <2>1
  <2> HIDE DEF callee, i
  <2> QED BY <2>2, <2>3, <2>4
<1>14. Retraces(cs, callee, u)
  <2>1. IsExecution(T, cs, u)
    BY <1>4 DEF Complete
  <2>2. sub.subs = u.subs /\ sub.w = Solved(cs[u.c], u.v)
    <3> HIDE DEF sub, cs
    <3> QED BY <1>8
  <2>3. u.ms[1] = <<>>
    BY <2>1 DEF IsExecution
  <2>4. DOMAIN callee.vals = Params(cs[op.id])
    <3> HIDE DEF callee
    <3> QED BY <1>11
  <2> HIDE DEF callee, sub, cs
  <2>5. \A w \in DOMAIN u.v \ Params(cs[u.c]) : w \in DOMAIN sub.w /\ sub.w[w] = u.v[w]
    BY <2>2 DEF Solved
  <2> QED BY <1>8, <1>11, <1>12, <1>13, <2>2, <2>3, <2>4, <2>5 DEF Retraces
<1>15. caller = [c |-> f.c, pc |-> f.pc, vals |-> v, self |-> f.self, mem |-> f.mem, ref |-> f.ref]
  <2> DEFINE c == f.c
             pc == f.pc
             vals == f.vals
             self == f.self
             mem == f.mem
             ref == f.ref
  <2>1. f = [c |-> c, pc |-> pc, vals |-> vals, self |-> self, mem |-> mem, ref |-> ref]
    BY <1>3, FrameRecord
  <2> HIDE DEF c, pc, vals, self, mem, ref, f
  <2>2. caller = [c |-> c, pc |-> pc, vals |-> v, self |-> self, mem |-> mem, ref |-> ref]
    BY <2>1
  <2> QED BY <2>2 DEF c, pc, vals, self, mem, ref
<1>16. /\ caller.c = f.c /\ caller.pc = f.pc /\ caller.vals = v /\ caller.self = f.self
       /\ caller.ref = f.ref
  <2> HIDE DEF caller, f
  <2> QED BY <1>15
<1> HIDE DEF caller, callee
<1>17. Retraces(cs, caller, t)
  BY <1>4, <1>6, <1>16 DEF Retraces
<1> DEFINE ts2 == [k \in 1 .. n + 1 |-> IF k = n + 1 THEN u ELSE ts[k]]
<1>18. /\ n \in Nat /\ n \in 1 .. n /\ Len(gs) = n + 1 /\ gs[n + 1] = callee /\ gs[n] = caller
       /\ \A k \in 1 .. n - 1 : gs[k] = fs[k]
  <2>1. fs \in Seq(ToSet(fs)) /\ n \in Nat /\ n > 0 /\ DOMAIN fs = 1 .. n
    BY <1>3 DEF StackFits
  <2> DEFINE mid == [fs EXCEPT ![n] = caller]
  <2>2. gs = Append(mid, callee)
    BY <1>2 DEF caller, callee, Top
  <2> HIDE DEF n, gs, fs
  <2>3. mid \in Seq(ToSet(fs) \cup {caller}) /\ Len(mid) = n
    BY <2>1
  <2>4. mid[n] = caller /\ \A k \in 1 .. n - 1 : mid[k] = fs[k]
    BY <2>1
  <2> HIDE DEF mid
  <2> QED BY <2>1, <2>2, <2>3, <2>4
<1>19. /\ ts2[n + 1] = u /\ \A k \in 1 .. n : ts2[k] = ts[k]
       /\ n + 1 - 1 = n
  <2> HIDE DEF n
  <2> QED BY <1>18
<1> HIDE DEF ts2, gs
<1>20. ASSUME NEW k \in 1 .. n + 1 PROVE ts2[k] \in T /\ Retraces(cs, gs[k], ts2[k])
  <2> HIDE DEF n, cs, t
  <2>1. CASE k = n + 1
    BY <1>14, <1>18, <1>19, <2>1
  <2>2. CASE k = n
    BY <1>4, <1>17, <1>18, <1>19, <2>2 DEF t
  <2>3. CASE k # n /\ k # n + 1
    <3>1. k \in 1 .. n - 1 /\ k \in 1 .. n
      BY <1>18, <2>3
    <3>2. gs[k] = fs[k] /\ ts2[k] = ts[k]
      BY <1>18, <1>19, <3>1
    <3> QED BY <1>4, <3>1, <3>2 DEF Trace, n
  <2> QED BY <2>1, <2>2, <2>3
<1>21. ASSUME NEW k \in 1 .. n
       PROVE  Answers(cs, cs[gs[k].c].opcodes[gs[k].pc], ts2[k].v, ts2[k].subs[gs[k].pc], ts2[k + 1])
  <2> HIDE DEF n, cs, t
  <2>1. CASE k = n
    BY <1>3, <1>7, <1>16, <1>18, <1>19, <2>1 DEF t
  <2>2. CASE k # n
    <3>1. k \in 1 .. n - 1 /\ k + 1 \in 1 .. n
      BY <1>18, <2>2
    <3>2. gs[k] = fs[k] /\ ts2[k] = ts[k] /\ ts2[k + 1] = ts[k + 1]
      BY <1>18, <1>19, <3>1
    <3> QED BY <1>4, <3>1, <3>2 DEF Trace, n
  <2> QED BY <2>1, <2>2
<1>22. NeedsUnit(1, cs[1]) => gs[1].self.w[Unit] = 0
  <2>1. gs[1].self = fs[1].self
    <3>1. CASE n = 1
      BY <1>16, <1>18, <3>1 DEF Top
    <3>2. CASE n # 1
      <4>1. 1 \in 1 .. n - 1
        <5> HIDE DEF n
        <5> QED BY <1>18, <3>2
      <4> QED BY <1>18, <4>1
    <3> QED BY <3>1, <3>2
  <2> QED BY <1>4, <2>1 DEF Trace
<1>23. Trace(T, cs, gs, ts2)
  <2> HIDE DEF n, cs
  <2> QED BY <1>18, <1>19, <1>20, <1>21, <1>22 DEF Trace
<1>24. holds' = TRUE
  BY <1>3 DEF ConstrainCall
<1> QED BY <1>4, <1>23, <1>24 DEF Retraced, cs, gs

\* The return of a callee: its results are those that the caller's witnesses hold.
LEMMA ReturnRetraces ==
    ASSUME IInv, ConstrainReturn, mode = "honest", Retraced(Circuits, stack)
    PROVE  holds' = TRUE /\ Retraced(Circuits, stack')
<1> DEFINE cs == Circuits
           fs == stack
           gs == stack'
           n == Len(stack)
           m == n - 1
           f == Caller
           code == cs[f.c].opcodes
           op == code[f.pc]
           v == f.vals
           next == [f EXCEPT !.pc = f.pc + 1]
<1>1. /\ phase = "constrain" /\ accepted = TRUE /\ n > 1
      /\ gs = Append(SubSeq(stack, 1, Len(stack) - 2), next)
  BY DEF ConstrainReturn, Running, IInv
<1>2. op = Code(Caller)[Caller.pc]
  BY DEF Code
<1> DEFINE Met(o, w) ==
             \E callee \in Read(ToSet(Returns(o))) :
                LET xs == [k \in DOMAIN o.outs |-> callee[Returns(o)[k]]]
                IN  holds' = (holds /\ \A k \in DOMAIN o.outs : w[o.outs[k]] = xs[k])
<1>3. Met(op, v)
  <2>1. Met(Code(Caller)[Caller.pc], Caller.vals)
    BY Zenon DEF ConstrainReturn
  <2> HIDE DEF Met
  <2> QED BY <1>2, <2>1
<1>4. PICK callee \in Read(ToSet(Returns(op))) :
         holds' = (holds /\ \A k \in DOMAIN op.outs : v[op.outs[k]] = callee[Returns(op)[k]])
  <2>1. PICK callee \in Read(ToSet(Returns(op))) :
           LET xs == [k \in DOMAIN op.outs |-> callee[Returns(op)[k]]]
           IN  holds' = (holds /\ \A k \in DOMAIN op.outs : v[op.outs[k]] = xs[k])
    BY <1>3, Zenon
  <2> HIDE DEF op, v
  <2>2. holds' = (holds /\ \A k \in DOMAIN op.outs : v[op.outs[k]] = callee[Returns(op)[k]])
    BY <2>1
  <2> QED BY <2>2
<1>5. StackFits(cs, fs) /\ WellFormed(cs) /\ holds = TRUE
  BY <1>1 DEF IInv, AcceptsExactlySolutions
<1>6. /\ fs \in Seq(ToSet(fs)) /\ n \in Nat /\ m \in 1 .. m /\ m \in 1 .. n /\ n \in 1 .. n
      /\ m + 1 = n /\ DOMAIN fs = 1 .. n
  <2>1. fs \in Seq(ToSet(fs)) /\ n \in Nat /\ DOMAIN fs = 1 .. n
    BY <1>5 DEF StackFits
  <2> HIDE DEF n
  <2> QED BY <1>1, <2>1
<1>7. FrameFits(cs, f) /\ FrameFits(cs, Top) /\ Waits(cs, f, Top)
  <2>1. FrameFits(cs, fs[m]) /\ FrameFits(cs, fs[n])
    BY <1>5, <1>6 DEF StackFits
  <2>2. Waits(cs, fs[m], fs[m + 1])
    BY <1>5, <1>6 DEF StackFits
  <2> QED BY <1>6, <2>1, <2>2 DEF Caller, Top
<1>8. /\ f.pc \in DOMAIN code /\ op.op = "Call" /\ Top.c = op.id
      /\ GetWitnesses(op) \subseteq DOMAIN v
  BY <1>7 DEF Waits
<1>9. f.c \in DOMAIN cs
  BY <1>7 DEF FrameFits
<1>10. IsOpcode(op) /\ Checked(cs, code, f.pc) /\ IsSequence(code)
  BY <1>5, <1>8, <1>9 DEF WellFormed, IsCircuit
<1>11. /\ op.ins \in Seq(Nat) /\ op.outs \in Seq(Nat) /\ op.id \in DOMAIN cs
       /\ Len(cs[op.id].returns) = Len(op.outs) /\ cs[op.id].returns \in Seq(Nat)
  BY <1>5, <1>8, <1>10 DEF IsOpcode, Checked, WellFormed, IsCircuit
<1>12. PICK T, ts : Complete(T, cs) /\ Trace(T, cs, fs, ts)
  BY DEF Retraced
<1> DEFINE t == ts[m]
           u == ts[n]
<1>13. /\ t \in T /\ Retraces(cs, f, t) /\ Retraces(cs, Top, u)
       /\ Answers(cs, op, t.v, t.subs[f.pc], u)
  <2>1. t \in T /\ Retraces(cs, fs[m], t) /\ Retraces(cs, fs[n], u)
    BY <1>6, <1>12 DEF Trace
  <2>2. Answers(cs, cs[fs[m].c].opcodes[fs[m].pc], ts[m].v, ts[m].subs[fs[m].pc], ts[m + 1])
    BY <1>6, <1>12 DEF Trace
  <2> QED BY <1>6, <2>1, <2>2 DEF Caller, Top
<1>14. holds' = TRUE
  <2>1. ASSUME NEW k \in DOMAIN op.outs PROVE v[op.outs[k]] = callee[Returns(op)[k]]
    <3> DEFINE r == Returns(op)[k]
               o == op.outs[k]
    <3>1. Returns(op) = cs[u.c].returns
      BY <1>13 DEF Answers, Returns
    <3>2. r \in DOMAIN u.v /\ t.v[o] = u.v[r]
      <4> HIDE DEF op, t, u
      <4> QED BY <1>13, <3>1 DEF Answers
    <3>3. o \in DOMAIN t.v
      <4>1. o \in ToSet(op.outs)
        BY DEF ToSet
      <4> HIDE DEF op, t, u, o
      <4> QED BY <1>13, <4>1 DEF Answers
    <3>4. o \in DOMAIN v
      <4>1. ToSet(op.ins \o op.outs) \subseteq DOMAIN v
        <5> HIDE DEF op, v
        <5> QED BY <1>8 DEF GetWitnesses
      <4>2. ToSet(op.outs) \subseteq DOMAIN v
        <5> HIDE DEF op, v
        <5> QED BY <1>11, <4>1, ConcatHolds
      <4> QED BY <4>2 DEF ToSet
    <3>5. v[o] = t.v[o]
      <4> HIDE DEF op, t, o, f
      <4> QED BY <1>13, <3>3, <3>4 DEF Retraces
    <3>6. r \in DOMAIN callee
      <4>1. k \in DOMAIN Returns(op)
        <5>1. DOMAIN op.outs = 1 .. Len(op.outs) /\ DOMAIN Returns(op) = 1 .. Len(op.outs)
          BY <1>11 DEF Returns
        <5> QED BY <5>1
      <4>2. ToSet(Returns(op)) \subseteq DOMAIN callee
        <5>1. IsValuation(Top.vals)
          BY <1>7 DEF FrameFits
        <5> HIDE DEF op
        <5> QED BY <1>4, <5>1, ReadIsValuation
      <4> QED BY <4>1, <4>2 DEF ToSet
    <3>7. callee[r] = u.v[r]
      <4> DEFINE ws == ToSet(Returns(op))
      <4> HIDE DEF ws, r, u
      <4>1. callee \in Read(ws)
        BY <1>4 DEF ws
      <4>2. \A w \in DOMAIN callee \cap DOMAIN u.v : callee[w] = u.v[w]
        BY <1>7, <1>13, <4>1, ReadRetraces
      <4> QED BY <3>2, <3>6, <4>2
    <3> HIDE DEF r, o, u, t
    <3>8. v[o] = callee[r]
      BY <3>2, <3>5, <3>7
    <3> QED BY <3>8 DEF r, o
  <2> HIDE DEF op, v
  <2> QED BY <1>4, <1>5, <2>1
<1>15. next.c = f.c /\ next.pc = f.pc + 1 /\ next.vals = v /\ next.self = f.self /\ next.ref = f.ref
  <2> DEFINE c == f.c
             pc == f.pc
             self == f.self
             mem == f.mem
             ref == f.ref
             at == pc + 1
  <2>1. f = [c |-> c, pc |-> pc, vals |-> v, self |-> self, mem |-> mem, ref |-> ref]
    BY <1>7, FrameRecord
  <2>2. next = [f EXCEPT !.pc = at]
    OBVIOUS
  <2> HIDE DEF c, pc, self, mem, ref, at, f, v, next
  <2>3. next = [c |-> c, pc |-> at, vals |-> v, self |-> self, mem |-> mem, ref |-> ref]
    BY <2>1, <2>2
  <2>4. next.c = c /\ next.pc = at /\ next.vals = v /\ next.self = self /\ next.ref = ref
    BY <2>3
  <2> QED BY <2>4 DEF c, at, pc, self, ref
<1>16. t.ms[f.pc + 1] = f.ref.mem
  <2>1. t.ms[f.pc + 1] = MemoryAfter(op, t.v, f.ref.mem)
    <3> HIDE DEF t, f, cs
    <3> QED BY <1>8, <1>10, <1>12, <1>13, ExecutionObeys, SMTT(40) DEF code, op
  <2>2. MemoryAfter(op, t.v, f.ref.mem) = f.ref.mem
    BY <1>8 DEF MemoryAfter
  <2> QED BY <2>1, <2>2
<1> HIDE DEF next
<1>17. Retraces(cs, next, t)
  <2> HIDE DEF f, t, cs
  <2> QED BY <1>13, <1>15, <1>16 DEF Retraces, v
<1>18. gs = [k \in 1 .. m |-> IF k = m THEN next ELSE fs[k]]
  <2> DEFINE init == SubSeq(fs, 1, n - 2)
  <2>1. gs = Append(init, next) /\ m = n - 1
    BY <1>1
  <2> HIDE DEF n, gs, fs, m
  <2>2. n - 2 \in 0 .. n /\ Len(fs) = n
    BY <1>1, <1>6 DEF n, fs
  <2>3. init \in Seq(ToSet(fs)) /\ Len(init) = n - 2 /\ \A k \in 1 .. n - 2 : init[k] = fs[k]
    BY <1>6, <2>2
  <2> HIDE DEF init
  <2>4. DOMAIN gs = 1 .. m /\ gs[m] = next /\ \A k \in 1 .. m - 1 : gs[k] = fs[k]
    BY <1>6, <2>1, <2>2, <2>3
  <2>5. gs = [k \in 1 .. m |-> gs[k]]
    <3>1. gs \in Seq(ToSet(fs) \cup {next})
      BY <2>1, <2>3
    <3> QED BY <2>4, <3>1
  <2>6. ASSUME NEW k \in 1 .. m PROVE gs[k] = IF k = m THEN next ELSE fs[k]
    <3>1. k = m \/ k \in 1 .. m - 1
      BY <1>6
    <3> QED BY <2>4, <3>1
  <2> QED BY <2>5, <2>6
<1>19. Trace(T, cs, gs, ts)
  <2>1. next.self = fs[m].self
    BY <1>15 DEF Caller
  <2>2. m \in 1 .. Len(fs) /\ Len(fs) \in Nat
    BY <1>6
  <2>3. Retraces(cs, next, ts[m])
    BY <1>17
  <2> HIDE DEF m, cs, fs, gs
  <2> QED BY <1>12, <1>18, <2>1, <2>2, <2>3, TraceMoves
<1> QED BY <1>12, <1>14, <1>19 DEF Retraced, cs, gs

\* The unit output of the struct that @compute made is zero.
LEMMA EndsZero ==
    ASSUME IInv, ConstrainEnds, mode = "honest", Retraced(Circuits, stack)
    PROVE  holds' = TRUE
<1>1. phase = "constrain" /\ accepted = TRUE /\ Len(stack) = 1
  BY DEF ConstrainEnds, Running, IInv
<1>2. holds = TRUE
  BY <1>1 DEF IInv, AcceptsExactlySolutions
<1>3. NeedsUnit(1, Circuits[1]) => Top.self.w[Unit] = 0
  BY <1>1 DEF Retraced, Trace, Top
<1>4. PICK unit \in IF ~NeedsUnit(1, Circuits[1]) THEN {0} ELSE {Top.self.w[Unit]} :
         holds' = (holds /\ unit = 0)
  BY DEF ConstrainEnds
<1>5. unit = 0
  BY <1>3, <1>4
<1> QED BY <1>2, <1>4, <1>5

\* The code of an opcode reads what the opcode mentions, Brillig's apart, and is a check.
LEMMA OpcodesRead ==
    ASSUME \/ ConstrainAssertZero \/ ConstrainMemoryInit \/ ConstrainMemoryRead
           \/ ConstrainMemoryWrite \/ ConstrainLogic \/ ConstrainRange \/ ConstrainBlackBox
           \/ ConstrainSkippedCall
    PROVE  \E ops : Constraining(ops) /\ \E v \in Claims(Op) : \E mem, met : Check(v, mem, met)
<1>1. ASSUME NEW ops, Constraining(ops), \E v \in Claims(Op) : \E mem, met : Check(v, mem, met)
      PROVE  \E os : Constraining(os) /\ \E v \in Claims(Op) : \E mem, met : Check(v, mem, met)
  BY <1>1
<1>2. CASE ConstrainAssertZero
  <2>1. Constraining({"AssertZero"}) /\ \E v \in Claims(Op) : \E mem, met : Check(v, mem, met)
    BY <1>2, Zenon DEF ConstrainAssertZero
  <2> QED BY <1>1, <2>1
<1>3. CASE ConstrainMemoryInit
  <2>1. Constraining({"MemoryInit"}) /\ \E v \in Claims(Op) : \E mem, met : Check(v, mem, met)
    BY <1>3, Zenon DEF ConstrainMemoryInit
  <2> QED BY <1>1, <2>1
<1>4. CASE ConstrainMemoryRead
  <2>1. Constraining({"MemoryOp"}) /\ \E v \in Claims(Op) : \E mem, met : Check(v, mem, met)
    BY <1>4, Zenon DEF ConstrainMemoryRead
  <2> QED BY <1>1, <2>1
<1>5. CASE ConstrainMemoryWrite
  <2>1. Constraining({"MemoryOp"}) /\ \E v \in Claims(Op) : \E mem, met : Check(v, mem, met)
    BY <1>5, Zenon DEF ConstrainMemoryWrite
  <2> QED BY <1>1, <2>1
<1>6. CASE ConstrainLogic
  <2>1. Constraining({"AND", "XOR"}) /\ \E v \in Claims(Op) : \E mem, met : Check(v, mem, met)
    BY <1>6, Zenon DEF ConstrainLogic
  <2> QED BY <1>1, <2>1
<1>7. CASE ConstrainRange
  <2>1. Constraining({"RANGE"}) /\ \E v \in Claims(Op) : \E mem, met : Check(v, mem, met)
    BY <1>7, Zenon DEF ConstrainRange
  <2> QED BY <1>1, <2>1
<1>8. CASE ConstrainBlackBox
  <2>1. Constraining({"BlackBox"}) /\ \E v \in Claims(Op) : \E mem, met : Check(v, mem, met)
    BY <1>8, Zenon DEF ConstrainBlackBox
  <2> QED BY <1>1, <2>1
<1>9. CASE ConstrainSkippedCall
  <2>1. Constraining({"Call"}) /\ \E v \in Claims(Op) : \E mem, met : Check(v, mem, met)
    BY <1>9, Zenon DEF ConstrainSkippedCall
  <2> QED BY <1>1, <2>1
<1> QED BY <1>2, <1>3, <1>4, <1>5, <1>6, <1>7, <1>8, <1>9

\* Every opcode's code is a check.
LEMMA OpcodesCheck ==
    ASSUME IInv, mode = "honest", Retraced(Circuits, stack),
           \/ ConstrainAssertZero \/ ConstrainMemoryInit \/ ConstrainMemoryRead
           \/ ConstrainMemoryWrite \/ ConstrainLogic \/ ConstrainRange \/ ConstrainBlackBox
           \/ ConstrainBrilligCall \/ ConstrainSkippedCall
    PROVE  holds' = TRUE /\ Retraced(Circuits, stack')
<1>1. CASE ConstrainBrilligCall
  <2> DEFINE ops == {"BrilligCall"}
  <2>1. Constraining(ops) /\ Check(Top.vals, Top.mem, TRUE)
    BY <1>1 DEF ConstrainBrilligCall
  <2>2. \A o \in ops : o = "BrilligCall"
    OBVIOUS
  <2> HIDE DEF ops
  <2>3. Op.op \in ops
    BY <2>1, Running_
  <2>4. Needs(Op) = {}
    BY <2>2, <2>3 DEF Needs
  <2> QED BY <2>1, <2>4, CheckRetraces
<1>2. CASE ~ConstrainBrilligCall
  <2>1. PICK ops : Constraining(ops) /\ \E v \in Claims(Op) : \E mem, met : Check(v, mem, met)
    BY <1>2, OpcodesRead
  <2>2. PICK v \in Claims(Op) : \E mem, met : Check(v, mem, met)
    BY <2>1
  <2>3. PICK mem, met : Check(v, mem, met)
    BY <2>2
  <2> QED BY <2>1, <2>3, CheckRetraces
<1> QED BY <1>1, <1>2

---------------------------------------------------------------------------
\* The invariant

\* As long as ACVM executes the program, @compute leaves a record of what its opcodes hold of;
\* when ACVM has executed it, @constrain goes over that record, and no relation fails.
HInv ==
    /\ phase \in {"translate", "compute"} => solved = FALSE /\ holds = TRUE
    /\ phase = "compute" /\ outcome = "ok" => History(Circuits, stack)
    /\ mode = "honest" /\ solved = TRUE => holds = TRUE
    /\ phase = "constrain" /\ mode = "honest" /\ solved = TRUE => Retraced(Circuits, stack)
    /\ solved \in BOOLEAN

\* A step of @constrain.
LEMMA ConstrainRetraces == ASSUME IInv, HInv, Constrain PROVE HInv'
<1>1. phase = "constrain" /\ outcome = "ok"
  BY DEF Constrain, ConstrainAssertZero, ConstrainMemoryInit, ConstrainMemoryRead,
         ConstrainMemoryWrite, ConstrainLogic, ConstrainRange, ConstrainBlackBox,
         ConstrainBrilligCall, ConstrainSkippedCall, ConstrainCall, ConstrainReturn,
         ConstrainEnds, Constraining, At, Running
<1>2. phase' \in {phase, "done"} /\ mode' = mode /\ solved' = solved /\ prog' = prog
  BY DEF Constrain, ConstrainAssertZero, ConstrainMemoryInit, ConstrainMemoryRead,
         ConstrainMemoryWrite, ConstrainLogic, ConstrainRange, ConstrainBlackBox,
         ConstrainBrilligCall, ConstrainSkippedCall, ConstrainCall, ConstrainReturn,
         ConstrainEnds, Check
<1>3. Circuits' = Circuits
  BY <1>2 DEF Circuits
<1>4. ASSUME mode = "honest", solved = TRUE
      PROVE  holds' = TRUE /\ (phase' = "constrain" => Retraced(Circuits, stack'))
  <2>1. Retraced(Circuits, stack)
    BY <1>1, <1>4 DEF HInv
  <2>2. CASE ConstrainCall
    BY <1>4, <2>1, <2>2, CallRetraces
  <2>3. CASE ConstrainReturn
    BY <1>4, <2>1, <2>3, ReturnRetraces
  <2>4. CASE ConstrainEnds
    <3>1. phase' = "done"
      BY <2>4 DEF ConstrainEnds
    <3> QED BY <1>4, <2>1, <2>4, <3>1, EndsZero
  <2>5. CASE ~(ConstrainCall \/ ConstrainReturn \/ ConstrainEnds)
    BY <1>4, <2>1, <2>5, OpcodesCheck DEF Constrain
  <2> QED BY <2>2, <2>3, <2>4, <2>5
<1> QED BY <1>1, <1>2, <1>3, <1>4 DEF HInv

\* A step of @compute.
LEMMA ComputeRetraces == ASSUME IInv, CInv, CInv', HInv, Compute PROVE HInv'
<1>1. phase = "compute" /\ outcome = "ok"
  BY DEF Compute, ComputeSatisfied, ComputeSolve, ComputeMemoryInit, ComputeMemoryRead,
         ComputeMemoryWrite, ComputeLogic, ComputeRange, ComputeBlackBox, ComputeBrilligCall,
         ComputeCall, ComputeReturn, ComputeUndefined, ComputeEnds, Computing, At, Running
<1>2. /\ prog' = prog /\ inputs' = inputs /\ mode' = mode /\ holds' = holds
      /\ solved = FALSE /\ holds = TRUE /\ History(Circuits, stack)
  <2>1. solved = FALSE /\ holds = TRUE /\ History(Circuits, stack)
    BY <1>1 DEF HInv
  <2>2. prog' = prog /\ inputs' = inputs /\ mode' = mode /\ holds' = holds
    BY DEF Compute, ComputeSatisfied, ComputeSolve, ComputeMemoryInit, ComputeMemoryRead,
           ComputeMemoryWrite, ComputeLogic, ComputeRange, ComputeBlackBox, ComputeBrilligCall,
           ComputeCall, ComputeReturn, ComputeUndefined, ComputeEnds, Replace
  <2> QED BY <2>1, <2>2
<1>3. Circuits' = Circuits
  BY <1>2 DEF Circuits
<1>4. CASE ComputeEnds
  <2>1. phase' = "constrain" /\ solved' = (Top.ref.st = "solving")
    BY <1>4 DEF ComputeEnds
  <2>2. solved' = TRUE => Retraced(Circuits, stack')
    BY <1>2, <1>4, EndsRetraced
  <2> QED BY <1>2, <1>3, <2>1, <2>2 DEF HInv
<1>5. CASE ~ComputeEnds
  <2>1. phase' = phase /\ solved' = solved
    BY <1>5 DEF Compute, ComputeSatisfied, ComputeSolve, ComputeMemoryInit, ComputeMemoryRead,
           ComputeMemoryWrite, ComputeLogic, ComputeRange, ComputeBlackBox, ComputeBrilligCall,
           ComputeCall, ComputeReturn, ComputeUndefined, Replace
  <2>2. outcome' = "ok" => History(Circuits, stack')
    BY <1>1, <1>2, <2>1, StepRecords
  <2>3. History(Circuits, stack)' <=> History(Circuits, stack')
    BY <1>2, <1>3 DEF History, Recorded
  <2> QED BY <1>1, <1>2, <2>1, <2>2, <2>3 DEF HInv
<1> QED BY <1>4, <1>5

\* Every step keeps the invariant.
LEMMA NextRetraces == ASSUME IInv, CInv, CInv', HInv, [Next]_vars PROVE HInv'
<1>1. CASE Translate
  <2>1. /\ phase = "translate" /\ phase' \in {"compute", "constrain"}
        /\ solved' = solved /\ holds' = holds
    BY <1>1 DEF Translate
  <2>2. History(Circuits, stack)'
    BY <1>1, TranslateRecords
  <2> QED BY <2>1, <2>2 DEF HInv
<1>2. CASE TranslationFails
  BY <1>2 DEF TranslationFails, HInv
<1>3. CASE Compute
  BY <1>3, ComputeRetraces
<1>4. CASE Constrain
  BY <1>4, ConstrainRetraces
<1>5. CASE UNCHANGED vars
  <2>1. /\ prog' = prog /\ inputs' = inputs /\ mode' = mode /\ phase' = phase /\ stack' = stack
        /\ outcome' = outcome /\ holds' = holds /\ solved' = solved
    BY <1>5 DEF vars
  <2>2. Circuits' = Circuits
    BY <2>1 DEF Circuits
  <2>3. History(Circuits, stack)' <=> History(Circuits, stack)
    BY <2>1, <2>2 DEF History, Recorded
  <2> QED BY <2>1, <2>2, <2>3 DEF HInv
<1>6. CASE Ended
  BY <1>5, <1>6 DEF Ended
<1> QED BY <1>1, <1>2, <1>3, <1>4, <1>5, <1>6 DEF Next

\* In every reachable state of every program: as long as ACVM executes the program there are
\* executions that the running frames of @compute continue, and once it has, @constrain goes
\* over them.
THEOREM HonestInvariance == Spec => [](IInv /\ CInv /\ HInv)
<1>1. Init => HInv
  BY DEF Init, HInv
<1>2. (IInv /\ CInv) /\ (IInv /\ CInv)' /\ HInv /\ [Next]_vars => HInv'
  BY NextRetraces
<1> QED BY <1>1, <1>2, ComputeInvariance, PTL DEF Spec

\* For every program, every set of inputs and every modulus the assumptions allow: when ACVM
\* executes the program, no choice of selectors makes @constrain refuse the struct that
\* @compute made.
THEOREM HonestIsAccepted == Spec => []HonestAccepted
<1>1. IInv /\ HInv => HonestAccepted
  BY DEF IInv, HInv, AcceptsExactlySolutions, HonestAccepted
<1> QED BY <1>1, HonestInvariance, PTL

---------------------------------------------------------------------------
\* The shape of the state

\* A member has a member's name: what an opcode writes it mentions, and the writer knows
\* nothing but inputs and members.
LEMMA LearntAreMentioned ==
    ASSUME NEW op, IsOpcode(op)
    PROVE  Learnt(op) \subseteq GetWitnesses(op)
<1>1. CASE op.op = "AssertZero"
  BY <1>1 DEF Learnt, Outputs, GetWitnesses
<1>2. CASE op.op \in {"AND", "XOR", "MemoryOp", "MemoryInit", "RANGE"}
  BY <1>2 DEF Learnt, Outputs, GetWitnesses
<1>3. CASE op.op \in {"BlackBox", "BrilligCall"}
  BY <1>3 DEF Learnt, Outputs, GetWitnesses
<1>4. CASE op.op = "Call"
  <2>1. ToSet(op.outs) \subseteq ToSet(op.ins \o op.outs)
    BY <1>4, ConcatHolds DEF IsOpcode
  <2> QED BY <1>4, <2>1 DEF Learnt, Outputs, GetWitnesses
<1> QED BY <1>1, <1>2, <1>3, <1>4 DEF IsOpcode

LEMMA MentionedIsMember ==
    ASSUME NEW c, NEW k \in DOMAIN c.opcodes
    PROVE  GetWitnesses(c.opcodes[k]) \subseteq Params(c) \cup Members(c)
<1>1. c.opcodes[k] \in ToSet(c.opcodes)
  BY DEF ToSet
<1> QED BY <1>1 DEF Members

LEMMA KnownAreMembers ==
    ASSUME NEW c, IsCircuit(c), Translates(c), NEW k \in 0 .. Len(c.opcodes)
    PROVE  WriterAfter(c, k).known \subseteq Params(c) \cup Members(c)
<1> DEFINE n == Len(c.opcodes)
           S == {m \in 0 .. n : WriterAfter(c, m).known \subseteq Params(c) \cup Members(c)}
<1>1. IsSequence(c.opcodes) /\ n \in Nat /\ DOMAIN c.opcodes = 1 .. n
  BY DEF IsCircuit, IsSequence
<1>2. 0 \in S
  <2>1. WriterAfter(c, 0).known = Params(c)
    BY WriterSteps DEF Writer
  <2> QED BY <1>1, <2>1
<1>3. ASSUME NEW m \in 0 .. n - 1, m \in S PROVE m + 1 \in S
  <2> DEFINE op == c.opcodes[m + 1]
  <2>1. m + 1 \in DOMAIN c.opcodes /\ (m + 1) - 1 = m /\ m + 1 \in 0 .. n
    BY <1>1
  <2>2. \/ WriterAfter(c, m + 1).known = WriterAfter(c, m).known \cup Outputs(op)
        \/ /\ op.op = "AssertZero"
           /\ WriterAfter(c, m + 1).known
                = WriterAfter(c, m).known \cup (CollectWitnesses(op.e) \ WriterAfter(c, m).known)
    <3> DEFINE j == m + 1
    <3>1. j \in DOMAIN c.opcodes /\ j - 1 = m
      BY <2>1
    <3> HIDE DEF j
    <3>2. /\ c.opcodes[j].op # "AssertZero" =>
                WriterAfter(c, j).known = WriterAfter(c, j - 1).known \cup Outputs(c.opcodes[j])
          /\ c.opcodes[j].op = "AssertZero" =>
                WriterAfter(c, j).known = WriterAfter(c, j - 1).known
                   \cup (CollectWitnesses(c.opcodes[j].e) \ WriterAfter(c, j - 1).known)
      BY <1>1, <3>1, KnownAfter
    <3> QED BY <3>1, <3>2 DEF j
  <2>3. WriterAfter(c, m + 1).known \subseteq WriterAfter(c, m).known \cup Learnt(op)
    <3> HIDE DEF op
    <3> QED BY <2>2 DEF Learnt
  <2>4. Learnt(op) \subseteq GetWitnesses(op)
    BY <2>1, LearntAreMentioned DEF IsCircuit
  <2>5. GetWitnesses(op) \subseteq Params(c) \cup Members(c)
    BY <2>1, MentionedIsMember
  <2> HIDE DEF op
  <2> QED BY <1>3, <2>1, <2>3, <2>4, <2>5
<1> HIDE DEF n
<1>4. \A m \in 0 .. n : m \in S
  <2> HIDE DEF S
  <2> QED BY <1>1, <1>2, <1>3, UpToInduction
<1> QED BY <1>4 DEF n

\* What the type invariant says of a frame, and of a frame and the one that it runs.
FrameTyped(cs, f) ==
    /\ f.c \in DOMAIN cs /\ f.pc \in 1 .. (Len(cs[f.c].opcodes) + 1)
    /\ DOMAIN f.vals \subseteq Params(cs[f.c]) \cup Members(cs[f.c])
    /\ Range(f.vals) \subseteq F
    /\ DOMAIN f.self.w \subseteq Members(cs[f.c]) \cup {Unit}
Typed(cs, fs) ==
    \A k \in DOMAIN fs :
       FrameTyped(cs, fs[k]) /\ (k > 1 => fs[k].c = cs[fs[k - 1].c].opcodes[fs[k - 1].pc].id)

\* A frame at n is replaced by another of the same circuit, and those above it are dropped.
LEMMA TypedTop ==
    ASSUME NEW cs, NEW fs, Typed(cs, fs), NEW n \in Nat \ {0}, 1 .. n \subseteq DOMAIN fs,
           NEW g, FrameTyped(cs, g), g.c = fs[n].c,
           NEW gs, gs = [k \in 1 .. n |-> IF k = n THEN g ELSE fs[k]]
    PROVE  Typed(cs, gs)
<1>1. DOMAIN gs = 1 .. n /\ gs[n] = g /\ \A k \in 1 .. n : k # n => gs[k] = fs[k]
  OBVIOUS
<1>2. \A k \in 1 .. n : k > 1 => k - 1 \in 1 .. n /\ k - 1 # n
  OBVIOUS
<1>3. ASSUME NEW k \in 1 .. n
      PROVE  FrameTyped(cs, gs[k]) /\ (k > 1 => gs[k].c = cs[gs[k - 1].c].opcodes[gs[k - 1].pc].id)
  <2>1. FrameTyped(cs, fs[k]) /\ (k > 1 => fs[k].c = cs[fs[k - 1].c].opcodes[fs[k - 1].pc].id)
    BY <1>3 DEF Typed
  <2>2. gs[k].c = fs[k].c /\ (k > 1 => gs[k - 1] = fs[k - 1])
    BY <1>1, <1>2
  <2>3. FrameTyped(cs, gs[k])
    BY <1>1, <2>1
  <2> QED BY <2>1, <2>2, <2>3
<1> QED BY <1>1, <1>3 DEF Typed

\* A callee is added.
LEMMA TypedCallee ==
    ASSUME NEW cs, NEW fs, Typed(cs, fs), NEW n \in Nat \ {0}, DOMAIN fs = 1 .. n,
           NEW g, FrameTyped(cs, g), g.c = cs[fs[n].c].opcodes[fs[n].pc].id,
           NEW gs, gs = [k \in 1 .. n + 1 |-> IF k = n + 1 THEN g ELSE fs[k]]
    PROVE  Typed(cs, gs)
<1>1. /\ DOMAIN gs = 1 .. n + 1 /\ gs[n + 1] = g /\ \A k \in 1 .. n : gs[k] = fs[k]
      /\ (n + 1) - 1 = n /\ n \in 1 .. n
  OBVIOUS
<1>2. ASSUME NEW k \in 1 .. n + 1
      PROVE  FrameTyped(cs, gs[k]) /\ (k > 1 => gs[k].c = cs[gs[k - 1].c].opcodes[gs[k - 1].pc].id)
  <2>1. CASE k = n + 1
    BY <1>1, <2>1
  <2>2. CASE k \in 1 .. n
    <3>1. gs[k] = fs[k] /\ (k > 1 => gs[k - 1] = fs[k - 1])
      BY <1>1, <2>2
    <3>2. FrameTyped(cs, fs[k]) /\ (k > 1 => fs[k].c = cs[fs[k - 1].c].opcodes[fs[k - 1].pc].id)
      BY <2>2 DEF Typed
    <3> QED BY <3>1, <3>2
  <2>3. k = n + 1 \/ k \in 1 .. n
    OBVIOUS
  <2> QED BY <2>1, <2>2, <2>3
<1> QED BY <1>1, <1>2 DEF Typed

\* ACVM and the memory blocks do not matter.
LEMMA TypedSame ==
    ASSUME NEW cs, NEW fs, Typed(cs, fs), NEW gs, DOMAIN gs = DOMAIN fs, NEW n \in Nat, DOMAIN fs = 1 .. n,
           \A k \in DOMAIN fs : /\ gs[k].c = fs[k].c /\ gs[k].pc = fs[k].pc
                                /\ gs[k].vals = fs[k].vals /\ gs[k].self = fs[k].self
    PROVE  Typed(cs, gs)
<1>1. ASSUME NEW k \in DOMAIN fs
      PROVE  FrameTyped(cs, gs[k]) /\ (k > 1 => gs[k].c = cs[gs[k - 1].c].opcodes[gs[k - 1].pc].id)
  <2>1. FrameTyped(cs, fs[k]) /\ (k > 1 => fs[k].c = cs[fs[k - 1].c].opcodes[fs[k - 1].pc].id)
    BY <1>1 DEF Typed
  <2>2. FrameTyped(cs, gs[k])
    BY <1>1, <2>1 DEF FrameTyped
  <2>3. k > 1 => k - 1 \in DOMAIN fs
    BY <1>1
  <2> QED BY <2>1, <2>2, <2>3
<1> QED BY <1>1 DEF Typed

\* The frames of @compute have this shape.
LEMMA ComputeTyped ==
    ASSUME NEW cs, WellFormed(cs), \A c \in DOMAIN cs : Translates(cs[c]),
           NEW fs, ComputeStackFits(cs, fs)
    PROVE  Typed(cs, fs)
<1> DEFINE n == Len(fs)
<1>1. n \in Nat /\ DOMAIN fs = 1 .. n
  BY DEF ComputeStackFits
<1>2. ASSUME NEW k \in 1 .. n PROVE FrameTyped(cs, fs[k])
  <2> DEFINE f == fs[k]
             c == cs[f.c]
             ws == Params(c) \cup Members(c)
             self == [w |-> Solved(c, f.vals), subs |-> f.self.subs]
  <2>1. ComputeFits(cs, f)
    BY <1>2 DEF ComputeStackFits
  <2>2. /\ f.c \in DOMAIN cs /\ f.pc \in 1 .. Len(c.opcodes) + 1 /\ IsValuation(f.vals)
        /\ DOMAIN f.vals = WriterAfter(c, f.pc - 1).known /\ f.self = self
    <3>1. /\ f.c \in DOMAIN cs /\ f.pc \in 1 .. Len(c.opcodes) + 1 /\ IsValuation(f.vals)
          /\ DOMAIN f.vals = WriterAfter(c, f.pc - 1).known
      BY <2>1 DEF ComputeFits
    <3>2. f = [c |-> f.c, pc |-> f.pc, vals |-> f.vals, self |-> self, mem |-> f.mem, ref |-> f.ref]
      BY <2>1 DEF ComputeFits
    <3> HIDE DEF self
    <3>3. f.self = self
      BY <3>2
    <3> QED BY <3>1, <3>3
  <2>3. IsCircuit(c) /\ Translates(c) /\ Len(c.opcodes) \in Nat
    BY <2>2 DEF WellFormed, IsCircuit, IsSequence
  <2>4. f.pc - 1 \in 0 .. Len(c.opcodes)
    BY <2>2, <2>3
  <2>5. DOMAIN f.vals \subseteq ws
    <3> HIDE DEF f, c
    <3> QED BY <2>2, <2>3, <2>4, KnownAreMembers
  <2>6. f.self.w = Solved(c, f.vals)
    BY <2>2
  <2>7. DOMAIN f.self.w \subseteq Members(c) \cup {Unit}
    BY <2>5, <2>6 DEF Solved
  <2>8. Range(f.vals) \subseteq F
    BY <2>2 DEF IsValuation, Range
  <2> HIDE DEF f
  <2> QED BY <2>2, <2>5, <2>7, <2>8 DEF FrameTyped, f
<1>3. ASSUME NEW k \in 1 .. n, k > 1
      PROVE  fs[k].c = cs[fs[k - 1].c].opcodes[fs[k - 1].pc].id
  <2>1. k - 1 \in 1 .. n - 1 /\ (k - 1) + 1 = k
    BY <1>1, <1>3
  <2>2. Awaits(cs, fs[k - 1], fs[(k - 1) + 1])
    BY <2>1 DEF ComputeStackFits
  <2> QED BY <2>1, <2>2 DEF Awaits
<1> QED BY <1>1, <1>2, <1>3 DEF Typed

---------------------------------------------------------------------------
\* Structs

\* Circuits and structs of theirs, with those of the subcomponents: the members have members'
\* names, and every call has a struct of the callee.
Structs(cs, S) ==
    \A c, s : <<c, s>> \in S =>
       /\ DOMAIN s.w \subseteq Members(cs[c]) \cup {Unit}
       /\ \A k \in DOMAIN cs[c].opcodes :
             cs[c].opcodes[k].op = "Call" => <<cs[c].opcodes[k].id, s.subs[k]>> \in S
IsStruct(cs, c, s) == \E S : Structs(cs, S) /\ <<c, s>> \in S

LEMMA StructUnfolds ==
    ASSUME NEW cs, NEW c, NEW s, IsStruct(cs, c, s)
    PROVE  /\ DOMAIN s.w \subseteq Members(cs[c]) \cup {Unit}
           /\ \A k \in DOMAIN cs[c].opcodes :
                 cs[c].opcodes[k].op = "Call" => IsStruct(cs, cs[c].opcodes[k].id, s.subs[k])
<1>1. PICK S : Structs(cs, S) /\ <<c, s>> \in S
  BY DEF IsStruct
<1>2. /\ DOMAIN s.w \subseteq Members(cs[c]) \cup {Unit}
      /\ \A k \in DOMAIN cs[c].opcodes :
            cs[c].opcodes[k].op = "Call" => <<cs[c].opcodes[k].id, s.subs[k]>> \in S
  BY <1>1 DEF Structs
<1> QED BY <1>1, <1>2 DEF IsStruct

LEMMA StructFolds ==
    ASSUME NEW cs, NEW c, NEW s, DOMAIN s.w \subseteq Members(cs[c]) \cup {Unit},
           \A k \in DOMAIN cs[c].opcodes :
              cs[c].opcodes[k].op = "Call" => IsStruct(cs, cs[c].opcodes[k].id, s.subs[k])
    PROVE  IsStruct(cs, c, s)
<1> DEFINE K == {k \in DOMAIN cs[c].opcodes : cs[c].opcodes[k].op = "Call"}
           G(k, S) == Structs(cs, S) /\ <<cs[c].opcodes[k].id, s.subs[k]>> \in S
           Of(k) == CHOOSE S : G(k, S)
           T == (UNION {Of(k) : k \in K}) \cup {<<c, s>>}
<1>1. ASSUME NEW k \in K PROVE G(k, Of(k))
  <2>1. \E S : G(k, S)
    BY <1>1 DEF IsStruct
  <2> HIDE DEF G
  <2> QED BY <2>1
<1> HIDE DEF Of
<1>2. ASSUME NEW k \in K PROVE Of(k) \subseteq T
  BY <1>2
<1>3. <<c, s>> \in T /\ \A x \in T : x = <<c, s>> \/ \E k \in K : x \in Of(k)
  OBVIOUS
<1> HIDE DEF T
<1>4. ASSUME NEW d, NEW t, <<d, t>> \in T
      PROVE  /\ DOMAIN t.w \subseteq Members(cs[d]) \cup {Unit}
             /\ \A k \in DOMAIN cs[d].opcodes :
                   cs[d].opcodes[k].op = "Call" => <<cs[d].opcodes[k].id, t.subs[k]>> \in T
  <2>1. CASE <<d, t>> = <<c, s>>
    <3>1. d = c /\ t = s
      BY <2>1
    <3>2. ASSUME NEW k \in K PROVE <<cs[c].opcodes[k].id, s.subs[k]>> \in T
      BY <1>1, <1>2, <3>2
    <3> QED BY <3>1, <3>2
  <2>2. CASE \E k \in K : <<d, t>> \in Of(k)
    <3>1. PICK j \in K : <<d, t>> \in Of(j)
      BY <2>2
    <3>2. Structs(cs, Of(j))
      BY <1>1
    <3>3. /\ DOMAIN t.w \subseteq Members(cs[d]) \cup {Unit}
          /\ \A k \in DOMAIN cs[d].opcodes :
                cs[d].opcodes[k].op = "Call" => <<cs[d].opcodes[k].id, t.subs[k]>> \in Of(j)
      BY <3>1, <3>2 DEF Structs
    <3> QED BY <1>2, <3>3
  <2> QED BY <1>3, <1>4, <2>1, <2>2
<1>5. Structs(cs, T)
  BY <1>4 DEF Structs
<1> QED BY <1>3, <1>5 DEF IsStruct

\* A frame of @compute has the structs of the callees that have returned.
Opened(cs, f) ==
    \A k \in 1 .. f.pc - 1 :
       cs[f.c].opcodes[k].op = "Call" =>
          k \in DOMAIN f.self.subs /\ IsStruct(cs, cs[f.c].opcodes[k].id, f.self.subs[k])
Opens(cs, fs) == fs[1].c = 1 /\ \A k \in DOMAIN fs : Opened(cs, fs[k])

LEMMA OpensTop ==
    ASSUME NEW cs, NEW fs, Opens(cs, fs), NEW n \in Nat \ {0}, 1 .. n \subseteq DOMAIN fs,
           NEW g, Opened(cs, g), g.c = fs[n].c,
           NEW gs, gs = [k \in 1 .. n |-> IF k = n THEN g ELSE fs[k]]
    PROVE  Opens(cs, gs)
<1>1. DOMAIN gs = 1 .. n /\ gs[n] = g /\ 1 \in 1 .. n /\ \A k \in 1 .. n : k # n => gs[k] = fs[k]
  OBVIOUS
<1>2. gs[1].c = 1
  BY <1>1 DEF Opens
<1> QED BY <1>1, <1>2 DEF Opens

\* What @constrain is given: a struct that @compute made, or one to be read from the outside.
Given(cs, md, f) == IF md = "honest" THEN IsStruct(cs, f.c, f.self) ELSE f.self = Struct

LEMMA GivenMembers ==
    ASSUME NEW cs, NEW md, NEW f, Given(cs, md, f)
    PROVE  DOMAIN f.self.w \subseteq Members(cs[f.c]) \cup {Unit}
<1>1. CASE md = "honest"
  BY <1>1, StructUnfolds DEF Given
<1>2. CASE md # "honest"
  <2>1. f.self.w = <<>>
    BY <1>2 DEF Given, Struct
  <2> QED BY <2>1
<1> QED BY <1>1, <1>2

\* A struct passed on to a call.
LEMMA GivenToCall ==
    ASSUME NEW f, Given(Circuits, mode, f), f.pc \in DOMAIN Circuits[f.c].opcodes,
           Circuits[f.c].opcodes[f.pc].op = "Call",
           NEW g, g.c = Circuits[f.c].opcodes[f.pc].id, g.self = Subcircuit(f)
    PROVE  Given(Circuits, mode, g)
<1>1. CASE mode = "honest"
  <2>1. IsStruct(Circuits, Circuits[f.c].opcodes[f.pc].id, f.self.subs[f.pc])
    BY <1>1, StructUnfolds DEF Given
  <2> QED BY <1>1, <2>1 DEF Given, Subcircuit
<1>2. CASE mode # "honest"
  BY <1>2 DEF Given, Subcircuit
<1> QED BY <1>1, <1>2
\* The code of an opcode that is not a call.
LEMMA OpcodeOpens ==
    ASSUME IInv, CInv, Running("compute"), ~AtEnd(Top), Op.op # "Call", Opens(Circuits, stack),
           NEW f, Moved(f), Replace(f, "ok")
    PROVE  Opens(Circuits, stack')
<1> DEFINE cs == Circuits
           fs == stack
           n == Len(stack)
           h == [f EXCEPT !.ref = Reference(Top, Op), !.pc = Top.pc + 1]
<1>1. stack' = [stack EXCEPT ![n] = h]
  BY ReplaceIs DEF Moved
<1>2. h.c = Top.c /\ h.pc = Top.pc + 1 /\ h.self.subs = Top.self.subs
  BY MovedProceeds
<1> HIDE DEF h
<1>3. /\ ComputeStackFits(cs, fs) /\ n \in 1 .. n /\ Top = fs[n] /\ DOMAIN fs = 1 .. n
  BY ComputeFacts
<1>4. /\ Top.pc \in Nat \ {0} /\ Op = cs[Top.c].opcodes[Top.pc]
  BY OpFacts
<1>5. n \in Nat \ {0} /\ fs = [k \in 1 .. n |-> fs[k]]
  BY <1>3 DEF ComputeStackFits
<1>6. stack' = [k \in 1 .. n |-> IF k = n THEN h ELSE fs[k]]
  <2> HIDE DEF n
  <2> QED BY <1>1, <1>3, <1>5
<1>7. Opened(cs, Top)
  BY <1>3 DEF Opens
<1>8. Opened(cs, h)
  <2>1. h.pc - 1 = Top.pc
    BY <1>2, <1>4
  <2>2. \A k \in 1 .. Top.pc : k = Top.pc \/ k \in 1 .. Top.pc - 1
    BY <1>4
  <2> QED BY <1>2, <1>4, <1>7, <2>1, <2>2 DEF Opened
<1> HIDE DEF cs, fs, n
<1>9. 1 .. n \subseteq DOMAIN fs /\ Opens(cs, fs) /\ h.c = fs[n].c
  BY <1>2, <1>3 DEF cs, fs
<1>10. Opens(cs, stack')
  BY <1>5, <1>6, <1>8, <1>9, OpensTop
<1> QED BY <1>10 DEF cs

\* The frame of a callee has no subcomponents yet.
LEMMA CallOpens ==
    ASSUME IInv, CInv, ComputeCall, Opens(Circuits, stack)
    PROVE  Opens(Circuits, stack')
<1> DEFINE n == Len(stack)
           args == [k \in DOMAIN Op.ins |-> Top.vals[Op.ins[k]]]
           ref == IF Top.ref.st \in {"solving", "stalled"} THEN AcvmCallee(Top.ref, Op) ELSE Top.ref
           h == Frame(Op.id, args, Struct, ref)
<1>1. Running("compute") /\ stack' = Append(stack, h)
  BY DEF ComputeCall, Computing, At
<1>2. ComputeStackFits(Circuits, stack) /\ DOMAIN stack = 1 .. n /\ n \in 1 .. n
  BY <1>1, ComputeFacts
<1>3. stack \in Seq(ToSet(stack)) /\ n \in Nat \ {0}
  BY <1>2 DEF ComputeStackFits
<1>4. h.pc = 1
  BY DEF Frame
<1> HIDE DEF h
<1>5. Opened(Circuits, h)
  BY <1>4 DEF Opened
<1>6. /\ DOMAIN stack' = 1 .. n + 1 /\ stack'[n + 1] = h /\ \A k \in 1 .. n : stack'[k] = stack[k]
      /\ 1 \in 1 .. n /\ \A k \in 1 .. n + 1 : k = n + 1 \/ k \in 1 .. n
  BY <1>1, <1>3
<1> QED BY <1>2, <1>5, <1>6 DEF Opens

\* The struct of a frame that has ended.
LEMMA EndedStruct ==
    ASSUME IInv, CInv, Running("compute"), AtEnd(Top), Opens(Circuits, stack),
           NEW s, s.subs = Top.self.subs, DOMAIN s.w \subseteq DOMAIN Top.self.w \cup {Unit}
    PROVE  IsStruct(Circuits, Top.c, s)
<1> DEFINE cs == Circuits
           c == Top.c
<1>1. /\ ComputeStackFits(cs, stack) /\ WellFormed(cs) /\ Len(stack) \in 1 .. Len(stack)
      /\ Top = stack[Len(stack)] /\ DOMAIN stack = 1 .. Len(stack)
      /\ \A i \in DOMAIN cs : Translates(cs[i])
  BY ComputeFacts
<1>2. FrameTyped(cs, Top)
  <2>1. Typed(cs, stack)
    <3> HIDE DEF cs
    <3> QED BY <1>1, ComputeTyped
  <2> QED BY <1>1, <2>1 DEF Typed
<1>3. DOMAIN s.w \subseteq Members(cs[c]) \cup {Unit}
  BY <1>2 DEF FrameTyped
<1>4. /\ Opened(cs, Top) /\ Top.pc > Len(cs[c].opcodes) /\ Top.pc \in 1 .. Len(cs[c].opcodes) + 1
      /\ IsSequence(cs[c].opcodes)
  BY <1>1, <1>2 DEF Opens, AtEnd, Code, FrameTyped, WellFormed, IsCircuit
<1>5. DOMAIN cs[c].opcodes \subseteq 1 .. Top.pc - 1
  <2> DEFINE len == Len(cs[c].opcodes)
  <2>1. len \in Nat /\ DOMAIN cs[c].opcodes = 1 .. len /\ Top.pc > len /\ Top.pc \in 1 .. len + 1
    BY <1>4 DEF IsSequence
  <2> HIDE DEF len
  <2> QED BY <2>1
<1>6. \A k \in DOMAIN cs[c].opcodes :
         cs[c].opcodes[k].op = "Call" => IsStruct(cs, cs[c].opcodes[k].id, s.subs[k])
  BY <1>4, <1>5 DEF Opened
<1> HIDE DEF cs, c
<1>7. IsStruct(cs, c, s)
  BY <1>3, <1>6, StructFolds
<1> QED BY <1>7 DEF cs, c

\* The caller gets the callee's struct.
LEMMA ReturnOpens ==
    ASSUME IInv, CInv, ComputeReturn, Opens(Circuits, stack)
    PROVE  Opens(Circuits, stack')
<1> DEFINE cs == Circuits
           fs == stack
           n == Len(stack)
           m == n - 1
           f == Caller
           code == cs[f.c].opcodes
<1>1. Running("compute") /\ n > 1 /\ AtEnd(Top)
  BY DEF ComputeReturn
<1>2. PICK h : /\ stack' = [k \in 1 .. m |-> IF k = m THEN h ELSE fs[k]]
               /\ h.c = f.c /\ h.pc = f.pc + 1
               /\ h.self.subs = With(f.self.subs, f.pc, Top.self)
  BY ReturnIs
<1>3. /\ m \in 1 .. n /\ n \in Nat /\ f = fs[m]
      /\ ComputeFits(cs, f) /\ Awaits(cs, f, Top) /\ DOMAIN fs = 1 .. n
  BY <1>1, CallerFacts, ComputeFacts
<1>4. IsStruct(cs, code[f.pc].id, Top.self)
  <2>1. IsStruct(cs, Top.c, Top.self)
    BY <1>1, EndedStruct
  <2> QED BY <1>3, <2>1 DEF Awaits
<1>5. f.pc \in Nat \ {0}
  BY <1>3 DEF ComputeFits
<1>6. Opened(cs, f)
  BY <1>3 DEF Opens
<1>7. Opened(cs, h)
  <2> DEFINE subs == f.self.subs
             new == With(subs, f.pc, Top.self)
  <2>1. f.pc \in DOMAIN new /\ new[f.pc] = Top.self
        /\ \A k \in DOMAIN subs : k # f.pc => k \in DOMAIN new /\ new[k] = subs[k]
    BY DEF With
  <2>2. h.pc - 1 = f.pc /\ \A k \in 1 .. f.pc : k = f.pc \/ (k \in 1 .. f.pc - 1 /\ k # f.pc)
    BY <1>2, <1>5
  <2>3. \A k \in 1 .. f.pc - 1 :
           code[k].op = "Call" => k \in DOMAIN subs /\ IsStruct(cs, code[k].id, subs[k])
    BY <1>6 DEF Opened
  <2>4. h.c = f.c /\ h.self.subs = new
    BY <1>2
  <2> HIDE DEF new, subs, f, cs
  <2>5. \A k \in 1 .. f.pc :
           code[k].op = "Call" => k \in DOMAIN new /\ IsStruct(cs, code[k].id, new[k])
    BY <1>4, <2>1, <2>2, <2>3
  <2> QED BY <2>2, <2>4, <2>5 DEF Opened
<1> HIDE DEF cs, fs, f
<1>8. m \in Nat \ {0} /\ 1 .. m \subseteq DOMAIN fs /\ Opens(cs, fs) /\ h.c = fs[m].c
  <2>1. Opens(cs, fs)
    BY DEF cs, fs
  <2> HIDE DEF n
  <2> QED BY <1>2, <1>3, <2>1
<1> HIDE DEF n
<1>9. Opens(cs, stack')
  <2> HIDE DEF m
  <2> QED BY <1>2, <1>7, <1>8, OpensTop
<1> QED BY <1>9 DEF cs

\* The struct that @compute of the entry circuit has made is given to @constrain.
LEMMA EndsGiven ==
    ASSUME IInv, CInv, ComputeEnds, Opens(Circuits, stack)
    PROVE  /\ Typed(Circuits, stack')
           /\ \A k \in DOMAIN stack' : Given(Circuits, "honest", stack'[k])
<1> DEFINE cs == Circuits
           w == Top.self.w
           all == IF NeedsUnit(1, cs[1]) THEN With(w, Unit, 0) ELSE w
           s == [Top.self EXCEPT !.w = all]
           h == Frame(1, inputs, s, Solver(<<>>))
<1>1. Running("compute") /\ AtEnd(Top) /\ Len(stack) = 1 /\ stack' = <<h>>
  BY DEF ComputeEnds
<1>2. /\ WellFormed(cs) /\ ComputeFits(cs, Top) /\ inputs \in [1 .. Cardinality(Params(cs[1])) -> F]
      /\ Top = stack[1]
  BY <1>1, ComputeFacts
<1>3. s.w = all /\ s.subs = Top.self.subs
  <2> DEFINE self == [w |-> Solved(cs[Top.c], Top.vals), subs |-> Top.self.subs]
  <2>1. Top = [c |-> Top.c, pc |-> Top.pc, vals |-> Top.vals, self |-> self, mem |-> Top.mem,
               ref |-> Top.ref]
    BY <1>2 DEF ComputeFits
  <2>2. Top.self = self
    <3> HIDE DEF self
    <3> QED BY <2>1
  <2> HIDE DEF all
  <2> QED BY <2>2
<1>4. DOMAIN all \subseteq DOMAIN w \cup {Unit}
  BY DEF With
<1> HIDE DEF s, all
<1>5. IsStruct(cs, Top.c, s)
  BY <1>1, <1>3, <1>4, EndedStruct
<1>6. Top.c = 1 /\ 1 \in DOMAIN cs /\ IsCircuit(cs[1])
  BY <1>2 DEF Opens, WellFormed
<1>7. h.c = 1 /\ h.pc = 1 /\ h.self = s
      /\ h.vals = [x \in Params(cs[1]) |-> inputs[ParamIndex(cs[1], x)]]
  BY DEF Frame
<1> HIDE DEF h
<1>8. Given(cs, "honest", h)
  BY <1>5, <1>6, <1>7 DEF Given
<1>9. FrameTyped(cs, h)
  <2>1. Range(h.vals) \subseteq F /\ DOMAIN h.vals = Params(cs[1])
    BY <1>2, <1>6, <1>7, ParamIndexInRange DEF Range
  <2>2. DOMAIN h.self.w \subseteq Members(cs[h.c]) \cup {Unit}
    BY <1>8, GivenMembers
  <2>3. 1 \in 1 .. (Len(cs[1].opcodes) + 1)
    BY <1>6 DEF IsCircuit, IsSequence
  <2> QED BY <1>6, <1>7, <2>1, <2>2, <2>3 DEF FrameTyped
<1>10. DOMAIN stack' = {1} /\ stack'[1] = h
  BY <1>1
<1> HIDE DEF cs
<1>11. Typed(cs, stack') /\ \A k \in DOMAIN stack' : Given(cs, "honest", stack'[k])
  BY <1>8, <1>9, <1>10 DEF Typed
<1> QED BY <1>11 DEF cs

LEMMA StopsTyped ==
    ASSUME IInv, CInv, Compute, phase' = "compute", outcome' # "ok", Typed(Circuits, stack)
    PROVE  Typed(Circuits, stack')
<1> DEFINE n == Len(stack)
           fs == stack
           gs == stack'
<1>1. Running("compute")
  BY DEF Compute, ComputeSatisfied, ComputeSolve, ComputeMemoryInit, ComputeMemoryRead,
         ComputeMemoryWrite, ComputeLogic, ComputeRange, ComputeBlackBox, ComputeBrilligCall,
         ComputeCall, ComputeReturn, ComputeUndefined, ComputeEnds, Computing, At
<1>2. ComputeStackFits(Circuits, fs) /\ DOMAIN fs = 1 .. n /\ n \in 1 .. n /\ Top = fs[n]
  BY <1>1, ComputeFacts
<1>3. n \in Nat
  BY <1>2 DEF ComputeStackFits
<1>4. ASSUME NEW out, out # "ok", Replace(Top, out) PROVE Typed(Circuits, gs)
  <2>1. PICK g : /\ gs = [fs EXCEPT ![n] = g]
                 /\ g.c = Top.c /\ g.pc = Top.pc /\ g.vals = Top.vals /\ g.self = Top.self
    BY <1>1, <1>4, StoppedIs
  <2> HIDE DEF n, fs, gs
  <2>2. /\ DOMAIN gs = DOMAIN fs
        /\ \A k \in DOMAIN fs : /\ gs[k].c = fs[k].c /\ gs[k].pc = fs[k].pc
                                /\ gs[k].vals = fs[k].vals /\ gs[k].self = fs[k].self
    BY <1>2, <2>1
  <2>3. Typed(Circuits, fs)
    BY DEF fs
  <2> QED BY <1>2, <1>3, <2>2, <2>3, TypedSame
<1>5. CASE ComputeUndefined /\ ~\E out : out # "ok" /\ Replace(Top, out)
  <2> DEFINE m == n - 1
             r == Returned(Code(Caller)[Caller.pc])
             g == [Caller EXCEPT !.ref = r]
  <2>1. n > 1 /\ gs = [fs EXCEPT ![n - 1].ref = Returned(Code(Caller)[Caller.pc])]
    BY <1>5, "undefined" # "ok" DEF ComputeUndefined
  <2>2. /\ m \in 1 .. n /\ Caller = fs[m] /\ ComputeFits(Circuits, Caller)
    BY <1>1, <2>1, CallerFacts
  <2>3. gs = [fs EXCEPT ![m] = g]
    BY <2>1, <2>2
  <2>4. g.c = Caller.c /\ g.pc = Caller.pc /\ g.vals = Caller.vals /\ g.self = Caller.self
    <3> DEFINE f == Caller
               self == [w |-> Solved(Circuits[f.c], f.vals), subs |-> f.self.subs]
    <3>1. f = [c |-> f.c, pc |-> f.pc, vals |-> f.vals, self |-> self, mem |-> f.mem, ref |-> f.ref]
      BY <2>2 DEF ComputeFits
    <3> HIDE DEF f, self, r
    <3> QED BY <3>1 DEF f
  <2> HIDE DEF g, m, n, fs, gs
  <2>5. /\ DOMAIN gs = DOMAIN fs
        /\ \A k \in DOMAIN fs : /\ gs[k].c = fs[k].c /\ gs[k].pc = fs[k].pc
                                /\ gs[k].vals = fs[k].vals /\ gs[k].self = fs[k].self
    BY <1>2, <2>2, <2>3, <2>4
  <2>6. Typed(Circuits, fs)
    BY DEF fs
  <2>7. Typed(Circuits, gs)
    BY <1>2, <1>3, <2>5, <2>6, TypedSame
  <2> QED BY <2>7 DEF gs
<1>6. CASE \E out : out # "ok" /\ Replace(Top, out)
  BY <1>4, <1>6
<1>7. CASE ~\E out : out # "ok" /\ Replace(Top, out)
  <2>1. ASSUME NEW f, NEW out, Replace(f, out) PROVE out = outcome'
    BY <2>1 DEF Replace
  <2>2. ComputeUndefined
    <3>1. ~Replace(Top, "trapped")
      BY <1>7, "trapped" # "ok"
    <3>2. \A f : ~Replace(f, "ok")
      BY <2>1
    <3>3. ~ComputeSolve
      BY <3>1, <3>2 DEF ComputeSolve
    <3>4. ~ComputeBrilligCall
      BY <3>1, <3>2 DEF ComputeBrilligCall
    <3>5. ~(ComputeCall \/ ComputeReturn)
      BY <1>1 DEF ComputeCall, ComputeReturn, Running
    <3>6. ~ComputeEnds
      BY DEF ComputeEnds
    <3> QED BY <3>2, <3>3, <3>4, <3>5, <3>6
            DEF Compute, ComputeSatisfied, ComputeMemoryInit, ComputeMemoryRead,
                ComputeMemoryWrite, ComputeLogic, ComputeRange, ComputeBlackBox
  <2> QED BY <1>5, <1>7, <2>2
<1> QED BY <1>6, <1>7

---------------------------------------------------------------------------
\* @constrain

AllGiven(fs) == \A k \in DOMAIN fs : Given(Circuits, mode, fs[k])

\* The values that are read: felts, of witnesses that an opcode mentions.
LEMMA ClaimTyped ==
    ASSUME IInv, NEW ops, Constraining(ops), Typed(Circuits, stack),
           NEW v, v \in Claims(Op) \/ v = Top.vals
    PROVE  /\ DOMAIN v \subseteq Params(Circuits[Top.c]) \cup Members(Circuits[Top.c])
           /\ Range(v) \subseteq F
<1> DEFINE c == Circuits[Top.c]
           ws == Params(c) \cup Members(c)
<1>1. /\ StackFits(Circuits, stack) /\ FrameFits(Circuits, Top) /\ Top.pc \in DOMAIN c.opcodes
      /\ Op = c.opcodes[Top.pc]
  BY Running_
<1>2. IsValuation(Top.vals) /\ DOMAIN Top.vals \subseteq ws
  <2>1. Len(stack) \in 1 .. Len(stack) /\ DOMAIN stack = 1 .. Len(stack)
    BY <1>1 DEF StackFits
  <2>2. FrameTyped(Circuits, Top)
    BY <2>1 DEF Typed, Top
  <2> QED BY <1>1, <2>2 DEF FrameTyped, FrameFits
<1>3. IsValuation(v)
  BY <1>2, ClaimIsValuation
<1>4. DOMAIN v \subseteq DOMAIN Top.vals \cup GetWitnesses(Op)
  <2>1. CASE v \in Claims(Op)
    <3>1. PICK g \in [GetWitnesses(Op) \ DOMAIN Top.vals -> F] : v = Override(Top.vals, g)
      BY <2>1 DEF Claims, Read
    <3> QED BY <3>1 DEF Override
  <2>2. CASE v = Top.vals
    BY <2>2
  <2> QED BY <2>1, <2>2
<1>5. GetWitnesses(Op) \subseteq ws
  <2> HIDE DEF c
  <2> QED BY <1>1, MentionedIsMember
<1> QED BY <1>2, <1>3, <1>4, <1>5 DEF IsValuation, Range

\* The code of an opcode.
LEMMA CheckTyped ==
    ASSUME IInv, NEW ops, Constraining(ops), Typed(Circuits, stack), AllGiven(stack),
           NEW v, v \in Claims(Op) \/ v = Top.vals, NEW mem, NEW met, Check(v, mem, met)
    PROVE  Typed(Circuits, stack') /\ AllGiven(stack')
<1> DEFINE cs == Circuits
           fs == stack
           n == Len(stack)
           g == Advanced(Top, v, mem)
<1>1. /\ StackFits(cs, fs) /\ FrameFits(cs, Top) /\ Top.pc \in DOMAIN cs[Top.c].opcodes
      /\ WellFormed(cs)
  BY Running_
<1>2. n \in Nat \ {0} /\ DOMAIN fs = 1 .. n /\ n \in 1 .. n /\ Top = fs[n] /\ fs = [k \in 1 .. n |-> fs[k]]
  BY <1>1 DEF StackFits, Top
<1>3. g.c = Top.c /\ g.pc = Top.pc + 1 /\ g.vals = v /\ g.self = Top.self
  BY AdvancedIs
<1>4. stack' = [stack EXCEPT ![n] = g]
  BY DEF Check
<1> HIDE DEF g
<1>5. stack' = [k \in 1 .. n |-> IF k = n THEN g ELSE fs[k]]
  <2> HIDE DEF n
  <2> QED BY <1>2, <1>4
<1>6. FrameTyped(cs, Top) /\ Given(cs, mode, Top)
  BY <1>2 DEF Typed, AllGiven
<1>7. FrameTyped(cs, g)
  <2>1. Top.c \in DOMAIN cs /\ g.pc \in 1 .. Len(cs[Top.c].opcodes) + 1
    BY <1>1, <1>3, <1>6 DEF FrameTyped, WellFormed, IsCircuit, IsSequence
  <2>2. DOMAIN v \subseteq Params(cs[Top.c]) \cup Members(cs[Top.c]) /\ Range(v) \subseteq F
    BY ClaimTyped
  <2> HIDE DEF cs
  <2> QED BY <1>3, <1>6, <2>1, <2>2 DEF FrameTyped
<1>8. Given(cs, mode, g)
  BY <1>3, <1>6 DEF Given
<1>9. Typed(cs, stack')
  <2>1. Typed(cs, fs) /\ 1 .. n \subseteq DOMAIN fs /\ g.c = fs[n].c
    BY <1>2, <1>3
  <2> HIDE DEF cs, fs, n
  <2> QED BY <1>2, <1>5, <1>7, <2>1, TypedTop
<1>10. \A k \in 1 .. n : Given(cs, mode, stack'[k])
  BY <1>2, <1>5, <1>8 DEF AllGiven
<1>11. DOMAIN stack' = 1 .. n
  BY <1>5
<1> QED BY <1>9, <1>10, <1>11 DEF AllGiven

LEMMA AppendIs ==
    ASSUME NEW fs, fs \in Seq(ToSet(fs)), NEW h
    PROVE  Append(fs, h) = [k \in 1 .. Len(fs) + 1 |-> IF k = Len(fs) + 1 THEN h ELSE fs[k]]
<1> DEFINE n == Len(fs)
           new == Append(fs, h)
<1>1. n \in Nat /\ DOMAIN new = 1 .. n + 1 /\ new[n + 1] = h /\ \A k \in 1 .. n : new[k] = fs[k]
  OBVIOUS
<1>2. new = [k \in 1 .. n + 1 |-> new[k]]
  <2>1. new \in Seq(ToSet(fs) \cup {h})
    OBVIOUS
  <2> HIDE DEF new
  <2> QED BY <1>1, <2>1
<1>3. \A k \in 1 .. n + 1 : new[k] = IF k = n + 1 THEN h ELSE fs[k]
  <2>1. \A k \in 1 .. n + 1 : k = n + 1 \/ (k \in 1 .. n /\ k # n + 1)
    BY <1>1
  <2> HIDE DEF new, n
  <2> QED BY <1>1, <2>1
<1> HIDE DEF new
<1> QED BY <1>2, <1>3 DEF new, n

\* A call that is made.
LEMMA CallTyped ==
    ASSUME IInv, ConstrainCall, Typed(Circuits, stack), AllGiven(stack)
    PROVE  Typed(Circuits, stack') /\ AllGiven(stack')
<1> DEFINE ops == {"Call"}
           cs == Circuits
           fs == stack
           n == Len(stack)
           f == Top
           code == cs[f.c].opcodes
<1>0. \A op \in ops : op = "Call"
  OBVIOUS
<1>1. Constraining(ops)
  BY DEF ConstrainCall
<1> HIDE DEF ops
<1>2. PICK v \in Claims(Op) :
         stack' = Append([stack EXCEPT ![Len(stack)].vals = v],
                         Frame(Op.id, [k \in DOMAIN Op.ins |-> v[Op.ins[k]]],
                               Subcircuit(Top), Solver(<<>>)))
  BY DEF ConstrainCall
<1> DEFINE args == [k \in DOMAIN Op.ins |-> v[Op.ins[k]]]
           h == Frame(Op.id, args, Subcircuit(f), Solver(<<>>))
           g == [f EXCEPT !.vals = v]
           mid == [k \in 1 .. n |-> IF k = n THEN g ELSE fs[k]]
<1>3. /\ StackFits(cs, fs) /\ FrameFits(cs, f) /\ WellFormed(cs) /\ Op.op = "Call"
      /\ f.pc \in DOMAIN code /\ Op = code[f.pc] /\ Checked(cs, code, f.pc) /\ IsOpcode(Op)
  BY <1>0, <1>1, Running_
<1>4. n \in Nat \ {0} /\ DOMAIN fs = 1 .. n /\ n \in 1 .. n /\ f = fs[n] /\ fs = [k \in 1 .. n |-> fs[k]]
  BY <1>3 DEF StackFits, Top
<1>5. FrameTyped(cs, f) /\ Given(cs, mode, f)
  BY <1>4 DEF Typed, AllGiven
<1>6. g.c = f.c /\ g.pc = f.pc /\ g.vals = v /\ g.self = f.self
  <2> DEFINE c == f.c
             pc == f.pc
             vals == f.vals
             self == f.self
             mem == f.mem
             ref == f.ref
  <2>1. f = [c |-> c, pc |-> pc, vals |-> vals, self |-> self, mem |-> mem, ref |-> ref]
    BY <1>3, FrameRecord
  <2> HIDE DEF c, pc, vals, self, mem, ref, f
  <2>2. g = [c |-> c, pc |-> pc, vals |-> v, self |-> self, mem |-> mem, ref |-> ref]
    BY <2>1
  <2> HIDE DEF g
  <2>3. g.c = c /\ g.pc = pc /\ g.vals = v /\ g.self = self
    BY <2>2
  <2> QED BY <2>3 DEF c, pc, self
<1>7. FrameTyped(cs, g) /\ Given(cs, mode, g)
  <2>1. DOMAIN v \subseteq Params(cs[f.c]) \cup Members(cs[f.c]) /\ Range(v) \subseteq F
    BY <1>1, ClaimTyped
  <2> HIDE DEF g, f, cs
  <2> QED BY <1>5, <1>6, <2>1 DEF FrameTyped, Given
<1>8. mid = [stack EXCEPT ![Len(stack)].vals = v]
  <2>1. [stack EXCEPT ![Len(stack)].vals = v] = [fs EXCEPT ![n] = g]
    BY <1>4
  <2> HIDE DEF n, g
  <2> QED BY <1>4, <2>1
<1>9. /\ h.c = Op.id /\ h.pc = 1 /\ h.self = Subcircuit(f) /\ cs[Op.id] = cs[h.c]
      /\ h.vals = [w \in Params(cs[Op.id]) |-> args[ParamIndex(cs[Op.id], w)]]
  BY DEF Frame
<1> HIDE DEF h
<1>10. Given(cs, mode, h)
  BY <1>3, <1>5, <1>9, GivenToCall
<1>11. FrameTyped(cs, h)
  <2>1. Op.id \in DOMAIN cs /\ IsCircuit(cs[Op.id])
    BY <1>3 DEF Checked, WellFormed
  <2>2. args \in [1 .. Cardinality(Params(cs[Op.id])) -> F]
    <3>1. IsValuation(v) /\ GetWitnesses(Op) \subseteq DOMAIN v
      BY <1>1, ClaimIsValuation
    <3>2. Op.ins \in Seq(Nat) /\ Op.outs \in Seq(Nat)
      BY <1>3 DEF IsOpcode
    <3>3. ToSet(Op.ins) \subseteq DOMAIN v
      <4>1. ToSet(Op.ins \o Op.outs) \subseteq DOMAIN v
        BY <1>3, <3>1 DEF GetWitnesses
      <4> QED BY <3>2, <4>1, ConcatHolds
    <3>4. \A k \in DOMAIN Op.ins : v[Op.ins[k]] \in F
      BY <3>1, <3>3 DEF ToSet, IsValuation
    <3>5. Len(Op.ins) = Cardinality(Params(cs[Op.id]))
      BY <1>3 DEF Checked
    <3>6. DOMAIN Op.ins = 1 .. Cardinality(Params(cs[Op.id]))
      BY <3>2, <3>5
    <3> QED BY <3>4, <3>6
  <2> HIDE DEF args
  <2>3. Range(h.vals) \subseteq F /\ DOMAIN h.vals = Params(cs[Op.id])
    BY <1>9, <2>1, <2>2, ParamIndexInRange DEF Range
  <2>4. DOMAIN h.self.w \subseteq Members(cs[h.c]) \cup {Unit}
    BY <1>10, GivenMembers
  <2>5. 1 \in 1 .. (Len(cs[Op.id].opcodes) + 1)
    BY <2>1 DEF IsCircuit, IsSequence
  <2> HIDE DEF cs
  <2> QED BY <1>9, <2>1, <2>3, <2>4, <2>5 DEF FrameTyped
<1>12. stack' = [k \in 1 .. n + 1 |-> IF k = n + 1 THEN h ELSE mid[k]]
  <2>1. stack' = Append(mid, h)
    BY <1>2, <1>8 DEF h
  <2>2. mid \in Seq(ToSet(mid)) /\ Len(mid) = n
    <3>1. \A k \in 1 .. n : mid[k] \in ToSet(mid)
      BY DEF ToSet
    <3>2. mid = [k \in 1 .. n |-> mid[k]]
      OBVIOUS
    <3> HIDE DEF mid, n
    <3>3. mid \in [1 .. n -> ToSet(mid)]
      BY <3>1, <3>2
    <3> QED BY <1>4, <3>3, ByElements
  <2> HIDE DEF mid, n
  <2> QED BY <2>1, <2>2, AppendIs
<1>13. Typed(cs, stack')
  <2>1. Typed(cs, mid)
    <3>1. Typed(cs, fs) /\ 1 .. n \subseteq DOMAIN fs /\ g.c = fs[n].c
      BY <1>4, <1>6
    <3> HIDE DEF cs, fs, n, g
    <3> QED BY <1>4, <1>7, <3>1, TypedTop
  <2>2. DOMAIN mid = 1 .. n /\ mid[n] = g
    BY <1>4
  <2>3. h.c = cs[mid[n].c].opcodes[mid[n].pc].id
    BY <1>3, <1>6, <1>9, <2>2
  <2> HIDE DEF cs, mid, n, g
  <2> QED BY <1>4, <1>11, <1>12, <2>1, <2>2, <2>3, TypedCallee
<1>14. \A k \in 1 .. n + 1 : Given(cs, mode, stack'[k])
  <2>1. \A k \in 1 .. n : Given(cs, mode, mid[k])
    BY <1>4, <1>7 DEF AllGiven
  <2>2. \A k \in 1 .. n + 1 : k = n + 1 \/ (k \in 1 .. n /\ k # n + 1)
    BY <1>4
  <2> HIDE DEF mid, n, cs
  <2> QED BY <1>10, <1>12, <2>1, <2>2
<1>15. DOMAIN stack' = 1 .. n + 1
  BY <1>12
<1> QED BY <1>13, <1>14, <1>15 DEF AllGiven

\* A return.
LEMMA ReturnTyped ==
    ASSUME IInv, ConstrainReturn, Typed(Circuits, stack), AllGiven(stack)
    PROVE  Typed(Circuits, stack') /\ AllGiven(stack')
<1> DEFINE cs == Circuits
           fs == stack
           n == Len(stack)
           m == n - 1
           f == Caller
           g == [f EXCEPT !.pc = @ + 1]
<1>1. phase = "constrain" /\ n > 1 /\ stack' = Append(SubSeq(stack, 1, n - 2), g)
  BY DEF ConstrainReturn, Running
<1>2. StackFits(cs, fs) /\ WellFormed(cs)
  BY <1>1 DEF IInv
<1>3. fs \in Seq(ToSet(fs)) /\ n \in Nat /\ DOMAIN fs = 1 .. n
  BY <1>2 DEF StackFits
<1>4. m \in Nat \ {0} /\ m \in 1 .. n /\ m \in 1 .. n - 1 /\ 1 .. m \subseteq DOMAIN fs /\ f = fs[m]
  <2>1. f = fs[n - 1]
    BY DEF Caller
  <2> HIDE DEF n, f, fs
  <2> QED BY <1>1, <1>3, <2>1
<1>5. stack' = [k \in 1 .. m |-> IF k = m THEN g ELSE fs[k]]
  <2> HIDE DEF g
  <2> QED BY <1>1, <1>3, StackReturns
<1>6. FrameFits(cs, f) /\ f.pc \in DOMAIN cs[f.c].opcodes
  <2>1. FrameFits(cs, fs[m]) /\ Waits(cs, fs[m], fs[m + 1])
    <3> HIDE DEF cs, m
    <3> QED BY <1>2, <1>4 DEF StackFits
  <2> QED BY <1>4, <2>1 DEF Waits
<1>7. g.c = f.c /\ g.pc = f.pc + 1 /\ g.vals = f.vals /\ g.self = f.self
  <2> DEFINE c == f.c
             pc == f.pc
             vals == f.vals
             self == f.self
             mem == f.mem
             ref == f.ref
             next == f.pc + 1
  <2>1. f = [c |-> c, pc |-> pc, vals |-> vals, self |-> self, mem |-> mem, ref |-> ref]
    BY <1>6, FrameRecord
  <2>2. g = [f EXCEPT !.pc = next]
    OBVIOUS
  <2> HIDE DEF c, pc, vals, self, mem, ref, f, g, next
  <2>3. g = [c |-> c, pc |-> next, vals |-> vals, self |-> self, mem |-> mem, ref |-> ref]
    BY <2>1, <2>2
  <2>4. g.c = c /\ g.pc = next /\ g.vals = vals /\ g.self = self
    BY <2>3
  <2> QED BY <2>4 DEF c, next, vals, self
<1> HIDE DEF g
<1>8. FrameTyped(cs, f) /\ Given(cs, mode, f)
  BY <1>4 DEF Typed, AllGiven
<1>9. FrameTyped(cs, g) /\ Given(cs, mode, g)
  <2>1. f.c \in DOMAIN cs /\ g.pc \in 1 .. Len(cs[f.c].opcodes) + 1
    BY <1>2, <1>6, <1>7, <1>8 DEF FrameTyped, WellFormed, IsCircuit, IsSequence
  <2> HIDE DEF cs, f
  <2> QED BY <1>7, <1>8, <2>1 DEF FrameTyped, Given
<1>10. Typed(cs, stack')
  <2>1. Typed(cs, fs) /\ g.c = fs[m].c
    BY <1>4, <1>7
  <2> HIDE DEF cs, fs, m
  <2> QED BY <1>4, <1>5, <1>9, <2>1, TypedTop
<1>11. DOMAIN stack' = 1 .. m /\ \A k \in 1 .. m : Given(cs, mode, stack'[k])
  <2>1. \A k \in 1 .. m : Given(cs, mode, fs[k])
    BY <1>4 DEF AllGiven
  <2> HIDE DEF cs, fs, m
  <2> QED BY <1>5, <1>9, <2>1
<1> QED BY <1>10, <1>11 DEF AllGiven

\* A step of @constrain.
LEMMA ConstrainTyped ==
    ASSUME IInv, Constrain, Typed(Circuits, stack), AllGiven(stack)
    PROVE  Typed(Circuits, stack') /\ AllGiven(stack')
<1>1. ASSUME NEW ops, Constraining(ops), \E v \in Claims(Op) : \E mem, met : Check(v, mem, met)
      PROVE  Typed(Circuits, stack') /\ AllGiven(stack')
  <2>1. PICK v \in Claims(Op) : \E mem, met : Check(v, mem, met)
    BY <1>1
  <2>2. PICK mem, met : Check(v, mem, met)
    BY <2>1
  <2> QED BY <1>1, <2>2, CheckTyped
<1>2. CASE ConstrainBrilligCall
  <2>1. Constraining({"BrilligCall"}) /\ Check(Top.vals, Top.mem, TRUE)
    BY <1>2 DEF ConstrainBrilligCall
  <2> QED BY <2>1, CheckTyped
<1>3. CASE ConstrainCall
  BY <1>3, CallTyped
<1>4. CASE ConstrainReturn
  BY <1>4, ReturnTyped
<1>5. CASE ConstrainEnds
  BY <1>5 DEF ConstrainEnds
<1>6. CASE ~(ConstrainBrilligCall \/ ConstrainCall \/ ConstrainReturn \/ ConstrainEnds)
  BY <1>1, <1>6, OpcodesRead DEF Constrain
<1> QED BY <1>2, <1>3, <1>4, <1>5, <1>6

---------------------------------------------------------------------------
\* The invariant

\* The frames have the shape that TypeOK says; those of @compute have a struct for every call
\* that has returned, and those of @constrain are given a struct that @compute made.
TInv ==
    /\ TypeOK
    /\ phase = "translate" => stack = <<>>
    /\ phase = "compute" => mode = "honest"
    /\ phase = "compute" /\ outcome = "ok" => Opens(Circuits, stack)
    /\ phase = "constrain" => AllGiven(stack)

\* The type invariant, apart from the frames.
Scalars ==
    /\ mode \in Modes \cup {"none"}
    /\ phase \in {"translate", "compute", "constrain", "done"}
    /\ outcome \in {"ok", "refused", "trapped", "undefined"}
    /\ {accepted, holds, solved} \subseteq BOOLEAN

LEMMA TypeIs == TypeOK <=> Scalars /\ Typed(Circuits, stack)
BY DEF TypeOK, Scalars, Typed, FrameTyped, Code

LEMMA TypeNext ==
    ASSUME prog' = prog, Scalars', Typed(Circuits, stack')
    PROVE  TypeOK'
<1>1. Circuits' = Circuits
  BY DEF Circuits
<1>2. Typed(Circuits, stack)'
  <2> DEFINE cs == Circuits
             gs == stack'
  <2>1. Typed(cs, gs)
    OBVIOUS
  <2> QED BY <1>1, <2>1 DEF Typed, FrameTyped
<1> QED BY <1>2, TypeIs, PTL

\* The first frame.
LEMMA TranslateTyped == ASSUME IInv, IInv', HInv', TInv, Translate PROVE TInv'
<1> DEFINE cs == Circuits
           n == Cardinality(Params(cs[1]))
           h == Frame(1, inputs', Struct, Solver([k \in 0 .. (Len(inputs') - 1) |-> inputs'[k + 1]]))
<1>1. /\ prog' = prog /\ outcome' = outcome /\ inputs' \in [1 .. n -> F] /\ stack' = <<h>>
      /\ mode' \in Modes /\ phase' = IF mode' = "honest" THEN "compute" ELSE "constrain"
  BY DEF Translate
<1>2. WellFormed(cs)
  BY TranslatedFits DEF Translate, IInv
<1>3. 1 \in DOMAIN cs /\ IsCircuit(cs[1])
  BY <1>2 DEF WellFormed
<1>4. /\ h.c = 1 /\ h.pc = 1 /\ h.self = Struct
      /\ h.vals = [x \in Params(cs[1]) |-> inputs'[ParamIndex(cs[1], x)]]
  BY DEF Frame
<1> HIDE DEF h
<1>5. DOMAIN stack' = {1} /\ stack'[1] = h
  BY <1>1
<1>6. Typed(cs, stack')
  <2>1. Range(h.vals) \subseteq F /\ DOMAIN h.vals = Params(cs[1])
    BY <1>1, <1>3, <1>4, ParamIndexInRange DEF Range
  <2>2. h.self.w = <<>>
    BY <1>4 DEF Struct
  <2>3. 1 \in 1 .. (Len(cs[1].opcodes) + 1)
    BY <1>3 DEF IsCircuit, IsSequence
  <2>4. FrameTyped(cs, h)
    BY <1>3, <1>4, <2>1, <2>2, <2>3 DEF FrameTyped
  <2> QED BY <1>5, <2>4 DEF Typed
<1>7. Scalars'
  BY <1>1 DEF Scalars, TInv, TypeOK, IInv, HInv
<1>8. TypeOK'
  BY <1>1, <1>6, <1>7, TypeNext
<1>9. Circuits' = Circuits
  BY <1>1 DEF Circuits
<1>10. Opens(Circuits, stack)'
  <2>1. stack'[1].c = 1 /\ \A k \in DOMAIN stack' : stack'[k].pc = 1
    BY <1>4, <1>5
  <2> QED BY <2>1 DEF Opens, Opened
<1>11. mode' # "honest" => AllGiven(stack)'
  BY <1>4, <1>5 DEF AllGiven, Given
<1> QED BY <1>1, <1>8, <1>10, <1>11 DEF TInv

\* A step of @compute.
LEMMA ComputeStepTyped == ASSUME IInv, IInv', CInv, CInv', HInv', TInv, Compute PROVE TInv'
<1>1. phase = "compute" /\ outcome = "ok" /\ Running("compute")
  BY DEF Compute, ComputeSatisfied, ComputeSolve, ComputeMemoryInit, ComputeMemoryRead,
         ComputeMemoryWrite, ComputeLogic, ComputeRange, ComputeBlackBox, ComputeBrilligCall,
         ComputeCall, ComputeReturn, ComputeUndefined, ComputeEnds, Computing, At, Running
<1>2. prog' = prog /\ mode' = mode
  BY DEF Compute, ComputeSatisfied, ComputeSolve, ComputeMemoryInit, ComputeMemoryRead,
         ComputeMemoryWrite, ComputeLogic, ComputeRange, ComputeBlackBox, ComputeBrilligCall,
         ComputeCall, ComputeReturn, ComputeUndefined, ComputeEnds, Replace
<1>3. /\ phase' \in {"compute", "constrain"} /\ outcome' \in {"ok", "trapped", "undefined"}
      /\ phase' = "constrain" <=> ComputeEnds
  BY <1>1 DEF Compute, ComputeSatisfied, ComputeSolve, ComputeMemoryInit, ComputeMemoryRead,
         ComputeMemoryWrite, ComputeLogic, ComputeRange, ComputeBlackBox, ComputeBrilligCall,
         ComputeCall, ComputeReturn, ComputeUndefined, ComputeEnds, Replace
<1>4. Circuits' = Circuits
  BY <1>2 DEF Circuits
<1>5. Scalars'
  BY <1>2, <1>3 DEF Scalars, TInv, TypeOK, IInv, HInv
<1>6. mode = "honest" /\ Opens(Circuits, stack) /\ Typed(Circuits, stack)
  BY <1>1, TypeIs DEF TInv
<1>7. CASE ComputeEnds
  <2>1. Typed(Circuits, stack') /\ \A k \in DOMAIN stack' : Given(Circuits, "honest", stack'[k])
    BY <1>6, <1>7, EndsGiven
  <2>2. TypeOK'
    BY <1>2, <1>5, <2>1, TypeNext
  <2>3. AllGiven(stack)'
    BY <1>2, <1>4, <1>6, <2>1 DEF AllGiven, Given, IsStruct, Structs
  <2> QED BY <1>3, <1>7, <2>2, <2>3 DEF TInv
<1>8. CASE ~ComputeEnds /\ outcome' # "ok"
  <2>1. Typed(Circuits, stack')
    BY <1>3, <1>6, <1>8, StopsTyped
  <2>2. TypeOK'
    BY <1>2, <1>5, <2>1, TypeNext
  <2> QED BY <1>2, <1>3, <1>6, <1>8, <2>2 DEF TInv
<1>9. CASE ~ComputeEnds /\ outcome' = "ok"
  <2>1. phase' = "compute"
    BY <1>3, <1>9
  <2>2. Opens(Circuits, stack')
    BY <1>6, <1>9, <2>1, StepReplaces, OpcodeOpens, CallOpens, ReturnOpens
  <2>3. Typed(Circuits, stack')
    <3> DEFINE cs == Circuits
               gs == stack'
    <3>1. WellFormed(cs) /\ \A c \in DOMAIN cs : Translates(cs[c])
      BY <1>1, ComputeFacts
    <3>2. ComputeStackFits(cs, gs)
      <4>1. cs' = cs
        BY <1>4
      <4> HIDE DEF cs
      <4> QED BY <1>9, <2>1, <4>1 DEF CInv, cs
    <3> HIDE DEF cs, gs
    <3>3. Typed(cs, gs)
      BY <3>1, <3>2, ComputeTyped
    <3> QED BY <3>3 DEF cs, gs
  <2>4. TypeOK'
    BY <1>2, <1>5, <2>3, TypeNext
  <2>5. Opens(Circuits, stack)'
    BY <1>4, <2>2, SMTT(40) DEF Opens, Opened, IsStruct, Structs
  <2> QED BY <1>2, <1>6, <2>1, <2>4, <2>5 DEF TInv
<1> QED BY <1>7, <1>8, <1>9

\* A step of @constrain.
LEMMA ConstrainStepTyped == ASSUME IInv, IInv', HInv', TInv, Constrain PROVE TInv'
<1>1. phase = "constrain" /\ outcome = "ok"
  BY DEF Constrain, ConstrainAssertZero, ConstrainMemoryInit, ConstrainMemoryRead,
         ConstrainMemoryWrite, ConstrainLogic, ConstrainRange, ConstrainBlackBox,
         ConstrainBrilligCall, ConstrainSkippedCall, ConstrainCall, ConstrainReturn,
         ConstrainEnds, Constraining, At, Running
<1>2. phase' \in {"constrain", "done"} /\ mode' = mode /\ prog' = prog /\ outcome' = outcome
  BY <1>1 DEF Constrain, ConstrainAssertZero, ConstrainMemoryInit, ConstrainMemoryRead,
         ConstrainMemoryWrite, ConstrainLogic, ConstrainRange, ConstrainBlackBox,
         ConstrainBrilligCall, ConstrainSkippedCall, ConstrainCall, ConstrainReturn,
         ConstrainEnds, Check
<1>3. Typed(Circuits, stack) /\ AllGiven(stack)
  BY <1>1, TypeIs DEF TInv
<1>4. Typed(Circuits, stack') /\ AllGiven(stack')
  BY <1>3, ConstrainTyped
<1>5. Scalars'
  BY <1>1, <1>2 DEF Scalars, TInv, TypeOK, IInv, HInv
<1>6. TypeOK'
  BY <1>2, <1>4, <1>5, TypeNext
<1>7. AllGiven(stack)'
  <2>1. Circuits' = Circuits
    BY <1>2 DEF Circuits
  <2> QED BY <1>2, <1>4, <2>1 DEF AllGiven, Given, IsStruct, Structs
<1> QED BY <1>2, <1>6, <1>7 DEF TInv

\* Every step keeps the invariant.
LEMMA NextTyped == ASSUME IInv, IInv', CInv, CInv', HInv', TInv, [Next]_vars PROVE TInv'
<1>1. CASE Translate
  BY <1>1, TranslateTyped
<1>2. CASE TranslationFails
  <2>1. prog' = prog /\ stack' = stack /\ phase' = phase /\ phase = "translate"
    BY <1>2 DEF TranslationFails
  <2>2. Scalars'
    BY <1>2 DEF TranslationFails, Scalars, TInv, TypeOK
  <2>3. Typed(Circuits, stack)
    BY TypeIs DEF TInv
  <2>4. TypeOK'
    BY <2>1, <2>2, <2>3, TypeNext
  <2> QED BY <2>1, <2>4 DEF TInv
<1>3. CASE Compute
  BY <1>3, ComputeStepTyped
<1>4. CASE Constrain
  BY <1>4, ConstrainStepTyped
<1>5. CASE UNCHANGED vars
  <2>1. /\ prog' = prog /\ mode' = mode /\ phase' = phase /\ stack' = stack /\ outcome' = outcome
        /\ accepted' = accepted /\ holds' = holds /\ solved' = solved
    BY <1>5 DEF vars
  <2>2. Circuits' = Circuits
    BY <2>1 DEF Circuits
  <2>3. Scalars' /\ Typed(Circuits, stack)
    BY <2>1, TypeIs DEF Scalars, TInv
  <2>4. TypeOK'
    BY <2>1, <2>3, TypeNext
  <2>5. (Opens(Circuits, stack)' <=> Opens(Circuits, stack)) /\ (AllGiven(stack)' <=> AllGiven(stack))
    BY <2>1, <2>2 DEF Opens, Opened, AllGiven, Given, IsStruct, Structs
  <2> QED BY <2>1, <2>4, <2>5 DEF TInv
<1>6. CASE Ended
  BY <1>5, <1>6 DEF Ended
<1> QED BY <1>1, <1>2, <1>3, <1>4, <1>5, <1>6 DEF Next

\* In every reachable state of every program the frames of both functions have the shape that
\* TypeOK says: the next opcode is one of the circuit's or its end, witnesses are inputs or
\* members and have felts as their values, the struct's members are the circuit's, and every
\* frame but the first runs the circuit that the one below calls.
THEOREM CircuitTypeCorrect == Spec => []TypeOK
<1>1. Init => TInv
  <2>1. ASSUME Init PROVE TInv
    <3>1. stack = <<>> /\ phase = "translate"
      BY <2>1 DEF Init
    <3>2. DOMAIN stack = {}
      BY <3>1
    <3> QED BY <2>1, <3>1, <3>2 DEF Init, TInv, TypeOK
  <2> QED BY <2>1
<1>2. /\ (IInv /\ CInv /\ HInv) /\ (IInv /\ CInv /\ HInv)' /\ TInv /\ [Next]_vars => TInv'
  BY NextTyped
<1>3. TInv => TypeOK
  BY DEF TInv
<1> QED BY <1>1, <1>2, <1>3, HonestInvariance, PTL DEF Spec
=============================================================================

----------------------- MODULE AlwaysDivergentProofs -----------------------
(***************************************************************************)
(* What module AlwaysDivergent promises, for every number of blocks and    *)
(* every graph: the counters never underflow, only blocks bound to diverge *)
(* are marked, and none is missing when the analysis returns.              *)
(***************************************************************************)
EXTENDS AlwaysDivergent, FiniteSetTheorems, TLAPS

-----------------------------------------------------------------------------
(* The inductive invariant.                                                *)

(* A marked block is a leaf or has been told of all its successors.        *)
Marked == \A b \in divergent : b \in graph.leaf \/ remaining[b] = 0

(* A block that has been told of all its successors is marked.             *)
Noticed == \A b \in Block : graph.succ[b] # << >> /\ remaining[b] = 0 => b \in divergent

(* Only the seeding loop marks leaves.                                     *)
LeavesSeeded == \A b \in graph.leaf : b \in divergent <=> b < seeded

(* The edges still to be told lead to the block popped last.               *)
PendingPopped == \A e \in pending : Target(e) \in divergent \ Elems(worklist)

IInv ==
  /\ TypeOK
  /\ RemainingCounts
  /\ PushedOnce
  /\ Marked
  /\ Noticed
  /\ LeavesSeeded
  /\ PendingPopped
  /\ OnlyDivergent

-----------------------------------------------------------------------------
(* Sequences as the worklist uses them.                                    *)

Distinct(s) == \A i, j \in DOMAIN s : s[i] = s[j] => i = j

(* A push adds one element, and repeats none if the element is new.        *)
LEMMA PushElems ==
  ASSUME NEW S, NEW s \in Seq(S), NEW x \in S
  PROVE  /\ Append(s, x) \in Seq(S)
         /\ Elems(Append(s, x)) = Elems(s) \cup {x}
         /\ Distinct(s) /\ x \notin Elems(s) => Distinct(Append(s, x))
<1> DEFINE t == Append(s, x)
<1>1. /\ t \in Seq(S)
      /\ Len(s) \in Nat
      /\ DOMAIN s = 1 .. Len(s)
      /\ DOMAIN t = 1 .. Len(s) + 1
      /\ \A i \in 1 .. Len(s) : t[i] = s[i]
      /\ t[Len(s) + 1] = x
  OBVIOUS
<1>2. Elems(t) \subseteq Elems(s) \cup {x}
  <2>1. SUFFICES ASSUME NEW i \in DOMAIN t PROVE t[i] \in Elems(s) \cup {x}
    BY DEF Elems
  <2>2. i \in 1 .. Len(s) \/ i = Len(s) + 1
    BY <1>1
  <2>. QED BY <1>1, <2>2 DEF Elems
<1>3. Elems(s) \cup {x} \subseteq Elems(t)
  <2>1. Len(s) + 1 \in DOMAIN t /\ DOMAIN s \subseteq DOMAIN t
    BY <1>1
  <2>. QED BY <1>1, <2>1 DEF Elems
<1>4. ASSUME Distinct(s), x \notin Elems(s) PROVE Distinct(t)
  <2>1. SUFFICES ASSUME NEW i \in DOMAIN t, NEW j \in DOMAIN t, t[i] = t[j] PROVE i = j
    BY DEF Distinct
  <2>2. /\ i \in 1 .. Len(s) \/ i = Len(s) + 1
        /\ j \in 1 .. Len(s) \/ j = Len(s) + 1
    BY <1>1
  <2>3. \A m \in 1 .. Len(s) : s[m] # x
    BY <1>1, <1>4 DEF Elems
  <2>. QED BY <1>1, <1>4, <2>1, <2>2, <2>3 DEF Distinct
<1>. QED BY <1>1, <1>2, <1>3, <1>4

(* A pop removes the last element, and only it if none is repeated.        *)
LEMMA PopElems ==
  ASSUME NEW S, NEW s \in Seq(S), s # << >>, Distinct(s)
  PROVE  LET t == SubSeq(s, 1, Len(s) - 1)
         IN  /\ s[Len(s)] \in Elems(s) /\ s[Len(s)] \in S
             /\ t \in Seq(S)
             /\ Elems(t) = Elems(s) \ {s[Len(s)]}
             /\ Distinct(t)
<1> DEFINE t == SubSeq(s, 1, Len(s) - 1)
<1>1. /\ Len(s) \in Nat \ {0}
      /\ DOMAIN s = 1 .. Len(s)
      /\ Len(s) \in DOMAIN s
      /\ s[Len(s)] \in S
  OBVIOUS
<1>2. /\ t \in Seq(S)
      /\ DOMAIN t = 1 .. Len(s) - 1
      /\ \A i \in 1 .. Len(s) - 1 : t[i] = s[i]
  BY <1>1
<1>3. \A i \in 1 .. Len(s) - 1 : i \in DOMAIN s /\ i # Len(s)
  <2>1. \A n \in Nat : \A i \in 1 .. n - 1 : i \in 1 .. n /\ i # n
    OBVIOUS
  <2>. QED BY <1>1, <2>1
<1>4. Elems(t) \subseteq Elems(s) \ {s[Len(s)]}
  <2>1. SUFFICES ASSUME NEW i \in DOMAIN t PROVE t[i] \in Elems(s) /\ t[i] # s[Len(s)]
    BY DEF Elems
  <2>. QED BY <1>1, <1>2, <1>3 DEF Elems, Distinct
<1>5. Elems(s) \ {s[Len(s)]} \subseteq Elems(t)
  <2>1. SUFFICES ASSUME NEW i \in DOMAIN s, s[i] # s[Len(s)] PROVE s[i] \in Elems(t)
    BY DEF Elems
  <2>2. i \in 1 .. Len(s) - 1
    BY <1>1, <2>1
  <2>. QED BY <1>2, <2>2 DEF Elems
<1>6. Distinct(t)
  BY <1>2, <1>3 DEF Distinct
<1>. QED BY <1>1, <1>2, <1>4, <1>5, <1>6 DEF Elems

-----------------------------------------------------------------------------
(* The graph.                                                              *)

(* The positions of a block's successors.                                  *)
LEMMA ArityFacts ==
  ASSUME IsGraph(graph), NEW j \in Block
  PROVE  /\ Len(graph.succ[j]) \in Nat
         /\ IsFiniteSet(Arity(j))
         /\ Cardinality(Arity(j)) = Len(graph.succ[j])
         /\ \A k \in Arity(j) : Target(<<j, k>>) \in Block
         /\ Elems(graph.succ[j]) = {Target(<<j, k>>) : k \in Arity(j)}
<1>1. graph.succ[j] \in Seq(Block)
  BY DEF IsGraph
<1>2. /\ Len(graph.succ[j]) \in Nat
      /\ Arity(j) = 1 .. Len(graph.succ[j])
      /\ \A k \in Arity(j) : graph.succ[j][k] \in Block
  BY <1>1 DEF Arity
<1>3. /\ IsFiniteSet(1 .. Len(graph.succ[j]))
      /\ Cardinality(1 .. Len(graph.succ[j])) = Len(graph.succ[j])
  BY <1>2, FS_Interval
<1>4. \A k : Target(<<j, k>>) = graph.succ[j][k]
  BY DEF Target
<1>. QED BY <1>2, <1>3, <1>4 DEF Elems, Arity

(* An edge is a source with the position of one of its successors.         *)
LEMMA EdgeFacts ==
  ASSUME NEW e \in Edges
  PROVE  /\ e = <<e[1], e[2]>>
         /\ e[1] \in Block
         /\ e[2] \in Arity(e[1])
<1>1. PICK j \in Block : e \in {<<j, k>> : k \in Arity(j)}
  BY DEF Edges
<1>2. PICK k \in Arity(j) : e = <<j, k>>
  BY <1>1
<1>. QED BY <1>2

(* The successors not told of are finitely many, at most all of them.      *)
LEMMA UntoldFinite ==
  ASSUME IsGraph(graph), NEW j \in Block
  PROVE  IsFiniteSet(Untold(j)) /\ Untold(j) \subseteq Arity(j)
<1>1. Untold(j) \subseteq Arity(j)
  BY DEF Untold
<1>2. IsFiniteSet(Arity(j))
  BY ArityFacts
<1>. QED BY <1>1, <1>2, FS_Subset

(* A counter at zero: every successor is marked, and has told.             *)
LEMMA ZeroMeansTold ==
  ASSUME TypeOK, RemainingCounts, NEW j \in Block
  PROVE  /\ remaining[j] = 0 <=> Untold(j) = {}
         /\ remaining[j] = 0 => Elems(graph.succ[j]) \subseteq divergent
<1>1. IsGraph(graph)
  BY DEF TypeOK
<1>2. remaining[j] = 0 <=> Untold(j) = {}
  BY <1>1, UntoldFinite, FS_EmptySet DEF RemainingCounts
<1>3. ASSUME Untold(j) = {} PROVE Elems(graph.succ[j]) \subseteq divergent
  <2>1. \A k \in Arity(j) : Target(<<j, k>>) \in divergent
    BY <1>3 DEF Untold
  <2>2. Elems(graph.succ[j]) = {Target(<<j, k>>) : k \in Arity(j)}
    BY <1>1, ArityFacts
  <2>. QED BY <2>1, <2>2
<1>. QED BY <1>2, <1>3

-----------------------------------------------------------------------------
(* The invariant holds when the analysis starts.                           *)
LEMMA InitIInv == Init => IInv
<1>. SUFFICES ASSUME Init PROVE IInv
  OBVIOUS
<1>1. IsGraph(graph) /\ N \in Nat
  BY GraphAssumption DEF Init
<1>2. \A j \in Block : Len(graph.succ[j]) \in Nat
  BY <1>1, ArityFacts
<1>3. TypeOK
  BY <1>1, <1>2 DEF Init, TypeOK
<1>4. RemainingCounts
  <2>1. SUFFICES ASSUME NEW j \in Block PROVE remaining[j] = Cardinality(Untold(j))
    BY DEF RemainingCounts
  <2>2. Untold(j) = Arity(j)
    BY DEF Init, Untold
  <2>. QED BY <1>1, <2>2, ArityFacts DEF Init
<1>5. Elems(worklist) = {} /\ PushedOnce
  BY DEF Init, PushedOnce, Elems
<1>6. Marked /\ PendingPopped /\ OnlyDivergent
  BY DEF Init, Marked, PendingPopped, OnlyDivergent
<1>7. Noticed
  <2>1. SUFFICES ASSUME NEW b \in Block, graph.succ[b] # << >>, remaining[b] = 0 PROVE FALSE
    BY DEF Noticed
  <2>2. graph.succ[b] \in Seq(Block) /\ Len(graph.succ[b]) = 0
    BY <1>1, <2>1 DEF IsGraph, Init
  <2>. QED BY <2>1, <2>2
<1>8. LeavesSeeded
  <2>1. \A b \in graph.leaf : b \in Nat
    BY <1>1 DEF IsGraph, Block
  <2>. QED BY <2>1 DEF Init, LeavesSeeded
<1>. QED BY <1>3, <1>4, <1>5, <1>6, <1>7, <1>8 DEF IInv

-----------------------------------------------------------------------------
(* Marking a block puts it on the worklist: no successor becomes told by   *)
(* it.  Only the edges taken from pending are.                             *)
LEMMA UntoldAfter ==
  ASSUME graph' = graph, PendingPopped,
         NEW X, X \cap divergent = {},
         divergent' = divergent \cup X,
         Elems(worklist)' = Elems(worklist) \cup X,
         NEW P \in SUBSET pending, pending' = pending \ P,
         NEW j \in Block
  PROVE  Untold(j)' = Untold(j) \ {k \in Arity(j) : <<j, k>> \in P}
<1>1. Arity(j)' = Arity(j) /\ \A k : Target(<<j, k>>)' = Target(<<j, k>>)
  BY DEF Arity, Target
<1>2. ASSUME NEW k \in Arity(j)
      PROVE  k \in Untold(j)' <=> k \in Untold(j) /\ <<j, k>> \notin P
  <2>1. k \in Untold(j) <=> \/ Target(<<j, k>>) \notin divergent
                            \/ Target(<<j, k>>) \in Elems(worklist)
                            \/ <<j, k>> \in pending
    BY DEF Untold
  <2>2. k \in Untold(j)' <=> \/ Target(<<j, k>>) \notin divergent \cup X
                             \/ Target(<<j, k>>) \in Elems(worklist) \cup X
                             \/ <<j, k>> \in pending \ P
    BY <1>1 DEF Untold
  <2>3. <<j, k>> \in P => /\ Target(<<j, k>>) \in divergent
                          /\ Target(<<j, k>>) \notin Elems(worklist)
    BY DEF PendingPopped
  <2>. QED BY <2>1, <2>2, <2>3
<1>3. Untold(j)' \subseteq Arity(j) /\ Untold(j) \subseteq Arity(j)
  BY <1>1 DEF Untold
<1>. QED BY <1>2, <1>3

(* The graph does not change, and with it what it determines.              *)
LEMMA SameGraph ==
  ASSUME graph' = graph
  PROVE  /\ IsGraph(graph)' <=> IsGraph(graph)
         /\ Edges' = Edges
         /\ \A e : Target(e)' = Target(e)
         /\ \A S : Closed(S)' <=> Closed(S)
<1>1. \A j : Arity(j)' = Arity(j)
  BY DEF Arity
<1>2. Edges' = Edges
  BY <1>1 DEF Edges
<1>. QED BY <1>2 DEF IsGraph, Target, Closed, Elems

(* The seeding loop marks a leaf no one has marked before.                 *)
LEMMA SeedKeeps == ASSUME IInv, Seed PROVE IInv'
<1>. USE DEF IInv
<1>1. graph' = graph /\ remaining' = remaining /\ pending' = pending /\ seeded' = seeded + 1
  BY DEF Seed
<1>2. N \in Nat /\ seeded \in 0 .. N /\ seeded < N /\ seeded \in Block
  BY GraphAssumption DEF TypeOK, Seed, Block
<1>3. IsGraph(graph) /\ graph.leaf \subseteq Block /\ \A b \in Block : b \in Int
  BY DEF TypeOK, IsGraph, Block
<1> DEFINE X == IF seeded \in graph.leaf THEN {seeded} ELSE {}
<1>4. X \cap divergent = {} /\ divergent' = divergent \cup X
  BY <1>2, <1>3 DEF Seed, LeavesSeeded
<1>5. /\ worklist' \in Seq(Block)
      /\ Elems(worklist)' = Elems(worklist) \cup X
      /\ Distinct(worklist)'
  <2>1. worklist \in Seq(Block) /\ Distinct(worklist) /\ Elems(worklist) \subseteq divergent
    BY DEF TypeOK, PushedOnce, Distinct
  <2>2. CASE seeded \in graph.leaf
    <3>1. worklist' = Append(worklist, seeded)
      BY <2>2 DEF Seed
    <3>2. seeded \notin Elems(worklist)
      BY <1>4, <2>1, <2>2
    <3>3. /\ Append(worklist, seeded) \in Seq(Block)
          /\ Elems(Append(worklist, seeded)) = Elems(worklist) \cup {seeded}
          /\ Distinct(Append(worklist, seeded))
      BY <1>2, <2>1, <3>2, PushElems
    <3>. QED BY <2>2, <3>1, <3>3 DEF Elems, Distinct
  <2>3. CASE seeded \notin graph.leaf
    BY <2>1, <2>3 DEF Seed, Elems, Distinct
  <2>. QED BY <2>2, <2>3
<1>6. TypeOK'
  <2>1. divergent' \subseteq Block
    BY <1>2, <1>4 DEF TypeOK
  <2>. QED BY <1>1, <1>2, <1>5, <2>1, SameGraph DEF TypeOK
<1>7. RemainingCounts'
  <2>1. SUFFICES ASSUME NEW j \in Block PROVE Untold(j)' = Untold(j)
    BY <1>1 DEF RemainingCounts
  <2>2. {} \in SUBSET pending /\ pending' = pending \ {} /\ PendingPopped
    BY <1>1
  <2> HIDE DEF X
  <2>3. Untold(j)' = Untold(j) \ {k \in Arity(j) : <<j, k>> \in {}}
    BY <1>1, <1>4, <1>5, <2>2, UntoldAfter
  <2>. QED BY <2>3
<1>8. PushedOnce'
  BY <1>4, <1>5 DEF PushedOnce, Distinct
<1>9. Marked' /\ Noticed'
  BY <1>1, <1>4 DEF Marked, Noticed
<1>10. LeavesSeeded'
  <2>1. SUFFICES ASSUME NEW b \in graph.leaf PROVE b \in divergent' <=> b < seeded + 1
    BY <1>1 DEF LeavesSeeded
  <2>2. b \in divergent <=> b < seeded
    BY DEF LeavesSeeded
  <2>3. b \in divergent' <=> b \in divergent \/ b = seeded
    BY <1>4
  <2>4. b \in Int /\ seeded \in Int
    BY <1>2, <1>3
  <2>. QED BY <2>2, <2>3, <2>4
<1>11. PendingPopped'
  <2>1. \A e \in pending : Target(e) \in divergent /\ Target(e) \notin Elems(worklist)
    BY DEF PendingPopped
  <2>. QED BY <1>1, <1>4, <1>5, <2>1, SameGraph DEF PendingPopped
<1>12. OnlyDivergent'
  <2>1. \A S : Closed(S) => X \subseteq S
    BY DEF Closed
  <2>. QED BY <1>1, <1>4, <2>1, SameGraph DEF OnlyDivergent
<1>. QED BY <1>6, <1>7, <1>8, <1>9, <1>10, <1>11, <1>12

(* A pop moves the debt of telling from the worklist to the edges.         *)
LEMMA PopKeeps == ASSUME IInv, Pop PROVE IInv'
<1>. USE DEF IInv
<1> DEFINE x == worklist[Len(worklist)]
<1>1. /\ graph' = graph /\ remaining' = remaining
      /\ divergent' = divergent /\ seeded' = seeded
      /\ pending = {} /\ pending' = EdgesInto(x)
  BY DEF Pop
<1>2. /\ x \in Elems(worklist)
      /\ worklist' \in Seq(Block)
      /\ Elems(worklist)' = Elems(worklist) \ {x}
      /\ Distinct(worklist)'
  <2>1. worklist \in Seq(Block) /\ worklist # << >> /\ Distinct(worklist)
    BY DEF TypeOK, Pop, PushedOnce, Distinct
  <2>2. worklist' = SubSeq(worklist, 1, Len(worklist) - 1)
    BY DEF Pop
  <2>. QED BY <2>1, <2>2, PopElems DEF Elems, Distinct
<1>3. x \in divergent
  BY <1>2 DEF PushedOnce
<1> HIDE DEF x
<1>4. EdgesInto(x) \subseteq Edges /\ \A e \in EdgesInto(x) : Target(e) = x
  BY DEF EdgesInto
<1>5. TypeOK'
  BY <1>1, <1>2, <1>4, SameGraph DEF TypeOK
<1>6. RemainingCounts'
  <2>1. SUFFICES ASSUME NEW j \in Block PROVE Untold(j)' = Untold(j)
    BY <1>1 DEF RemainingCounts
  <2>2. Arity(j)' = Arity(j) /\ \A k : Target(<<j, k>>)' = Target(<<j, k>>)
    BY <1>1 DEF Arity, Target
  <2>3. ASSUME NEW k \in Arity(j) PROVE <<j, k>> \in EdgesInto(x) <=> Target(<<j, k>>) = x
    <3>1. <<j, k>> \in Edges
      BY DEF Edges
    <3>. QED BY <3>1 DEF EdgesInto
  <2>4. ASSUME NEW k \in Arity(j) PROVE k \in Untold(j)' <=> k \in Untold(j)
    <3>1. k \in Untold(j) <=> \/ Target(<<j, k>>) \notin divergent
                              \/ Target(<<j, k>>) \in Elems(worklist)
      BY <1>1 DEF Untold
    <3>2. k \in Untold(j)' <=> \/ Target(<<j, k>>) \notin divergent
                               \/ Target(<<j, k>>) \in Elems(worklist) \ {x}
                               \/ <<j, k>> \in EdgesInto(x)
      BY <1>1, <1>2, <2>2 DEF Untold
    <3>. QED BY <1>2, <2>3, <3>1, <3>2
  <2>5. Untold(j)' \subseteq Arity(j) /\ Untold(j) \subseteq Arity(j)
    BY <2>2 DEF Untold
  <2>. QED BY <2>4, <2>5
<1>7. PushedOnce'
  BY <1>1, <1>2 DEF PushedOnce, Distinct
<1>8. Marked' /\ Noticed' /\ LeavesSeeded'
  BY <1>1 DEF Marked, Noticed, LeavesSeeded
<1>9. PendingPopped'
  BY <1>1, <1>2, <1>3, <1>4, SameGraph DEF PendingPopped
<1>10. OnlyDivergent'
  BY <1>1, SameGraph DEF OnlyDivergent
<1>. QED BY <1>5, <1>6, <1>7, <1>8, <1>9, <1>10

(* A block is told by one edge.  If that was the last one it waited for,   *)
(* all its successors are marked and no one has marked it before.          *)
LEMMA TellKeeps ==
  ASSUME IInv,
         NEW e \in pending,
         NEW left, left = remaining[e[1]] - 1,
         pending' = pending \ {e},
         remaining' = [remaining EXCEPT ![e[1]] = left],
         IF left = 0
         THEN /\ divergent' = divergent \cup {e[1]}
              /\ worklist' = Append(worklist, e[1])
         ELSE UNCHANGED <<divergent, worklist>>,
         UNCHANGED <<graph, seeded>>
  PROVE  IInv'
<1>. USE DEF IInv
<1> DEFINE j == e[1]
           k == e[2]
           X == IF left = 0 THEN {j} ELSE {}
<1>1. e = <<j, k>> /\ j \in Block /\ k \in Arity(j) /\ IsGraph(graph)
  BY EdgeFacts DEF TypeOK
<1>2. Target(e) \in divergent /\ Target(e) \notin Elems(worklist)
  BY DEF PendingPopped
<1>3. k \in Untold(j)
  BY <1>1 DEF Untold
<1>4. remaining[j] \in Nat /\ remaining[j] # 0 /\ left \in Nat /\ left = remaining[j] - 1
  <2>1. remaining[j] \in Nat
    BY <1>1 DEF TypeOK
  <2>2. remaining[j] # 0
    BY <1>1, <1>3, ZeroMeansTold
  <2>. QED BY <2>1, <2>2
<1>5. graph.succ[j] # << >> /\ j \notin graph.leaf
  BY <1>1 DEF Arity, IsGraph
<1>6. j \notin divergent
  BY <1>4, <1>5 DEF Marked
<1>7. X \cap divergent = {} /\ divergent' = divergent \cup X
  BY <1>6
<1>8. /\ worklist' \in Seq(Block)
      /\ Elems(worklist)' = Elems(worklist) \cup X
      /\ Distinct(worklist)'
  <2>1. worklist \in Seq(Block) /\ Distinct(worklist) /\ j \notin Elems(worklist)
    BY <1>6 DEF TypeOK, PushedOnce, Distinct
  <2>2. CASE left = 0
    <3>1. worklist' = Append(worklist, j)
      BY <2>2
    <3>2. /\ Append(worklist, j) \in Seq(Block)
          /\ Elems(Append(worklist, j)) = Elems(worklist) \cup {j}
          /\ Distinct(Append(worklist, j))
      BY <1>1, <2>1, PushElems
    <3>. QED BY <2>2, <3>1, <3>2 DEF Elems, Distinct
  <2>3. CASE left # 0
    BY <2>1, <2>3 DEF Elems, Distinct
  <2>. QED BY <2>2, <2>3
<1>9. /\ remaining' \in [Block -> Nat]
      /\ remaining'[j] = left
      /\ \A i \in Block : i # j => remaining'[i] = remaining[i]
  BY <1>1, <1>4 DEF TypeOK
<1>10. X \subseteq {j} /\ (left = 0 => X = {j}) /\ (left # 0 => X = {})
  OBVIOUS
<1> HIDE DEF X
<1>11. TypeOK'
  BY <1>1, <1>7, <1>8, <1>9, <1>10, SameGraph DEF TypeOK
<1>12. \A i \in Block : Untold(i)' = Untold(i) \ {m \in Arity(i) : <<i, m>> \in {e}}
  <2>1. graph' = graph /\ PendingPopped /\ {e} \in SUBSET pending /\ pending' = pending \ {e}
    OBVIOUS
  <2>. QED BY <1>7, <1>8, <2>1, UntoldAfter
<1>13. Untold(j)' = Untold(j) \ {k} /\ \A i \in Block : i # j => Untold(i)' = Untold(i)
  <2>1. {m \in Arity(j) : <<j, m>> \in {e}} = {k}
    BY <1>1
  <2>2. \A i : i # j => {m \in Arity(i) : <<i, m>> \in {e}} = {}
    BY <1>1
  <2>. QED BY <1>1, <1>12, <2>1, <2>2
<1>14. RemainingCounts'
  <2>1. Cardinality(Untold(j) \ {k}) = Cardinality(Untold(j)) - 1
    BY <1>1, <1>3, UntoldFinite, FS_RemoveElement, ZenonT(60)
  <2>2. \A i \in Block : remaining[i] = Cardinality(Untold(i))
    BY DEF RemainingCounts
  <2>3. SUFFICES ASSUME NEW i \in Block PROVE remaining'[i] = Cardinality(Untold(i)')
    BY DEF RemainingCounts
  <2>. QED BY <1>1, <1>4, <1>9, <1>13, <2>1, <2>2
<1>15. PushedOnce'
  BY <1>7, <1>8 DEF PushedOnce, Distinct
<1>16. Marked'
  <2>1. SUFFICES ASSUME NEW b \in divergent', b \notin graph.leaf PROVE remaining'[b] = 0
    BY DEF Marked
  <2>2. CASE b \in divergent
    BY <1>6, <1>9, <2>1, <2>2 DEF Marked, TypeOK
  <2>3. CASE b \in X
    BY <1>9, <1>10, <2>3
  <2>. QED BY <1>7, <2>1, <2>2, <2>3
<1>17. Noticed'
  <2>1. SUFFICES ASSUME NEW b \in Block, graph.succ[b] # << >>, remaining'[b] = 0
                 PROVE  b \in divergent'
    BY DEF Noticed
  <2>2. CASE b = j
    BY <1>7, <1>9, <1>10, <2>1, <2>2
  <2>3. CASE b # j
    BY <1>7, <1>9, <2>1, <2>3 DEF Noticed
  <2>. QED BY <2>2, <2>3
<1>18. LeavesSeeded'
  <2>1. \A b \in graph.leaf : b \in divergent' <=> b \in divergent
    BY <1>5, <1>7, <1>10
  <2>. QED BY <2>1 DEF LeavesSeeded
<1>19. PendingPopped'
  <2>1. \A f \in pending : Target(f) \in divergent /\ Target(f) \notin Elems(worklist)
    BY DEF PendingPopped
  <2>. QED BY <1>7, <1>8, <2>1, SameGraph DEF PendingPopped
<1>20. OnlyDivergent'
  <2>1. SUFFICES ASSUME NEW S \in SUBSET Block, Closed(S) PROVE divergent' \subseteq S
    BY SameGraph DEF OnlyDivergent
  <2>2. divergent \subseteq S
    BY <2>1 DEF OnlyDivergent
  <2>3. ASSUME left = 0 PROVE j \in S
    <3>1. Untold(j)' = {}
      <4>1. IsFiniteSet(Untold(j) \ {k})
        BY <1>1, UntoldFinite, FS_RemoveElement
      <4>2. Cardinality(Untold(j) \ {k}) = 0
        BY <1>1, <1>9, <1>13, <1>14, <2>3 DEF RemainingCounts
      <4>. QED BY <1>13, <4>1, <4>2, FS_EmptySet
    <3>2. \A m \in Arity(j) : Target(<<j, m>>) \in divergent
      BY <1>1, <1>2, <1>13, <3>1 DEF Untold
    <3>3. Elems(graph.succ[j]) = {Target(<<j, m>>) : m \in Arity(j)}
      BY <1>1, ArityFacts
    <3>4. Elems(graph.succ[j]) \subseteq S
      BY <2>2, <3>2, <3>3
    <3>. QED BY <1>1, <1>5, <2>1, <3>4 DEF Closed
  <2>. QED BY <1>7, <1>10, <2>2, <2>3
<1>. QED BY <1>11, <1>14, <1>15, <1>16, <1>17, <1>18, <1>19, <1>20

-----------------------------------------------------------------------------
(* Every step of the analysis keeps the invariant.                         *)
LEMMA NextKeeps == ASSUME IInv, [Next]_vars PROVE IInv'
<1>1. CASE Seed
  BY <1>1, SeedKeeps
<1>2. CASE Pop
  BY <1>2, PopKeeps
<1>3. CASE Tell
  <2>1. PICK e \in pending :
          LET left == remaining[e[1]] - 1
          IN  /\ pending' = pending \ {e}
              /\ remaining' = [remaining EXCEPT ![e[1]] = left]
              /\ IF left = 0
                 THEN /\ divergent' = divergent \cup {e[1]}
                      /\ worklist' = Append(worklist, e[1])
                 ELSE UNCHANGED <<divergent, worklist>>
              /\ UNCHANGED <<graph, seeded>>
    BY <1>3 DEF Tell
  <2>. QED BY <2>1, TellKeeps
<1>4. CASE UNCHANGED vars
  <2>1. /\ graph' = graph /\ seeded' = seeded /\ remaining' = remaining
        /\ divergent' = divergent /\ worklist' = worklist /\ pending' = pending
    BY <1>4 DEF vars
  <2>2. \A j : Arity(j)' = Arity(j) /\ Untold(j)' = Untold(j)
    BY <2>1 DEF Arity, Untold, Target, Elems
  <2>. QED BY <2>1, <2>2, SameGraph
       DEF IInv, TypeOK, RemainingCounts, PushedOnce, Marked, Noticed, LeavesSeeded,
           PendingPopped, OnlyDivergent, Elems
<1>. QED BY <1>1, <1>2, <1>3, <1>4 DEF Next, Returned

(* When nothing is left to tell, a block all of whose successors are       *)
(* marked has a counter at zero, and was noticed.                          *)
LEMMA FinishedClosed == IInv => AllDivergent
<1>. SUFFICES ASSUME IInv, Finished PROVE Closed(divergent)
  BY DEF AllDivergent
<1>. USE DEF IInv
<1>1. IsGraph(graph) /\ seeded = N /\ N \in Nat /\ pending = {} /\ Elems(worklist) = {}
  BY GraphAssumption DEF TypeOK, Finished, Elems
<1>2. graph.leaf \subseteq divergent
  <2>1. \A b \in graph.leaf : b < N
    BY <1>1 DEF IsGraph, Block
  <2>. QED BY <1>1, <2>1 DEF LeavesSeeded
<1>3. ASSUME NEW b \in Block, graph.succ[b] # << >>, Elems(graph.succ[b]) \subseteq divergent
      PROVE  b \in divergent
  <2>1. \A k \in Arity(b) : Target(<<b, k>>) \in divergent
    BY <1>1, <1>3, ArityFacts
  <2>2. Untold(b) = {}
    BY <1>1, <2>1 DEF Untold
  <2>3. remaining[b] = 0
    BY <2>2, ZeroMeansTold
  <2>. QED BY <1>3, <2>3 DEF Noticed
<1>. QED BY <1>2, <1>3 DEF Closed

(* The invariant holds in every reachable state of the worklist.           *)
THEOREM Invariance == Spec => []IInv
<1>1. Init => IInv
  BY InitIInv
<1>2. IInv /\ [Next]_vars => IInv'
  BY NextKeeps
<1>. QED BY <1>1, <1>2, PTL DEF Spec

(* The unchecked decrement of remaining[pred.0] never underflows, and the  *)
(* worklist holds nothing but blocks.                                      *)
THEOREM TypeCorrect == Spec => []TypeOK
<1>1. IInv => TypeOK
  BY DEF IInv
<1>. QED BY <1>1, Invariance, PTL

(* Each counter is the number of successors the block still waits for.     *)
THEOREM Counting == Spec => []RemainingCounts
<1>1. IInv => RemainingCounts
  BY DEF IInv
<1>. QED BY <1>1, Invariance, PTL

(* No block is put on the worklist twice.                                  *)
THEOREM NoRepeatedPush == Spec => []PushedOnce
<1>1. IInv => PushedOnce
  BY DEF IInv
<1>. QED BY <1>1, Invariance, PTL

(* A block that can reach a Return or a Stop is never taken for divergent: *)
(* what is marked lies in every set closed under the rule of the code.     *)
THEOREM Soundness == Spec => []OnlyDivergent
<1>1. IInv => OnlyDivergent
  BY DEF IInv
<1>. QED BY <1>1, Invariance, PTL

(* What the analysis returns is closed under the rule: together with       *)
(* Soundness, it is the least such set.                                    *)
THEOREM Completeness == Spec => []AllDivergent
<1>1. IInv => AllDivergent
  BY FinishedClosed
<1>. QED BY <1>1, Invariance, PTL
=============================================================================

--------------------------- MODULE AlwaysDivergent ---------------------------
(***************************************************************************)
(* compute_always_divergent (src/acir2llzk/src/brillig/cfg/divergence.rs): *)
(* the worklist that finds the blocks from which every path ends in a      *)
(* certain panic.                                                          *)
(*                                                                         *)
(* A graph is the view the code has of a function: for each block its      *)
(* caller-successors, a sequence that may name a block twice, and the      *)
(* divergent leaves, which have no successor (Trap, TrapReturn, and a Call *)
(* to a divergent procedure).  The predecessors of x are the edges into x: *)
(* the pairs <<j, k>> whose k-th successor of j is x.  The order in which  *)
(* the inner loop goes through them is left open.                          *)
(***************************************************************************)
EXTENDS Integers, Sequences, FiniteSets

CONSTANTS
  N,            \* number of blocks
  Graphs        \* the graphs the analysis is run on

Block == 0 .. N - 1

IsGraph(g) ==
  /\ g.succ \in [Block -> Seq(Block)]
  /\ g.leaf \subseteq Block
  /\ \A b \in g.leaf : g.succ[b] = << >>

ASSUME GraphAssumption == N \in Nat /\ \A g \in Graphs : IsGraph(g)

VARIABLES
  graph,        \* [succ, leaf]; never changes
  seeded,       \* blocks the seeding loop has looked at
  remaining,    \* block -> caller-successors not yet known divergent
  divergent,    \* blocks known divergent
  worklist,     \* divergent blocks whose predecessors are still to be told
  pending       \* edges into the block popped last that are still to be told

vars == <<graph, seeded, remaining, divergent, worklist, pending>>

Elems(s)   == {s[i] : i \in DOMAIN s}
Arity(b)   == DOMAIN graph.succ[b]
Target(e)  == graph.succ[e[1]][e[2]]

Edges        == UNION {{<<j, k>> : k \in Arity(j)} : j \in Block}

(* Mutant of EdgesInto: a block that names x twice is told once.           *)
EdgesIntoOnce(x) ==
  {e \in Edges : Target(e) = x /\ \A k \in Arity(e[1]) : Target(<<e[1], k>>) = x => e[2] <= k}

EdgesInto(x) == {e \in Edges : Target(e) = x}

-----------------------------------------------------------------------------
Init ==
  /\ graph \in Graphs
  /\ seeded = 0
  /\ remaining = [b \in Block |-> Len(graph.succ[b])]
  /\ divergent = {}
  /\ worklist = << >>
  /\ pending = {}

(* Mutants of Seed: every block without successors is seeded; the loop     *)
(* goes on only after a leaf.                                              *)
SeedExits ==
  /\ seeded < N
  /\ IF graph.succ[seeded] = << >>
     THEN /\ divergent' = divergent \cup {seeded}
          /\ worklist' = Append(worklist, seeded)
     ELSE UNCHANGED <<divergent, worklist>>
  /\ seeded' = seeded + 1
  /\ UNCHANGED <<graph, remaining, pending>>

SeedStuck ==
  /\ seeded < N /\ seeded \in graph.leaf
  /\ divergent' = divergent \cup {seeded}
  /\ worklist' = Append(worklist, seeded)
  /\ seeded' = seeded + 1
  /\ UNCHANGED <<graph, remaining, pending>>

(* The seeding loop, in block order.                                       *)
Seed ==
  /\ seeded < N
  /\ IF seeded \in graph.leaf
     THEN /\ divergent' = divergent \cup {seeded}
          /\ worklist' = Append(worklist, seeded)
     ELSE UNCHANGED <<divergent, worklist>>
  /\ seeded' = seeded + 1
  /\ UNCHANGED <<graph, remaining, pending>>

Pop ==
  /\ seeded = N /\ pending = {} /\ worklist # << >>
  /\ pending' = EdgesInto(worklist[Len(worklist)])
  /\ worklist' = SubSeq(worklist, 1, Len(worklist) - 1)
  /\ UNCHANGED <<graph, seeded, remaining, divergent>>

(* Mutants of Tell: the edge is told again; the source is marked one       *)
(* successor early; it is marked but not pushed.                           *)
TellAgain ==
  \E e \in pending :
    LET left == remaining[e[1]] - 1
    IN  /\ remaining' = [remaining EXCEPT ![e[1]] = left]
        /\ IF left = 0
           THEN /\ divergent' = divergent \cup {e[1]}
                /\ worklist' = Append(worklist, e[1])
           ELSE UNCHANGED <<divergent, worklist>>
        /\ UNCHANGED <<graph, seeded, pending>>

TellEarly ==
  \E e \in pending :
    LET left == remaining[e[1]] - 1
    IN  /\ pending' = pending \ {e}
        /\ remaining' = [remaining EXCEPT ![e[1]] = left]
        /\ IF left <= 1
           THEN /\ divergent' = divergent \cup {e[1]}
                /\ worklist' = Append(worklist, e[1])
           ELSE UNCHANGED <<divergent, worklist>>
        /\ UNCHANGED <<graph, seeded>>

TellUnpushed ==
  \E e \in pending :
    LET left == remaining[e[1]] - 1
    IN  /\ pending' = pending \ {e}
        /\ remaining' = [remaining EXCEPT ![e[1]] = left]
        /\ divergent' = IF left = 0 THEN divergent \cup {e[1]} ELSE divergent
        /\ UNCHANGED <<graph, seeded, worklist>>

(* One turn of the inner loop: the source of the edge has one successor    *)
(* less to wait for.                                                       *)
Tell ==
  \E e \in pending :
    LET left == remaining[e[1]] - 1
    IN  /\ pending' = pending \ {e}
        /\ remaining' = [remaining EXCEPT ![e[1]] = left]
        /\ IF left = 0
           THEN /\ divergent' = divergent \cup {e[1]}
                /\ worklist' = Append(worklist, e[1])
           ELSE UNCHANGED <<divergent, worklist>>
        /\ UNCHANGED <<graph, seeded>>

Finished == seeded = N /\ pending = {} /\ worklist = << >>

Returned == Finished /\ UNCHANGED vars

Next == Seed \/ Pop \/ Tell \/ Returned

Spec == Init /\ [][Next]_vars /\ WF_vars(Next)
-----------------------------------------------------------------------------
(* The counters are usize: none of them ever goes below zero, although the *)
(* code decrements without a check (divergence.rs, remaining[pred.0] -= 1). *)
TypeOK ==
  /\ IsGraph(graph)
  /\ seeded \in 0 .. N
  /\ remaining \in [Block -> Nat]
  /\ divergent \subseteq Block
  /\ worklist \in Seq(Block)
  /\ pending \subseteq Edges

(* The successors of j that j has not been told of.                        *)
Untold(j) ==
  {k \in Arity(j) : \/ Target(<<j, k>>) \notin divergent
                    \/ Target(<<j, k>>) \in Elems(worklist)
                    \/ <<j, k>> \in pending}

(* remaining[j] is the number of successors j has not been told of: no     *)
(* edge is told twice, even when a block is named twice.                   *)
RemainingCounts == \A j \in Block : remaining[j] = Cardinality(Untold(j))

(* A block is on the worklist at most once, and only if it is divergent.   *)
PushedOnce ==
  /\ Elems(worklist) \subseteq divergent
  /\ \A i, j \in DOMAIN worklist : worklist[i] = worklist[j] => i = j

(* A set that contains the leaves and every block all of whose successors  *)
(* it contains.                                                            *)
Closed(S) ==
  /\ graph.leaf \subseteq S
  /\ \A b \in Block : graph.succ[b] # << >> /\ Elems(graph.succ[b]) \subseteq S => b \in S

(* Only blocks bound to diverge are marked: each of them is in every       *)
(* closed set.  A block with a way out (a path to a Return or a Stop, or   *)
(* one that never ends) is outside of some closed set.                     *)
OnlyDivergent == \A S \in SUBSET Block : Closed(S) => divergent \subseteq S

(* When the analysis returns, no block bound to diverge is missing.        *)
AllDivergent == Finished => Closed(divergent)

(* The worklist runs dry.                                                  *)
Terminates == <>Finished
=============================================================================

----------------------------- MODULE BrilligCfg -----------------------------
(***************************************************************************)
(* Control-flow recovery for Brillig bytecode: the passes that Cfg::build  *)
(* (src/acir2llzk/src/brillig/cfg) runs, in its order, as operators.       *)
(*                                                                         *)
(* Bytecode is a function from 0..n-1 to opcodes.  An opcode that is not a *)
(* branch is the abstract "Work": what it computes is the business of the  *)
(* per-opcode handlers.  Block ids are 0..m-1 as in the code; adjacency    *)
(* lists are sequences, because duplicates in them matter.                 *)
(*                                                                         *)
(* A pass that the code ends with Err(..) returns [ok |-> FALSE, why |-> s]. *)
(***************************************************************************)
EXTENDS Integers, Sequences, SequencesExt

NoBlock == -1                   \* Option::<BlockId>::None
Unreached == 1000000            \* usize::MAX in DomTree::rpo_index

Failure(why) == [ok |-> FALSE, why |-> why]

-----------------------------------------------------------------------------
(* Opcodes, as far as flow::build_handler tells them apart.                *)

Work        == [op |-> "Work"]
Jump(t)     == [op |-> "Jump", to |-> t]
JumpIf(t)   == [op |-> "JumpIf", to |-> t]
Call(t)     == [op |-> "Call", to |-> t]
Return      == [op |-> "Return"]
Stop        == [op |-> "Stop"]
Trap        == [op |-> "Trap"]

IsFlow(o)    == o.op # "Work"
HasTarget(o) == o.op \in {"Jump", "JumpIf", "Call"}

Size(f) == Cardinality(DOMAIN f)

IsBytecode(code) ==
  /\ DOMAIN code = 0 .. Size(code) - 1
  /\ \A i \in DOMAIN code :
       \/ code[i] \in {Work, Return, Stop, Trap}
       \/ HasTarget(code[i]) /\ code[i].to \in Nat

(* A finite set of numbers in ascending order (the iteration order of a    *)
(* BTreeSet).                                                              *)
Ascending(S) ==
  [k \in 1 .. Cardinality(S) |-> CHOOSE x \in S : Cardinality({y \in S : y < x}) = k - 1]

-----------------------------------------------------------------------------
(* block_splitting.rs                                                      *)

(* Where a block starts: index 0, every branch target, every index after a *)
(* flow opcode.                                                            *)
BlockStarts(code) ==
  {0} \cup {code[i].to : i \in {j \in DOMAIN code : HasTarget(code[j])}}
      \cup {i + 1 : i \in {j \in DOMAIN code : IsFlow(code[j]) /\ j + 1 < Size(code)}}

OutOfRangeTarget(code) ==
  \E i \in DOMAIN code : HasTarget(code[i]) /\ code[i].to >= Size(code)

(* The [start, end) range of each block, in ascending order of start.      *)
SplitBlocks(code) ==
  LET starts == Ascending(BlockStarts(code))
  IN  [b \in 0 .. Len(starts) - 1 |->
         [start |-> starts[b + 1],
          end   |-> IF b + 2 \in DOMAIN starts THEN starts[b + 2] ELSE Size(code)]]

BlockAt(ranges, i) == CHOOSE b \in DOMAIN ranges : ranges[b].start = i

(* The terminator of the block whose last opcode is at index `last`.       *)
Terminator(code, ranges, last) ==
  LET o  == code[last]
      At(i) == BlockAt(ranges, i)
  IN  CASE o.op = "Jump"   -> [kind |-> "Jump", to |-> At(o.to)]
        [] o.op = "JumpIf" -> [kind |-> "JumpIf", then_block |-> At(o.to), else_block |-> At(last + 1)]
        [] o.op = "Call"   -> [kind |-> "Call", target |-> At(o.to), continuation |-> At(last + 1)]
        [] o.op = "Work"   -> [kind |-> "Fallthrough", to |-> At(last + 1)]
        [] OTHER           -> [kind |-> o.op]

(* The last opcode must leave no fall-through off the end of the bytecode. *)
FallsOffEnd(code) == code[Size(code) - 1].op \in {"Work", "JumpIf", "Call"}

Classify(code, ranges) ==
  [b \in DOMAIN ranges |->
     [start |-> ranges[b].start, end |-> ranges[b].end,
      term  |-> Terminator(code, ranges, ranges[b].end - 1)]]

Kind(blocks, b) == blocks[b].term.kind

-----------------------------------------------------------------------------
(* utils.rs                                                                *)

SuccessorsOf(t) ==
  CASE t.kind \in {"Jump", "Fallthrough"} -> <<t.to>>
    [] t.kind = "JumpIf" -> <<t.then_block, t.else_block>>
    [] t.kind = "Call"   -> <<t.target, t.continuation>>
    [] OTHER -> << >>

ComputeSuccessors(blocks) == [b \in DOMAIN blocks |-> SuccessorsOf(blocks[b].term)]

(* preds[v] lists u once for every occurrence of v in succs[u], u ascending. *)
InvertEdges(succs) ==
  [v \in DOMAIN succs |->
     FlattenSeq([k \in 1 .. Size(succs) |->
                   LET hits == SelectSeq(succs[k - 1], LAMBDA s : s = v)
                   IN  [m \in DOMAIN hits |-> k - 1]])]

(* Procedure calls seen from the caller: a call that returns goes on at    *)
(* its continuation, one that diverges has no successor.                   *)
CallerSuccessors(blocks, succs, divergentEntries) ==
  [b \in DOMAIN blocks |->
     LET t == blocks[b].term
     IN  IF t.kind # "Call" THEN succs[b]
         ELSE IF t.target \in divergentEntries THEN << >>
         ELSE <<t.continuation>>]

CallTargets(blocks) ==
  {blocks[b].term.target : b \in {c \in DOMAIN blocks : Kind(blocks, c) = "Call"}}

-----------------------------------------------------------------------------
(* divergence.rs: the two rewrites.                                        *)

(* Mutant of IsTrapReturn: also when something jumps at the Return.        *)
IsTrapReturnJumpedAt(blocks, preds, b) ==
  /\ Kind(blocks, b) = "Trap"
  /\ b + 1 \in DOMAIN blocks
  /\ Kind(blocks, b + 1) = "Return"
  /\ blocks[b + 1].end - blocks[b + 1].start = 1

(* A Trap followed by a one-opcode Return block nobody jumps to: the shape *)
(* of RevertWithString.                                                    *)
IsTrapReturn(blocks, preds, b) ==
  /\ Kind(blocks, b) = "Trap"
  /\ b + 1 \in DOMAIN blocks
  /\ Kind(blocks, b + 1) = "Return"
  /\ blocks[b + 1].end - blocks[b + 1].start = 1
  /\ preds[b + 1] = << >>

RewriteTrapReturn(blocks, preds) ==
  [b \in DOMAIN blocks |->
     IF IsTrapReturn(blocks, preds, b)
     THEN [blocks[b] EXCEPT !.term = [kind |-> "TrapReturn"]]
     ELSE IF b > 0 /\ IsTrapReturn(blocks, preds, b - 1)
     THEN [blocks[b] EXCEPT !.term = [kind |-> "Unreachable"]]
     ELSE blocks[b]]

NonReturningEntries(blocks) ==
  {e \in CallTargets(blocks) : Kind(blocks, e) = "TrapReturn"}

(* JumpIf blocks with exactly one arm on a procedure entry lose that arm.  *)
DeadArm(blocks, b) ==
  LET t == blocks[b].term
      entries == CallTargets(blocks)
  IN  IF t.kind # "JumpIf" THEN NoBlock
      ELSE IF t.then_block \in entries /\ t.else_block \notin entries THEN t.then_block
      ELSE IF t.else_block \in entries /\ t.then_block \notin entries THEN t.else_block
      ELSE NoBlock

BadEntryEdge(blocks) ==
  \E b \in DOMAIN blocks :
    LET t == blocks[b].term
        entries == CallTargets(blocks)
    IN  \/ t.kind = "JumpIf" /\ {t.then_block, t.else_block} \subseteq entries
        \/ t.kind \in {"Jump", "Fallthrough"} /\ t.to \in entries

DropDeadArms(blocks) ==
  [b \in DOMAIN blocks |->
     LET t == blocks[b].term
         dead == DeadArm(blocks, b)
     IN  IF dead = NoBlock THEN blocks[b]
         ELSE [blocks[b] EXCEPT !.term =
                 [kind |-> "Jump",
                  to |-> IF dead = t.then_block THEN t.else_block ELSE t.then_block]]]

DropDeadSuccessors(blocks, succs) ==
  [b \in DOMAIN succs |-> SelectSeq(succs[b], LAMBDA s : s # DeadArm(blocks, b))]

DropDeadPredecessors(blocks, preds) ==
  [v \in DOMAIN preds |-> SelectSeq(preds[v], LAMBDA u : v # DeadArm(blocks, u))]

-----------------------------------------------------------------------------
(* divergence.rs: compute_always_divergent.  Module AlwaysDivergent has    *)
(* the worklist itself; here is the fixed point it reaches.                *)

IsDivergentLeaf(blocks, divergentEntries, b) ==
  LET t == blocks[b].term
  IN  t.kind \in {"Trap", "TrapReturn"} \/ (t.kind = "Call" /\ t.target \in divergentEntries)

DivergentClosure(blocks, csucc, divergentEntries) ==
  LET seed == {b \in DOMAIN blocks : IsDivergentLeaf(blocks, divergentEntries, b)}
      Level[k \in 0 .. Size(blocks)] ==
        IF k = 0 THEN seed
        ELSE LET D == Level[k - 1]
             IN  D \cup {b \in DOMAIN blocks : csucc[b] # << >> /\ ToSet(csucc[b]) \subseteq D}
  IN  Level[Size(blocks)]

-----------------------------------------------------------------------------
(* procedures.rs                                                           *)

(* Blocks reachable from the set `from` along the edge lists.              *)
RECURSIVE ReachFrom(_, _)
ReachFrom(succs, from) ==
  LET more == from \cup UNION {ToSet(succs[b]) : b \in from}
  IN  IF more = from THEN from ELSE ReachFrom(succs, more)

ProcedureAt(blocks, succs, csucc, entry) ==
  LET body   == ReachFrom(csucc, {entry})
      exits  == {b \in body : Kind(blocks, b) \in {"Return", "TrapReturn"}}
      leaves == {b \in body : succs[b] = << >>}
      wellFormed == \A b \in leaves : Kind(blocks, b) \in {"Return", "Trap", "TrapReturn"}
      ret    == {b \in exits : Kind(blocks, b) = "Return"}
  IN  [ok |-> wellFormed /\ Cardinality(exits) <= 1,
       body |-> body,
       return_block |-> IF ret = {} THEN NoBlock ELSE CHOOSE b \in ret : TRUE]

IdentifyProcedures(blocks, succs, csucc) ==
  [e \in CallTargets(blocks) |-> ProcedureAt(blocks, succs, csucc, e)]

-----------------------------------------------------------------------------
(* dom_tree.rs: Cooper-Harvey-Kennedy.                                     *)

(* dfs_postorder: visits succs in list order and appends on the way out.   *)
RECURSIVE DfsPostorder(_, _, _)
DfsPostorder(node, succs, acc) ==
  IF node \in acc.seen THEN acc
  ELSE LET start == [acc EXCEPT !.seen = @ \cup {node}]
           Visit[k \in 0 .. Len(succs[node])] ==
             IF k = 0 THEN start ELSE DfsPostorder(succs[node][k], succs, Visit[k - 1])
           done == Visit[Len(succs[node])]
       IN  [done EXCEPT !.out = Append(@, node)]

ReversePostorder(succs, entry) ==
  Reverse(DfsPostorder(entry, succs, [seen |-> {}, out |-> << >>]).out)

RpoIndex(succs, rpo) ==
  [b \in DOMAIN succs |->
     IF b \in ToSet(rpo) THEN (CHOOSE i \in DOMAIN rpo : rpo[i] = b) - 1 ELSE Unreached]

(* The nearest common ancestor of a and b in the tree built so far.        *)
RECURSIVE Intersect(_, _, _, _)
Intersect(a, b, idom, index) ==
  IF a = b THEN a
  ELSE IF index[a] > index[b] THEN Intersect(idom[a], b, idom, index)
  ELSE Intersect(a, idom[b], idom, index)

(* One assignment of the inner loop: reduce over the processed predecessors. *)
NewIdom(preds, idom, index, b) ==
  LET done == SelectSeq(preds[b], LAMBDA p : idom[p] # NoBlock)
      Meet[k \in 1 .. Len(done)] ==
        IF k = 1 THEN done[1] ELSE Intersect(Meet[k - 1], done[k], idom, index)
  IN  IF done = << >> THEN NoBlock ELSE Meet[Len(done)]

(* A pass over rpo[2..]; passes repeat until one changes nothing.          *)
RECURSIVE DomFixpoint(_, _, _, _)
DomFixpoint(preds, rpo, index, idom) ==
  LET Pass[k \in 1 .. Len(rpo)] ==
        IF k = 1 THEN idom
        ELSE LET prev == Pass[k - 1]
             IN  [prev EXCEPT ![rpo[k]] = NewIdom(preds, prev, index, rpo[k])]
      next == Pass[Len(rpo)]
  IN  IF next = idom THEN idom ELSE DomFixpoint(preds, rpo, index, next)

(* The tree rooted at the virtual node n (not among 0..n-1), which is then *)
(* stripped: whoever only it dominates has no immediate dominator.         *)
BuildFromVirtual(succs, preds, n) ==
  LET rpo   == ReversePostorder(succs, n)
      index == RpoIndex(succs, rpo)
      idom0 == [b \in 0 .. n |-> IF b = n THEN n ELSE NoBlock]
      idom  == DomFixpoint(preds, rpo, index, idom0)
  IN  [idom  |-> [b \in 0 .. n - 1 |-> IF idom[b] = n THEN NoBlock ELSE idom[b]],
       index |-> [b \in 0 .. n - 1 |-> index[b]]]

BuildWithSuperEntry(csucc, cpred, roots) ==
  LET n == Size(csucc)
      succs == [b \in 0 .. n |-> IF b = n THEN roots ELSE csucc[b]]
      preds == [b \in 0 .. n |->
                  IF b = n THEN << >>
                  ELSE cpred[b] \o [k \in DOMAIN SelectSeq(roots, LAMBDA r : r = b) |-> n]]
  IN  BuildFromVirtual(succs, preds, n)

IsExit(blocks, b) == Kind(blocks, b) \in {"Return", "Stop", "Trap", "TrapReturn"}

BuildPost(blocks, lsucc, lpred) ==
  LET n == Size(blocks)
      exits == SelectSeq([k \in 1 .. n |-> k - 1], LAMBDA b : IsExit(blocks, b))
      rsucc == [b \in 0 .. n |-> IF b = n THEN exits ELSE lpred[b]]
      rpred == [b \in 0 .. n |->
                  IF b = n THEN << >>
                  ELSE IF IsExit(blocks, b) THEN Append(lsucc[b], n) ELSE lsucc[b]]
  IN  BuildFromVirtual(rsucc, rpred, n)

(* DomTree::dominates: reflexive on reached blocks, walks the idom chain.  *)
RECURSIVE OnIdomChain(_, _, _)
OnIdomChain(idom, d, b) ==
  b # NoBlock /\ (b = d \/ OnIdomChain(idom, d, idom[b]))

Dominates(tree, d, b) == tree.index[b] # Unreached /\ OnIdomChain(tree.idom, d, b)

IsReducible(csucc, tree) ==
  \A u \in DOMAIN csucc : \A v \in ToSet(csucc[u]) :
    \/ tree.index[u] = Unreached
    \/ tree.index[v] = Unreached
    \/ tree.index[u] < tree.index[v]
    \/ Dominates(tree, v, u)

-----------------------------------------------------------------------------
(* loops.rs: loop bodies by header.                                        *)

BackEdgeSources(cpred, tree, h) == {u \in ToSet(cpred[h]) : Dominates(tree, h, u)}

RECURSIVE ReverseReach(_, _, _)
ReverseReach(cpred, body, stack) ==
  LET new == stack \ body
  IN  IF new = {} THEN body
      ELSE ReverseReach(cpred, body \cup new, UNION {ToSet(cpred[b]) : b \in new})

DetectNaturalLoops(cpred, tree) ==
  [h \in {b \in DOMAIN cpred : BackEdgeSources(cpred, tree, b) # {}} |->
     ReverseReach(cpred, {h}, BackEdgeSources(cpred, tree, h))]

-----------------------------------------------------------------------------
(* Cfg::build, after block classification.                                 *)
CfgOfBlocks(raw) ==
  LET succs0 == ComputeSuccessors(raw)
      preds0 == InvertEdges(succs0)
      tagged == RewriteTrapReturn(raw, preds0)
      noret  == NonReturningEntries(tagged)
      blocks == DropDeadArms(tagged)
      succs  == DropDeadSuccessors(tagged, succs0)
      preds  == DropDeadPredecessors(tagged, preds0)
      csucc  == CallerSuccessors(blocks, succs, noret)
      cpred  == InvertEdges(csucc)
      procs  == IdentifyProcedures(blocks, succs, csucc)
      roots  == <<0>> \o Ascending(DOMAIN procs)
      dom    == BuildWithSuperEntry(csucc, cpred, roots)
      div    == DivergentClosure(blocks, csucc, noret)
      lsucc  == [b \in DOMAIN csucc |-> SelectSeq(csucc[b], LAMBDA s : s \notin div)]
      lpred  == InvertEdges(lsucc)
  IN  IF BadEntryEdge(tagged) THEN Failure("edge into procedure entry")
      ELSE IF \E e \in DOMAIN procs : ~procs[e].ok THEN Failure("procedure exits")
      ELSE IF ~IsReducible(csucc, dom) THEN Failure("irreducible")
      ELSE [ok |-> TRUE, blocks |-> blocks, successors |-> succs, predecessors |-> preds,
            caller_succ |-> csucc, caller_pred |-> cpred, dominators |-> dom,
            post_dominators |-> BuildPost(blocks, lsucc, lpred),
            loops |-> DetectNaturalLoops(cpred, dom),
            procedures |-> procs, divergent_blocks |-> div]

BuildCfg(code) ==
  IF code = << >> THEN Failure("empty")
  ELSE IF OutOfRangeTarget(code) THEN Failure("branch target")
  ELSE IF FallsOffEnd(code) THEN Failure("no terminator at the end")
  ELSE CfgOfBlocks(Classify(code, SplitBlocks(code)))
=============================================================================

--------------------------- MODULE MCStructuredRun ---------------------------
(***************************************************************************)
(* Families of small bytecodes for the runs of StructuredRun.              *)
(***************************************************************************)
EXTENDS StructuredRun

(* Bytecode from a listing: the first opcode gets index 0.                 *)
Listing(ops) == [i \in 0 .. Len(ops) - 1 |-> ops[i + 1]]

BranchesTo(targets) == UNION {{Jump(t), JumpIf(t), Call(t)} : t \in targets}
Leaves == {Return, Stop, Trap}

(* Every way to put, at the front of a bytecode that ends at index end,    *)
(* opcodes that only branch forward.                                       *)
ForwardFrom[i \in Nat, end \in Nat] ==
  IF i = end THEN {<<o>> : o \in Leaves}
  ELSE {<<o>> \o rest : o \in {Work} \cup Leaves \cup BranchesTo(i + 1 .. end),
                        rest \in ForwardFrom[i + 1, end]}

(* Every bytecode of n opcodes that only branches forward and does not run *)
(* off its end: no loop, no recursion, everything else.                    *)
Forward(n) == {Listing(ops) : ops \in ForwardFrom[0, n - 1]}

Forward5 == Forward(5)

(* Every bytecode of n opcodes that ends in its only Stop, calls nothing   *)
(* and has all its opcodes in reach: any branch, loops included.           *)
EndsInStop(n) ==
  LET To(o, i) == CASE o.op = "Work" -> {i + 1} [] o.op = "Jump" -> {o.to}
                    [] o.op = "JumpIf" -> {o.to, i + 1} [] OTHER -> {}
      Reach(c) ==
        LET R[k \in 0 .. n] == IF k = 0 THEN {0}
                               ELSE LET r == R[k - 1] IN r \cup UNION {To(c[i], i) : i \in r}
        IN  R[n]
      branches == UNION {{Jump(t), JumpIf(t)} : t \in 0 .. n - 1}
      all == {Listing(Append(ops, Stop)) : ops \in [1 .. n - 1 -> {Work, Trap} \cup branches]}
  IN  {c \in all : Reach(c) = 0 .. n - 1}

-----------------------------------------------------------------------------
(* What is known to go wrong (the runs named in brackets), stated on the   *)
(* compiled form of a bytecode, so that everything else can be checked.    *)

RECURSIVE LoopsIn(_)
LoopsIn(nodes) ==
  UNION {LET n == nodes[i]
         IN  CASE n.node = "Loop" -> {n} \cup LoopsIn(n.body) \cup LoopsIn(n.test_prefix)
               [] n.node = "IfThenElse" -> LoopsIn(n.then_branch) \cup LoopsIn(n.else_branch)
               [] OTHER -> {} : i \in DOMAIN nodes}

(* [StaleFlag] A loop that can be entered again after a break out of it.   *)
EnteredAfterBreak(cfg, tree) ==
  \E l \in LoopsIn(tree) :
    /\ l.slot # NoSlot
    /\ \E shape \in {GetLoopShape(cfg, l.header)} : \E edge \in ToSet(shape.exit_edges) :
         /\ edge.src \notin {l.header, shape.effective_header}
         /\ l.header \in ReachFrom(cfg.caller_succ, {edge.dst})

(* [ExitPrefix] A loop with breaks whose own exit passes through Work.    *)
WorkOnExitPrefix(cfg, tree, c) ==
  \E l \in LoopsIn(tree) :
    /\ l.slot # NoSlot
    /\ \E b \in ToSet(GetLoopShape(cfg, l.header).exit_prefix) :
         \E i \in cfg.blocks[b].start .. cfg.blocks[b].end - 1 : c[i] = Work

(* [BackEdgeJoin] A condition in a loop, other than the one that decides *)
(* the loop's exit, from which a back edge can be reached before the join, *)
(* unless the join is where the loop's breaks go.                          *)
BackEdgeBeforeJoin(cfg) ==
  \E h \in DOMAIN cfg.loops :
    \E shape \in {GetLoopShape(cfg, h)} : \E b \in cfg.loops[h] \ {shape.effective_header} :
      LET join == cfg.post_dominators.idom[b]
          avoiding == [x \in DOMAIN cfg.caller_succ |->
                         SelectSeq(cfg.caller_succ[x], LAMBDA y : y # join)]
      IN  /\ Kind(cfg.blocks, b) = "JumpIf" /\ join \notin {NoBlock, h, shape.exit_dest}
          /\ h \in ReachFrom(avoiding, ToSet(avoiding[b]))

(* [ExitPrefix] The test region of a loop ends at a block the walk does *)
(* not stop at: a loop in the test region swallows it as part of its exit. *)
TestEndSwallowed(cfg, tree) ==
  \E outer \in LoopsIn(tree) : \E inner \in LoopsIn(outer.test_prefix) :
    Last(outer.test_prefix).block \in ToSet(GetLoopShape(cfg, inner.header).exit_prefix)

(* The translator accepts it, it loops, and none of these applies.         *)
RegularLoops(c) ==
  LET out == Compile(c)
  IN  /\ out.st = "ok" /\ out.cfg.loops # << >>
      /\ ~EnteredAfterBreak(out.cfg, out.main.nodes)
      /\ ~WorkOnExitPrefix(out.cfg, out.main.nodes, c)
      /\ ~BackEdgeBeforeJoin(out.cfg)
      /\ ~TestEndSwallowed(out.cfg, out.main.nodes)

SmallLoops ==
  {c \in UNION {EndsInStop(n) : n \in 2 .. 5} : RegularLoops(c)}

-----------------------------------------------------------------------------
(* Bytecode of structured sources, laid out as Noir's code generator does: *)
(* a two-way branch is a JumpIf followed by a Jump.  A source is a tuple   *)
(* whose head names its form; what it compiles to depends on where it is   *)
(* placed and on where break, continue and the callee are.                 *)
W              == <<"work">>
A              == <<"assert">>
C              == <<"call">>
None           == <<"none">>
Break          == <<"break">>
Continue       == <<"continue">>
Both(a, b)     == <<"seq", a, b>>
If(a, b)       == <<"if", a, b>>
While(test, a) == <<"while", test, a>>      \* test: what computes the condition
Forever(a)     == <<"loop", a>>

RECURSIVE Lay(_, _, _, _, _)
Lay(s, at, brk, cont, callee) ==
  LET Sub(x, where) == Lay(x, where, brk, cont, callee)
      size(x) == Len(Lay(x, 0, 0, 0, 0))
  IN  CASE s[1] = "work"     -> <<Work>>
        [] s[1] = "none"     -> << >>
        [] s[1] = "assert"   -> <<JumpIf(at + 2), Trap>>
        [] s[1] = "call"     -> <<Call(callee)>>
        [] s[1] = "break"    -> <<Jump(brk)>>
        [] s[1] = "continue" -> <<Jump(cont)>>
        [] s[1] = "seq"      -> Sub(s[2], at) \o Sub(s[3], at + size(s[2]))
        [] s[1] = "if"       ->
             LET else == at + 3 + size(s[2])
                 end  == else + size(s[3])
             IN  <<JumpIf(at + 2), Jump(else)>> \o Sub(s[2], at + 2) \o <<Jump(end)>>
                 \o Sub(s[3], else)
        [] s[1] = "while"    ->
             LET test == at + size(s[2])
                 end  == test + 3 + size(s[3])
             IN  Sub(s[2], at) \o <<JumpIf(test + 2), Jump(end)>>
                 \o Lay(s[3], test + 2, end, at, callee) \o <<Jump(at)>>
        [] s[1] = "loop"     ->
             LET end == at + 1 + size(s[2])
             IN  Lay(s[2], at, end, at, callee) \o <<Jump(at)>>

(* A main body, and the procedure it calls.                                *)
Compiled(main, callee) ==
  LET entry == Len(Lay(main, 0, 0, 0, 0)) + 1
  IN  Listing(Append(Lay(main, 0, 0, 0, entry), Stop)
              \o Append(Lay(callee, entry, 0, 0, entry), Return))

Only(main) == Listing(Append(Lay(main, 0, 0, 0, 0), Stop))

(* Loops, conditionals, assertions and calls nested two deep, no breaks;   *)
(* and calls of a procedure that loops or calls itself.                    *)
Simple == {W, A, C}
Shallow ==
  Simple \cup {If(a, b) : a \in Simple, b \in Simple \cup {None}}
         \cup {While(None, a) : a \in Simple} \cup {While(W, W), While(A, W)}
Deep ==
  {If(a, b) : a \in Shallow, b \in Shallow \cup {None}}
    \cup {While(W, a) : a \in Shallow \cup {Both(x, y) : x, y \in Shallow}}
Structured2 ==
  {Compiled(m, W) : m \in Deep}
    \cup {Compiled(m, p) : m \in {C, While(W, C)},
                           p \in {Both(W, While(W, If(C, W))), If(C, W), If(W, Both(C, C)),
                                  Both(W, While(A, A))}}

Unbroken == Forward5 \cup Structured2

(* One loop with breaks (and continues) at every position of its body.     *)
Bit == {None, W, A}
Breaking ==
  {If(a, b) : a \in {Break, Both(W, Break)}, b \in Bit}
    \cup {If(a, Break) : a \in Bit} \cup {If(If(Break, a), b) : a, b \in Bit}
Breaks ==
  {Only(While(t, Both(x, Both(b, y)))) :
      t \in {None, W, A}, x \in Bit, b \in Breaking, y \in {None, W} \cup {If(Break, W)}}
    \cup {Only(While(W, Both(If(Continue, x), b))) : x \in Bit, b \in Breaking \cup Bit}

(* Loops with breaks one after the other, and in a procedure that is called *)
(* twice, or in a loop, or before and after a break, and that may call      *)
(* itself in its loop, before it or after it.  Work comes first because a   *)
(* loop at the entry of a procedure is refused.                             *)
Broken ==
  {While(W, If(Break, W)), While(W, If(Both(W, Break), If(Break, W))),
   While(W, Both(If(Continue, None), If(Break, W)))}
Pairs == {Both(a, b) : a, b \in Broken} \cup {If(a, b) : a, b \in Broken}
           \cup {Both(If(a, W), Both(While(W, W), b)) : a, b \in Broken}
Callers == {Both(C, C), While(W, Both(C, If(Break, W))), Both(While(W, If(Break, C)), C)}
Recursive ==
  {While(W, Both(If(C, None), If(Break, W)))}
    \cup {Both(If(C, None), a) : a \in Broken} \cup {Both(a, If(C, None)) : a \in Broken}
Reentered ==
  {Only(m) : m \in Pairs}
    \cup {Compiled(m, Both(W, p)) : m \in Callers, p \in Recursive \cup {Both(a, a) : a \in Broken}}

Loops == SmallLoops \cup Breaks \cup Reentered

-----------------------------------------------------------------------------
(* What goes wrong, one deviation each: to see one that another run's       *)
(* counterexample hides, give Programs that set alone.                      *)
StaleFlag    == {Only(While(W, While(W, If(Both(W, Break), None))))}
RetestsTest  == {Only(Forever(Both(W, Both(If(Break, None), If(Both(W, Break), None)))))}
ExitPrefix   == {Listing(<<JumpIf(4), JumpIf(6), Work, Jump(0), Work, Jump(6), Stop>>),
                 Listing(<<JumpIf(1), JumpIf(1), Jump(3), Work, JumpIf(0), Stop>>)}
BackEdgeJoin == {Only(Forever(Both(If(If(Break, None), None), W)))}
NoAnswer     == {Listing(<<JumpIf(2), Trap, JumpIf(0), Trap>>),
                 Listing(<<JumpIf(3), JumpIf(0), JumpIf(1), Stop>>)}
UnlikeVM == StaleFlag \cup ExitPrefix \cup BackEdgeJoin \cup RetestsTest
=============================================================================

----------------------------- MODULE Structurer -----------------------------
(***************************************************************************)
(* Structured control flow out of a CFG: the structurer                    *)
(* (src/acir2llzk/src/brillig/structurer) and the checks of                *)
(* structured_translator.rs on its result, as operators on the records     *)
(* BuildCfg returns.                                                       *)
(*                                                                         *)
(* A tree is a sequence of nodes (StructureNode).  Where the node of the   *)
(* code names the register of a condition, the node here names the block   *)
(* whose JumpIf reads it.                                                  *)
(*                                                                         *)
(* A walk ends "ok", with "err" (Err(..)), with "panic" (an expect or an   *)
(* unreachable! that fires) or with "hang" (more than WalkBound steps: the *)
(* code would recurse or loop for ever).                                   *)
(***************************************************************************)
EXTENDS BrilligCfg

CONSTANT WalkBound              \* steps of one walk before it counts as a hang

ASSUME WalkBoundAssumption == WalkBound \in Nat \ {0}

NoSlot == -1

Linear(b)              == [node |-> "Linear", block |-> b]
IfThenElse(b, th, el)  == [node |-> "IfThenElse", block |-> b, then_branch |-> th, else_branch |-> el]
SetEscapeFlag(s)       == [node |-> "SetEscapeFlag", slot |-> s]
CallNode(t)            == [node |-> "Call", target |-> t]
BoolAssert(b)          == [node |-> "BoolAssert", block |-> b]
Leaf(kind, b)          == [node |-> kind, block |-> b]     \* Trap, Stop, Return

-----------------------------------------------------------------------------
(* loop_shape.rs                                                           *)

(* The edges out of a loop body that do not lead to a certain panic, by    *)
(* ascending source and in successor order.                                *)
ExitEdges(cfg, body) ==
  FlattenSeq([k \in 1 .. Size(cfg.blocks) |->
    IF k - 1 \notin body THEN << >>
    ELSE LET out == SelectSeq(cfg.caller_succ[k - 1],
                              LAMBDA d : d \notin body /\ d \notin cfg.divergent_blocks)
         IN  [m \in DOMAIN out |-> [src |-> k - 1, dst |-> out[m]]]])

(* A block with one way in (seen by the caller) and one way out.           *)
IsTrampoline(cfg, b) ==
  /\ Len(cfg.caller_pred[b]) = 1
  /\ Len(cfg.successors[b]) = 1
  /\ Kind(cfg.blocks, b) \in {"Jump", "Fallthrough"}

(* The chain of trampolines from b and the first block that is none.       *)
RECURSIVE WalkToCanonical(_, _)
WalkToCanonical(cfg, b) ==
  IF ~IsTrampoline(cfg, b) THEN [chain |-> << >>, dest |-> b]
  ELSE LET rest == WalkToCanonical(cfg, cfg.successors[b][1])
       IN  [rest EXCEPT !.chain = <<b>> \o @]

RECURSIVE WalkToConvergence(_, _)
WalkToConvergence(cfg, b) ==
  LET at == WalkToCanonical(cfg, b).dest
      pd == cfg.post_dominators.idom[at]
  IN  IF Kind(cfg.blocks, at) = "JumpIf" /\ pd # NoBlock THEN WalkToConvergence(cfg, pd) ELSE at

(* Steps from the natural header past a JumpIf that does not decide the    *)
(* loop's exit: both arms inside (to their join) or one inside and the     *)
(* other a certain panic (to the one inside).                              *)
RECURSIVE FindEffectiveHeader(_, _, _, _)
FindEffectiveHeader(cfg, body, b, fuel) ==
  LET t  == cfg.blocks[b].term
      pd == cfg.post_dominators.idom[b]
      Found(st, h) == [st |-> st, header |-> h]
      Step(next)   == IF next = b THEN Found("ok", b)
                      ELSE FindEffectiveHeader(cfg, body, next, fuel - 1)
  IN  IF fuel = 0 THEN Found("hang", b)
      ELSE IF t.kind # "JumpIf" THEN Found("ok", b)
      ELSE IF {t.then_block, t.else_block} \subseteq body
      THEN IF pd = NoBlock \/ pd \notin body THEN Found("err", b) ELSE Step(pd)
      ELSE IF t.then_block \in body /\ t.else_block \in cfg.divergent_blocks
      THEN Step(t.then_block)
      ELSE IF t.else_block \in body /\ t.then_block \in cfg.divergent_blocks
      THEN Step(t.else_block)
      ELSE Found("ok", b)

NoShape(st) == [st |-> st]

(* Mutants of WhileShape: the loop goes on when the condition is false; the *)
(* blocks between the loop and exit_dest are forgotten.                    *)
WhileShapeInverted(cfg, body, eff, exits) ==
  LET t == cfg.blocks[eff].term
      thenIn == t.then_block \in body
      out == WalkToCanonical(cfg, IF thenIn THEN t.else_block ELSE t.then_block)
  IN  IF thenIn = (t.else_block \in body) THEN NoShape("err")
      ELSE [st |-> "ok", effective_header |-> eff,
            body_entry |-> IF thenIn THEN t.then_block ELSE t.else_block,
            exit_dest |-> out.dest, exit_prefix |-> out.chain,
            condition |-> [block |-> eff, continue_on |-> ~thenIn], exit_edges |-> exits]

WhileShapeNoPrefix(cfg, body, eff, exits) ==
  LET t == cfg.blocks[eff].term
      thenIn == t.then_block \in body
      out == WalkToCanonical(cfg, IF thenIn THEN t.else_block ELSE t.then_block)
  IN  IF thenIn = (t.else_block \in body) THEN NoShape("err")
      ELSE [st |-> "ok", effective_header |-> eff,
            body_entry |-> IF thenIn THEN t.then_block ELSE t.else_block,
            exit_dest |-> out.dest, exit_prefix |-> << >>,
            condition |-> [block |-> eff, continue_on |-> thenIn], exit_edges |-> exits]

(* A while loop: exactly one arm of the effective header stays inside.     *)
WhileShape(cfg, body, eff, exits) ==
  LET t == cfg.blocks[eff].term
      thenIn == t.then_block \in body
      out == WalkToCanonical(cfg, IF thenIn THEN t.else_block ELSE t.then_block)
  IN  IF thenIn = (t.else_block \in body) THEN NoShape("err")
      ELSE [st |-> "ok", effective_header |-> eff,
            body_entry |-> IF thenIn THEN t.then_block ELSE t.else_block,
            exit_dest |-> out.dest, exit_prefix |-> out.chain,
            condition |-> [block |-> eff, continue_on |-> thenIn], exit_edges |-> exits]

(* A loop without a condition of its own: left by its breaks only.         *)
ForeverShape(cfg, body, eff, exits) ==
  LET to == cfg.blocks[eff].term.to
  IN  IF to \notin body \/ exits = << >> THEN NoShape("err")
      ELSE [st |-> "ok", effective_header |-> eff, body_entry |-> to,
            exit_dest |-> WalkToCanonical(cfg, exits[1].dst).dest, exit_prefix |-> << >>,
            condition |-> [block |-> NoBlock, continue_on |-> TRUE], exit_edges |-> exits]

GetLoopShape(cfg, header) ==
  LET body  == cfg.loops[header]
      exits == ExitEdges(cfg, body)
      found == FindEffectiveHeader(cfg, body, header, WalkBound)
      kind  == Kind(cfg.blocks, found.header)
      shape == CASE kind = "JumpIf" -> WhileShape(cfg, body, found.header, exits)
                 [] kind \in {"Jump", "Fallthrough"} -> ForeverShape(cfg, body, found.header, exits)
                 [] OTHER -> NoShape("err")
  IN  IF found.st # "ok" THEN NoShape(found.st)
      ELSE IF shape.st # "ok" THEN shape
      ELSE IF \A k \in DOMAIN exits : WalkToConvergence(cfg, exits[k].dst)
                                      = WalkToConvergence(cfg, shape.exit_dest)
      THEN shape
      ELSE NoShape("err")

-----------------------------------------------------------------------------
(* escape_flag.rs: a break may only be the last thing an iteration does.   *)
RECURSIVE FlagsAtTail(_, _)
FlagsAtTail(seq, tailInherited) ==
  \A i \in DOMAIN seq :
    LET isTail == tailInherited /\ i = Len(seq)
    IN  CASE seq[i].node = "SetEscapeFlag" -> isTail
          [] seq[i].node = "IfThenElse" -> /\ FlagsAtTail(seq[i].then_branch, isTail)
                                           /\ FlagsAtTail(seq[i].else_branch, isTail)
          [] OTHER -> TRUE

-----------------------------------------------------------------------------
(* walker.rs.  A walk returns the nodes it produced and the number of      *)
(* escape flags allocated so far in this body.                             *)

Walked(st, nodes, flags) == [st |-> st, nodes |-> nodes, flags |-> flags]

NoCtx == [header |-> NoBlock, exit_dest |-> NoBlock, slot |-> NoSlot]

TrapPeephole(cfg, b) ==
  LET t == cfg.blocks[b].term
  IN  /\ t.kind = "JumpIf"
      /\ t.else_block \in cfg.divergent_blocks
      /\ t.then_block \notin cfg.divergent_blocks
      /\ cfg.predecessors[t.else_block] = <<b>>

RECURSIVE Region(_, _, _, _, _, _, _, _)

(* Both arms of a conditional, then first; the flags thread through.       *)
Arms(cfg, b, walkThen, walkElse, end, ctx, flags, fuel) ==
  LET t  == cfg.blocks[b].term
      th == IF walkThen THEN Region(cfg, t.then_block, end, ctx, ctx.header, << >>, flags, fuel)
                        ELSE Walked("ok", << >>, flags)
      el == IF walkElse THEN Region(cfg, t.else_block, end, ctx, ctx.header, << >>, th.flags, fuel)
                        ELSE Walked("ok", << >>, th.flags)
  IN  IF th.st # "ok" THEN th
      ELSE IF el.st # "ok" THEN el
      ELSE Walked("ok", <<IfThenElse(b, th.nodes, el.nodes)>>, el.flags)

(* structure_joining_cond and structure_diverging_cond: which arms are     *)
(* walked, where they end and where the walk goes on afterwards.           *)
CondPlan(cfg, b) ==
  LET t == cfg.blocks[b].term
      join == cfg.post_dominators.idom[b]
      thenDiv == t.then_block \in cfg.divergent_blocks
      elseDiv == t.else_block \in cfg.divergent_blocks
      Plan(th, el, end, cont) == [th |-> th, el |-> el, end |-> end, cont |-> cont]
  IN  IF join # NoBlock THEN Plan(TRUE, TRUE, join, join)
      ELSE IF thenDiv /\ ~elseDiv THEN Plan(TRUE, FALSE, NoBlock, t.else_block)
      ELSE IF elseDiv /\ ~thenDiv THEN Plan(FALSE, TRUE, NoBlock, t.then_block)
      ELSE Plan(TRUE, TRUE, NoBlock, NoBlock)

(* Mutant of AllocEscapeFlag: the next loop gets the same slot.            *)
AllocEscapeFlagShared(flags) == [slot |-> 0, flags |-> 1]

(* alloc_escape_flag: slots are numbered in the order of the walk.         *)
AllocEscapeFlag(flags) == [slot |-> flags, flags |-> flags + 1]

(* structure_loop, once the shape of the loop is known.                    *)
LoopOfShape(cfg, header, shape, flags, fuel) ==
  LET eff    == shape.effective_header
      breaks == \E k \in DOMAIN shape.exit_edges : shape.exit_edges[k].src \notin {header, eff}
      alloc  == IF breaks THEN AllocEscapeFlag(flags) ELSE [slot |-> NoSlot, flags |-> flags]
      slot   == alloc.slot
      ctx    == [header |-> header, exit_dest |-> shape.exit_dest, slot |-> slot]
      prefix == IF eff = header THEN Walked("ok", << >>, alloc.flags)
                ELSE Region(cfg, header, eff, ctx, NoBlock, << >>, alloc.flags, fuel)
      body   == Region(cfg, shape.body_entry, NoBlock, ctx, header, << >>, prefix.flags, fuel)
      loop   == [node |-> "Loop", header |-> header,
                 test_prefix |-> Append(prefix.nodes, Linear(eff)),
                 condition |-> shape.condition, slot |-> slot, body |-> body.nodes]
      after  == [k \in DOMAIN shape.exit_prefix |-> Linear(shape.exit_prefix[k])]
  IN  IF shape.st # "ok" THEN Walked(shape.st, << >>, flags) @@ [next |-> NoBlock]
      ELSE IF prefix.st # "ok" THEN prefix @@ [next |-> NoBlock]
      ELSE IF body.st # "ok" THEN body @@ [next |-> NoBlock]
      ELSE IF breaks /\ ~FlagsAtTail(body.nodes, TRUE)
      THEN Walked("err", << >>, body.flags) @@ [next |-> NoBlock]
      ELSE Walked("ok", <<loop>> \o after, body.flags) @@ [next |-> shape.exit_dest]

LoopNodes(cfg, header, flags, fuel) ==
  LoopOfShape(cfg, header, GetLoopShape(cfg, header), flags, fuel)

(* structure_region from block b: stops at the loop's exit (a break), at   *)
(* `end` (the join of a conditional) or at `stop` (the loop's header).     *)
Region(cfg, b, end, ctx, stop, nodes, flags, fuel) ==
  LET t == cfg.blocks[b].term
      Go(next, more, fl) == Region(cfg, next, end, ctx, stop, nodes \o more, fl, fuel - 1)
      loop == LoopNodes(cfg, b, flags, fuel - 1)
      plan == CondPlan(cfg, b)
      cond == Arms(cfg, b, plan.th, plan.el, plan.end, ctx, flags, fuel - 1)
      here == <<Linear(b)>>
  IN  IF fuel = 0 THEN Walked("hang", nodes, flags)
      ELSE IF b = ctx.exit_dest
      THEN IF ctx.slot = NoSlot THEN Walked("panic", nodes, flags)
           ELSE Walked("ok", Append(nodes, SetEscapeFlag(ctx.slot)), flags)
      ELSE IF b = end \/ b = stop THEN Walked("ok", nodes, flags)
      ELSE IF b \in DOMAIN cfg.loops /\ b # ctx.header
      THEN IF loop.st # "ok" THEN loop ELSE Go(loop.next, loop.nodes, loop.flags)
      ELSE IF TrapPeephole(cfg, b) THEN Go(t.then_block, Append(here, BoolAssert(b)), flags)
      ELSE CASE t.kind \in {"Jump", "Fallthrough"} -> Go(t.to, here, flags)
             [] t.kind = "JumpIf" ->
                  IF cond.st # "ok" THEN cond
                  ELSE IF \/ plan.cont = NoBlock
                          \/ ctx.slot # NoSlot /\ plan.cont = ctx.exit_dest
                  THEN Walked("ok", nodes \o here \o cond.nodes, cond.flags)
                  ELSE Go(plan.cont, here \o cond.nodes, cond.flags)
             [] t.kind = "Call" ->
                  IF cfg.procedures[t.target].return_block = NoBlock
                  THEN Walked("ok", nodes \o here \o <<CallNode(t.target)>>, flags)
                  ELSE Go(t.continuation, Append(here, CallNode(t.target)), flags)
             [] t.kind = "Return" -> Walked("ok", nodes \o here \o <<Leaf("Return", b)>>, flags)
             [] t.kind = "Stop"   -> Walked("ok", nodes \o here \o <<Leaf("Stop", b)>>, flags)
             [] t.kind \in {"Trap", "TrapReturn"} ->
                  Walked("ok", nodes \o here \o <<Leaf("Trap", b)>>, flags)
             [] t.kind = "Unreachable" -> Walked("panic", nodes, flags)

StructureOneBody(cfg, entry) ==
  Region(cfg, entry, NoBlock, NoCtx, NoBlock, << >>, 0, WalkBound)

-----------------------------------------------------------------------------
(* structured_translator.rs: what emission rejects, and where it panics.   *)
(* Emission visits the nodes in order and stops at the first that fails.   *)

FirstBad(verdicts) ==
  LET bad == SelectSeq(verdicts, LAMBDA v : v # "ok") IN IF bad = << >> THEN "ok" ELSE bad[1]

RECURSIVE EmitBody(_)
EmitNode(nd) ==
  CASE nd.node = "Stop" -> "panic"
    [] nd.node = "IfThenElse" -> FirstBad(<<EmitBody(nd.then_branch), EmitBody(nd.else_branch)>>)
    [] nd.node = "Loop" ->
         FirstBad(<<EmitBody(nd.test_prefix),
                    IF nd.condition.block = NoBlock /\ nd.slot = NoSlot THEN "err" ELSE "ok",
                    EmitBody(nd.body)>>)
    [] OTHER -> "ok"
EmitBody(nodes) == FirstBad([i \in DOMAIN nodes |-> EmitNode(nodes[i])])

EmitMain(nodes) ==
  IF nodes = << >> THEN "err"
  ELSE FirstBad(<<EmitBody(Front(nodes)), IF Last(nodes).node = "Stop" THEN "ok" ELSE "err">>)

(* BrilligFunctionEmitter::translate on what structure_function returned:  *)
(* all walks come before the first emission.                               *)
Emitted(procs, main) ==
  LET order == Ascending(DOMAIN procs)
      walks == FirstBad(Append([k \in DOMAIN order |-> procs[order[k]].st], main.st))
      emits == FirstBad(Append([k \in DOMAIN order |-> EmitBody(procs[order[k]].nodes)],
                               EmitMain(main.nodes)))
  IN  [st |-> IF walks # "ok" THEN walks ELSE emits, main |-> main, procedures |-> procs]

Structured(cfg) ==
  IF ~cfg.ok THEN [st |-> "err", why |-> cfg.why]
  ELSE Emitted([e \in DOMAIN cfg.procedures |-> StructureOneBody(cfg, e)],
               StructureOneBody(cfg, 0)) @@ [cfg |-> cfg]

(* From bytecode to structured function.                                   *)
Compile(code) == Structured(BuildCfg(code))
=============================================================================

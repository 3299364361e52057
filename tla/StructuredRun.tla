---------------------------- MODULE StructuredRun ----------------------------
(***************************************************************************)
(* Running the LLZK code emitted for a structured Brillig function         *)
(* (structured_translator.rs, translator.rs): scf.if, scf.while with its   *)
(* test region, function.call of procedures and the escape flags in RAM.   *)
(*                                                                         *)
(* The machine keeps a stack of frames, innermost first:                   *)
(*   ops   Work opcodes of a block still to run                            *)
(*   seq   nodes still to emit of a region                                 *)
(*   loop  an scf.while, in its before-region ("test") or after-region     *)
(*   proc  an invocation of main or of a procedure, with its escape flags  *)
(*   fail  an assertion that does not hold                                 *)
(*                                                                         *)
(* pc, stack and last are history variables: where the Brillig VM would be *)
(* had it executed what this machine executed.  A step of this machine     *)
(* moves pc according to the opcode it executes itself, wherever pc was:   *)
(* that every such step is also one the VM may take is the property        *)
(* ImplementsVM, nothing built into the model.                             *)
(***************************************************************************)
EXTENDS Structurer

CONSTANTS
  Programs,        \* the bytecodes translated and run
  MaxDepth,        \* bound on the call stack
  RetestIsFree     \* re-running a test region after a break has no effect

ASSUME RunAssumption == MaxDepth \in Nat /\ RetestIsFree \in BOOLEAN

VARIABLES
  code,            \* the bytecode
  procs,           \* procedure entry -> its structured body
  blocks,          \* the blocks of the CFG
  ctl,             \* the stack of frames
  result,          \* "new", "refused", "panic", "hang", "running", "stopped", "failed"
  pc, stack, last  \* history: the Brillig VM

vars == <<code, procs, blocks, ctl, result, pc, stack, last>>
vmHistory == <<pc, stack, last>>

VM == INSTANCE BrilligVM WITH MaxDepth <- MaxDepth, code <- code, pc <- pc, stack <- stack,
                              result <- result, last <- last

Seq0(nodes)      == [frame |-> "seq", nodes |-> nodes]
Ops(is)          == [frame |-> "ops", ops |-> is]
LoopAt(loop, at) == [frame |-> "loop", loop |-> loop, at |-> at]

Proc(n)          == [frame |-> "proc", flags |-> [s \in 0 .. n - 1 |-> FALSE]]
FailFrame        == [frame |-> "fail"]

(* Mutant of BodyOps: branches are not filtered out.                       *)
BodyOpsAll(b) ==
  LET n == blocks[b].end - blocks[b].start
  IN  [k \in 1 .. n |-> blocks[b].start + k - 1]

(* translate_block_body: the opcodes of a block that are not branches.     *)
BodyOps(b) ==
  LET n == blocks[b].end - blocks[b].start
  IN  SelectSeq([k \in 1 .. n |-> blocks[b].start + k - 1], LAMBDA i : ~IsFlow(code[i]))

-----------------------------------------------------------------------------
(* The current invocation and its flags.                                   *)

ProcFrames  == {k \in DOMAIN ctl : ctl[k].frame = "proc"}
Innermost   == Min(ProcFrames)
FlagSet(s)  == s # NoSlot /\ ctl[Innermost].flags[s]

(* Loops of the current invocation whose given region is being executed.   *)
ActiveLoops(at) ==
  {k \in 1 .. Innermost - 1 : ctl[k].frame = "loop" /\ ctl[k].at = at}

(* Inside a test region that runs only because its loop was left by break. *)
Retesting == RetestIsFree /\ \E k \in ActiveLoops("test") : FlagSet(ctl[k].loop.slot)

-----------------------------------------------------------------------------
(* The VM's own steps over opcodes that leave no trace in the output.      *)
SourceSilent ==
  \/ VM!At("Jump")
  \/ VM!At("Call")
  \/ VM!At("Return")
  \/ VM!At("JumpIf") /\ ~VM!TwoWay(code, pc)

SourceStep ==
  /\ SourceSilent
  /\ VM!DoJump \/ VM!DoCall \/ VM!DoReturn \/ VM!DoJumpIf
  /\ UNCHANGED <<procs, blocks, ctl>>

(* Reading the condition of block b as v, and what it does to the history. *)
ReadCondition(b, v) ==
  LET i == blocks[b].end - 1
  IN  IF Retesting THEN UNCHANGED vmHistory
      ELSE /\ pc' = IF v THEN code[i].to ELSE i + 1
           /\ last' = VM!Seen(i)
           /\ UNCHANGED stack

-----------------------------------------------------------------------------
Init ==
  /\ code \in Programs
  /\ procs = << >> /\ blocks = << >> /\ ctl = << >>
  /\ result = "new"
  /\ pc = 0 /\ stack = << >> /\ last = VM!Nothing

(* emit_brillig_functions: build the CFG, structure it, emit it.           *)
Translate ==
  /\ result = "new"
  /\ \E out \in {Compile(code)} :
         IF out.st = "ok"
         THEN /\ result' = "running"
              /\ procs' = out.procedures
              /\ blocks' = out.cfg.blocks
              /\ ctl' = <<Seq0(out.main.nodes), Proc(out.main.flags)>>
         ELSE /\ result' = IF out.st = "err" THEN "refused" ELSE out.st
              /\ UNCHANGED <<procs, blocks, ctl>>
  /\ UNCHANGED <<code, vmHistory>>

(* The machine is ready when the VM history has caught up.                 *)
Ready(frame) == result = "running" /\ ~SourceSilent /\ Head(ctl).frame = frame

RunWork ==
  /\ Ready("ops") /\ Head(ctl).ops # << >>
  /\ LET i == Head(Head(ctl).ops)
     IN  IF Retesting THEN UNCHANGED vmHistory
         ELSE pc' = i + 1 /\ last' = VM!Seen(i) /\ UNCHANGED stack
  /\ ctl' = <<Ops(Tail(Head(ctl).ops))>> \o Tail(ctl)
  /\ UNCHANGED <<code, procs, blocks, result>>

EndOps ==
  /\ Ready("ops") /\ Head(ctl).ops = << >>
  /\ ctl' = Tail(ctl)
  /\ UNCHANGED <<code, procs, blocks, result, vmHistory>>

(* The next node of the innermost region, and the frames it leaves behind. *)
AtNode(kind) == Ready("seq") /\ Head(ctl).nodes # << >> /\ Head(Head(ctl).nodes).node = kind
Node         == Head(Head(ctl).nodes)
Rest         == <<Seq0(Tail(Head(ctl).nodes))>> \o Tail(ctl)

EmitLinear ==
  /\ AtNode("Linear")
  /\ ctl' = <<Ops(BodyOps(Node.block))>> \o Rest
  /\ UNCHANGED <<code, procs, blocks, result, vmHistory>>

(* The values a condition may have, when v leads to the nodes On(v).  That *)
(* a retest has no effect means in particular that it does not fail and,   *)
(* in TestLoop, that a loop in it ends.                                    *)
Values(On(_)) ==
  {v \in BOOLEAN : Retesting => \A k \in DOMAIN On(v) : On(v)[k].node # "Trap"}

Arm(v) == IF v THEN Node.then_branch ELSE Node.else_branch

EmitIf ==
  /\ AtNode("IfThenElse")
  /\ \E v \in Values(Arm) :
       /\ ReadCondition(Node.block, v)
       /\ ctl' = <<Seq0(Arm(v))>> \o Rest
  /\ UNCHANGED <<code, procs, blocks, result>>

EmitAssert ==
  /\ AtNode("BoolAssert")
  /\ \E v \in Values(LAMBDA v : IF v THEN << >> ELSE <<Leaf("Trap", Node.block)>>) :
       /\ ReadCondition(Node.block, v)
       /\ ctl' = IF v THEN Rest ELSE <<FailFrame>> \o Rest
  /\ UNCHANGED <<code, procs, blocks, result>>

EmitLoop ==
  /\ AtNode("Loop")
  /\ ctl' = <<Seq0(Node.test_prefix), LoopAt(Node, "test")>> \o Rest
  /\ UNCHANGED <<code, procs, blocks, result, vmHistory>>

(* emit_set_flag                                                           *)
EmitSetFlag ==
  /\ AtNode("SetEscapeFlag")
  /\ LET home == Innermost
     IN  ctl' = [Rest EXCEPT ![home].flags[Node.slot] = TRUE]
  /\ UNCHANGED <<code, procs, blocks, result, vmHistory>>

(* Mutant of EmitCall: the callee is emitted in place.                     *)
EmitCallInPlace ==
  /\ AtNode("Call")
  /\ ctl' = <<Seq0(procs[Node.target].nodes)>> \o Rest
  /\ UNCHANGED <<code, procs, blocks, result, vmHistory>>

(* function.call; the callee zeroes its own flags (init_escape_flags).     *)
EmitCall ==
  /\ AtNode("Call")
  /\ LET body == procs[Node.target]
     IN  ctl' = <<Seq0(body.nodes), Proc(body.flags)>> \o Rest
  /\ UNCHANGED <<code, procs, blocks, result, vmHistory>>

(* A Return node emits nothing.                                            *)
EmitReturn ==
  /\ AtNode("Return")
  /\ ctl' = Rest
  /\ UNCHANGED <<code, procs, blocks, result, vmHistory>>

EmitTrap ==
  /\ AtNode("Trap")
  /\ ctl' = <<FailFrame>> \o Rest
  /\ UNCHANGED <<code, procs, blocks, result, vmHistory>>

EmitStop ==
  /\ AtNode("Stop")
  /\ result' = "stopped"
  /\ UNCHANGED <<code, procs, blocks, ctl, vmHistory>>

Fail ==
  /\ Ready("fail")
  /\ result' = "failed"
  /\ UNCHANGED <<code, procs, blocks, ctl, vmHistory>>

EndSeq ==
  /\ Ready("seq") /\ Head(ctl).nodes = << >>
  /\ ctl' = Tail(ctl)
  /\ UNCHANGED <<code, procs, blocks, result, vmHistory>>

(* compute_loop_continue_cond and scf.condition, at the end of the test.   *)
Loop == Head(ctl).loop

(* Mutant of TestLoop: the escape flag is not tested.                      *)
TestLoopFlagless ==
  /\ Ready("loop") /\ Head(ctl).at = "test"
  /\ LET leave == Tail(ctl)
         again == <<Seq0(Loop.body), LoopAt(Loop, "body")>> \o Tail(ctl)
     IN  IF Loop.condition.block = NoBlock
         THEN ctl' = again /\ UNCHANGED vmHistory
         ELSE \E v \in BOOLEAN :
                /\ ReadCondition(Loop.condition.block, v)
                /\ ctl' = IF v = Loop.condition.continue_on THEN again ELSE leave
  /\ UNCHANGED <<code, procs, blocks, result>>

TestLoop ==
  /\ Ready("loop") /\ Head(ctl).at = "test"
  /\ LET leave == Tail(ctl)
         again == <<Seq0(Loop.body), LoopAt(Loop, "body")>> \o Tail(ctl)
     IN  IF FlagSet(Loop.slot)
         THEN ctl' = leave /\ UNCHANGED vmHistory
         ELSE IF Loop.condition.block = NoBlock
         THEN ctl' = again /\ UNCHANGED vmHistory
         ELSE \E v \in IF Retesting THEN {~Loop.condition.continue_on} ELSE BOOLEAN :
                /\ ReadCondition(Loop.condition.block, v)
                /\ ctl' = IF v = Loop.condition.continue_on THEN again ELSE leave
  /\ UNCHANGED <<code, procs, blocks, result>>

(* scf.yield: back to the test.                                            *)
RepeatLoop ==
  /\ Ready("loop") /\ Head(ctl).at = "body"
  /\ ctl' = <<Seq0(Loop.test_prefix), LoopAt(Loop, "test")>> \o Tail(ctl)
  /\ UNCHANGED <<code, procs, blocks, result, vmHistory>>

(* function.return of a procedure.                                         *)
EndProc ==
  /\ Ready("proc") /\ Len(ctl) > 1
  /\ ctl' = Tail(ctl)
  /\ UNCHANGED <<code, procs, blocks, result, vmHistory>>

Target ==
  \/ RunWork \/ EndOps \/ EmitLinear \/ EmitIf \/ EmitAssert \/ EmitLoop \/ EmitSetFlag
  \/ EmitCall \/ EmitReturn \/ EmitTrap \/ EmitStop \/ Fail \/ EndSeq \/ TestLoop
  \/ RepeatLoop \/ EndProc

(* Where a behaviour ends: a verdict, or the bound on the call stack.      *)
Ended ==
  /\ \/ result \notin {"new", "running"}
     \/ VM!At("Call") /\ Len(stack) = MaxDepth
  /\ UNCHANGED vars

Run  == SourceStep \/ Target
Next == Translate \/ Run \/ Ended

Spec == Init /\ [][Next]_vars /\ WF_vars(Run)
-----------------------------------------------------------------------------
TypeOK ==
  /\ IsBytecode(code)
  /\ result \in {"new", "refused", "panic", "hang", "running", "stopped", "failed"}
  /\ \A k \in DOMAIN ctl : ctl[k].frame \in {"ops", "seq", "loop", "proc", "fail"}
  /\ pc \in 0 .. Size(code) - 1
  /\ last[1] \in DOMAIN code \cup {VM!Nothing[1]} /\ last[2] \in {0, 1}
  /\ \A k \in DOMAIN stack : stack[k] \in DOMAIN code

(* The emitted code does what the bytecode does: the same Work in the same *)
(* order, the same branches, the same end, and it never stops short; or    *)
(* the translator refuses the bytecode.                                    *)
ImplementsVM == VM!Spec

(* Whenever a Work is about to run, the emitted code is exactly as deep in *)
(* calls as the VM: no invocation was entered late or left early.          *)
DepthAgrees ==
  result = "running" /\ ~SourceSilent /\ ctl # << >> /\ Head(ctl).frame = "ops"
    /\ Head(ctl).ops # << >> /\ ~Retesting
    => Cardinality(ProcFrames) = Len(stack) + 1

(* A break is the last thing an iteration does: nothing runs in a loop     *)
(* body once the loop's flag is set (escape_flag.rs).                      *)
BreakIsLast ==
  result = "running" /\ Head(ctl).frame = "ops" /\ Head(ctl).ops # << >>
    => \A k \in ActiveLoops("body") : ~FlagSet(ctl[k].loop.slot)

(* A loop is entered with its flag clear (init_escape_flags), however often *)
(* it was left by a break before in other activations of its body, further  *)
(* up a recursion included, and whichever loops of the same activation were *)
(* (structure_loop gives each its slot).  Not so for a loop that its own    *)
(* breaks lead back to: see StaleFlag.                                      *)
FlagClearOnEntry ==
  result = "running" /\ Head(ctl).frame = "seq" /\ Head(ctl).nodes # << >> /\ Node.node = "Loop"
    => ~FlagSet(Node.slot)

(* The translator answers every bytecode: it does not loop for ever, and   *)
(* none of its expects and unreachables fires.                             *)
AlwaysAnswers == result \notin {"hang", "panic"}
=============================================================================

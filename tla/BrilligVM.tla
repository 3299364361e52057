------------------------------ MODULE BrilligVM ------------------------------
(***************************************************************************)
(* What running Brillig bytecode means: the abstract machine every         *)
(* translation of the bytecode must implement.  It is the control part of  *)
(* the Brillig virtual machine (an external crate): a program counter, a   *)
(* call stack, and a branch condition whose value is not modelled, so that *)
(* a JumpIf goes either way.                                               *)
(*                                                                         *)
(* Two things the repository assumes of the bytecode are assumed here:     *)
(*  - an arm of a JumpIf that lies on a procedure entry is never taken     *)
(*    (divergence.rs, rewrite_dead_jumpif_to_procedure_entry);             *)
(*  - a program that is bound to trap may as well fail at once (walker.rs, *)
(*    try_trap_peephole, drops what happens before the trap).              *)
(***************************************************************************)
EXTENDS BrilligCfg

CONSTANT MaxDepth               \* bound on the call stack

VARIABLES
  code,     \* the bytecode; never changes
  pc,       \* index of the next opcode
  stack,    \* return addresses, innermost first
  result,   \* "new", "refused", "running", "stopped" or "failed"
  last      \* the last Work or two-way JumpIf executed: its index, and the
            \* parity of how many were executed (so that each one shows)

vmVars == <<code, pc, stack, result, last>>

Nothing == <<-1, 0>>            \* nothing executed yet
Seen(i) == <<i, 1 - last[2]>>   \* last, once the opcode at i is executed

Entries(c) == {c[i].to : i \in {j \in DOMAIN c : c[j].op = "Call"}}

(* The arms a JumpIf can take, and whether it has two.                     *)
LiveArms(c, i) == {c[i].to, i + 1} \ Entries(c)
TwoWay(c, i)   == {c[i].to, i + 1} \cap Entries(c) = {}

(* Indices from which every execution ends in a Trap.                      *)
BoundToTrap(c) ==
  LET Leads(i, bad) ==
        CASE c[i].op = "Trap"   -> TRUE
          [] c[i].op = "Work"   -> i + 1 \in bad
          [] c[i].op = "Jump"   -> c[i].to \in bad
          [] c[i].op = "JumpIf" -> LiveArms(c, i) # {} /\ LiveArms(c, i) \subseteq bad
          [] c[i].op = "Call"   -> {c[i].to, i + 1} \cap bad # {}
          [] OTHER              -> FALSE
      Level[k \in 0 .. Size(c)] ==
        IF k = 0 THEN {}
        ELSE LET bad == Level[k - 1] IN {i \in DOMAIN c : Leads(i, bad)}
  IN  Level[Size(c)]

-----------------------------------------------------------------------------
Init ==
  /\ IsBytecode(code)
  /\ pc = 0
  /\ stack = << >>
  /\ result = "new"
  /\ last = Nothing

(* A translator may refuse the bytecode, but only before running it.       *)
Accept == result = "new" /\ result' = "running" /\ UNCHANGED <<code, pc, stack, last>>
Refuse == result = "new" /\ result' = "refused" /\ UNCHANGED <<code, pc, stack, last>>

At(kind) == result = "running" /\ pc \in DOMAIN code /\ code[pc].op = kind

DoWork ==
  /\ At("Work")
  /\ pc' = pc + 1 /\ last' = Seen(pc)
  /\ UNCHANGED <<code, stack, result>>

DoJump ==
  /\ At("Jump")
  /\ pc' = code[pc].to
  /\ UNCHANGED <<code, stack, result, last>>

DoJumpIf ==
  /\ At("JumpIf")
  /\ pc' \in LiveArms(code, pc)
  /\ last' = IF TwoWay(code, pc) THEN Seen(pc) ELSE last
  /\ UNCHANGED <<code, stack, result>>

DoCall ==
  /\ At("Call")
  /\ Len(stack) < MaxDepth
  /\ pc' = code[pc].to /\ stack' = <<pc + 1>> \o stack
  /\ UNCHANGED <<code, result, last>>

DoReturn ==
  /\ At("Return") /\ stack # << >>
  /\ pc' = Head(stack) /\ stack' = Tail(stack)
  /\ UNCHANGED <<code, result, last>>

DoStop ==
  /\ At("Stop")
  /\ result' = "stopped"
  /\ UNCHANGED <<code, pc, stack, last>>

DoTrap ==
  /\ At("Trap")
  /\ result' = "failed"
  /\ UNCHANGED <<code, pc, stack, last>>

(* The shortcut to a trap that cannot be avoided any more.                 *)
FailEarly ==
  /\ result = "running" /\ pc \in BoundToTrap(code)
  /\ result' = "failed"
  /\ UNCHANGED <<code, pc, stack, last>>

Run  == DoWork \/ DoJump \/ DoJumpIf \/ DoCall \/ DoReturn \/ DoStop \/ DoTrap
Next == Accept \/ Refuse \/ Run \/ FailEarly

(* A program that runs goes on running.                                    *)
Spec == Init /\ [][Next]_vmVars /\ WF_vmVars(Run)
=============================================================================

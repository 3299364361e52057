-------------------------- MODULE MCAlwaysDivergent --------------------------
(* Every graph of four blocks with at most two successors each (a block    *)
(* may name one successor twice; of two different ones the order is fixed, *)
(* nothing depends on it).                                                 *)
EXTENDS AlwaysDivergent

Four  == 0 .. 3
Trap  == <<4>>                          \* no block 4: stands for a divergent leaf

Lists == {<<a>> : a \in Four} \cup {<<p[1], p[2]>> : p \in {q \in Four \X Four : q[1] <= q[2]}}

FourBlockGraphs ==
  {[succ |-> [b \in Four |-> IF c[b] = Trap THEN << >> ELSE c[b]],
    leaf |-> {b \in Four : c[b] = Trap}] : c \in [Four -> Lists \cup {<< >>, Trap}]}
=============================================================================

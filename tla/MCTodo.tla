------------------------------- MODULE MCTodo -------------------------------
(***************************************************************************)
(* A small todo list for TLC: two task texts, so that a text can occur     *)
(* twice, two phases, and at most four items.                              *)
(***************************************************************************)
EXTENDS TodoStateMachine

CONSTANTS t1, t2, setup, build

\* Two phases in order; two phases of one name; the flat form (one phase).
MCInitLists ==
  { [phases |-> [p \in 1..2 |-> IF p = 1 THEN setup ELSE build],
     tasks  |-> [k \in {<<1, 1>>, <<2, 1>>, <<2, 2>>} |-> IF k = <<2, 1>> THEN t2 ELSE t1]],
    [phases |-> [p \in 1..2 |-> build],
     tasks  |-> [k \in {<<1, 1>>, <<2, 1>>} |-> IF k[1] = 1 THEN t1 ELSE t2]],
    [phases |-> [p \in {1} |-> setup],
     tasks  |-> [k \in {<<1, 1>>, <<1, 2>>} |-> IF k[2] = 1 THEN t1 ELSE t2]],
    [phases |-> [p \in {} |-> setup], tasks |-> [k \in {} |-> t1]] }

MCTasks      == {t1, t2}
MCPhaseNames == {setup, build}
=============================================================================

----------------------------- MODULE MCDagRunner -------------------------------
(***************************************************************************)
(* Small plans for TLC.                                                    *)
(***************************************************************************)
EXTENDS DagRunner

CONSTANTS k1, k2

NoDeps == [n \in Node |-> {}]
NoKeys == [n \in Node |-> {}]
NoSlots == [n \in Node |-> <<>>]

\* Nothing declared but the nodes: each plan below changes what it is about.
Plain ==
    [deps |-> NoDeps, writers |-> {}, inputs |-> NoKeys, outputs |-> NoSlots,
     attempts |-> [n \in Node |-> 1]]

\* Two independent writers and readers around them; the first writer may retry.
Independent ==
    [Plain EXCEPT !.writers = {1, 3}, !.attempts[1] = 2]

\* A diamond whose two middle nodes write: the lock, not the plan, orders them.
Diamond ==
    [Plain EXCEPT !.deps = [n \in Node |-> CASE n = 1 -> {} [] n = NumNodes -> 2 .. (NumNodes - 1)
                                             [] OTHER -> {1}],
                  !.writers = 2 .. NumNodes]

\* Node 1 stands apart; the others wait for each other in a ring.
Ring ==
    [Plain EXCEPT !.deps = [n \in Node |-> CASE n = 1 -> {} [] n = 2 -> {NumNodes}
                                             [] OTHER -> {n - 1}],
                  !.writers = {1}]

\* A writer that reads, without declaring the dependency, what another writer
\* produces: it waits for its input with the lock in hand.
LockAndWait ==
    [Plain EXCEPT !.writers = {1, 2}, !.inputs[1] = {k1}, !.outputs[2] = <<k1>>,
                  !.deps[3] = {2}, !.inputs[3] = {k1, k2}, !.outputs[1] = <<k2>>]

\* Two producers of one key, and one node with the same key in two slots.
Collision ==
    [Plain EXCEPT !.writers = {2}, !.outputs[1] = <<k1>>, !.outputs[2] = <<k2, k1>>,
                  !.outputs[3] = <<k2, k2>>, !.inputs[3] = {k1}]

MCPlans == {Independent, Diamond, Ring, LockAndWait, Collision}
================================================================================

----------------------------- MODULE PlanContract ------------------------------
(***************************************************************************)
(* What a plan's scheduler promises its caller, with no waiting set, lock, *)
(* retry or dispatch loop: a node starts once, after everything it depends *)
(* on succeeded; at most one writer and at most MaxConcurrent nodes work   *)
(* at a time; a verdict is final; and the run ends only when nothing works *)
(* and nothing can start.                                                  *)
(***************************************************************************)
EXTENDS Integers, FiniteSets

CONSTANTS Node, MaxConcurrent

VARIABLES
    deps,     \* the nodes each node waits for; fixed
    writers,  \* the nodes that work in the shared tree; fixed
    phase,    \* Unclaimed, Running, Succeeded or Failed
    over      \* the caller has the outcome

vars == <<deps, writers, phase, over>>

Working == {n \in Node : phase[n] = "Running"}

Startable ==
    {n \in Node :
        /\ phase[n] = "Unclaimed"
        /\ \A d \in deps[n] : phase[d] = "Succeeded"}

Init ==
    /\ deps \in [Node -> SUBSET Node]
    /\ writers \in SUBSET Node
    /\ phase = [n \in Node |-> "Unclaimed"]
    /\ over = FALSE

\* One or more nodes start.
Start ==
    /\ ~ over
    /\ \E S \in SUBSET Startable :
        /\ S # {}
        /\ Cardinality(Working \cup S) <= MaxConcurrent
        /\ \A m, n \in (Working \cup S) \cap writers : m = n
        /\ phase' = [n \in Node |-> IF n \in S THEN "Running" ELSE phase[n]]
    /\ UNCHANGED <<deps, writers, over>>

Finish ==
    /\ ~ over
    /\ \E n \in Working, verdict \in {"Succeeded", "Failed"} :
        phase' = [phase EXCEPT ![n] = verdict]
    /\ UNCHANGED <<deps, writers, over>>

Return ==
    /\ ~ over
    /\ Working = {}
    /\ Startable = {}
    /\ over' = TRUE
    /\ UNCHANGED <<deps, writers, phase>>

Next == Start \/ Finish \/ Return

Spec == Init /\ [][Next]_vars
================================================================================

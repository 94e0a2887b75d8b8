---------------------------- MODULE DagRunner_proofs ---------------------------
(***************************************************************************)
(* Proofs about the plan scheduler, for every plan, limit and set of keys, *)
(* and about the ledger of the holds of its writer lock.                   *)
(***************************************************************************)
EXTENDS DagRunner, WriterLockLedger, FiniteSetTheorems, WellFoundedInduction, TLAPS

--------------------------------------------------------------------------------
(***************************************************************************)
(* Taking the first k of a finite set of numbers                           *)
(***************************************************************************)

\* A non-empty set of nodes has a last one.
LEMMA LastNode ==
    ASSUME NEW S, S \subseteq Node, S # {}
    PROVE  \E x \in S : \A y \in S : y <= x
<1> DEFINE T == {NumNodes - x : x \in S}
<1>1. T \subseteq Nat /\ T # {}
    BY NodesAssumption DEF Node
<1>2. PICK t \in T : \A u \in T : ~ (<<u, t>> \in OpToRel(<, Nat))
    <2> HIDE DEF T
    <2> QED BY <1>1, NatLessThanWellFounded, WFMin
<1>3. PICK x \in S : t = NumNodes - x
    BY <1>2
<1>4. ASSUME NEW y \in S PROVE y <= x
    <2>1. NumNodes - y \in T /\ NumNodes - y \in Nat /\ t \in Nat
        BY <1>1, <1>2, <1>4
    <2>2. ~ (NumNodes - y < t)
        BY <1>2, <2>1 DEF OpToRel
    <2>3. x \in Int /\ y \in Int
        BY <1>3, <1>4 DEF Node
    <2> QED BY <1>3, <2>2, <2>3, NodesAssumption
<1> QED BY <1>4

LEMMA NodesFinite ==
    /\ IsFiniteSet(Node)
    /\ \A S \in SUBSET Node : IsFiniteSet(S) /\ Cardinality(S) \in Nat
<1>1. IsFiniteSet(Node)
    BY FS_Interval, NodesAssumption DEF Node
<1> QED BY <1>1, FS_Subset, FS_CardinalityType

\* The members of S with fewer than k members before them are at most k.
LEMMA FirstFew ==
    ASSUME NEW S \in SUBSET Node, NEW k \in Int, k >= 0
    PROVE  Cardinality({n \in S : Cardinality({m \in S : m < n}) < k}) <= k
<1> DEFINE D == {n \in S : Cardinality({m \in S : m < n}) < k}
<1>1. CASE D = {}
    BY <1>1, FS_EmptySet
<1>2. CASE D # {}
    <2>1. PICK x \in D : \A y \in D : y <= x
        BY <1>2, LastNode
    <2> DEFINE B == {m \in S : m < x}
    <2>2. Cardinality(B) < k
        BY <2>1
    <2>3. D \subseteq B \cup {x}
        <3> SUFFICES ASSUME NEW y \in D, y # x PROVE y < x
            OBVIOUS
        <3> QED BY <2>1 DEF Node
    <2>4. IsFiniteSet(B) /\ Cardinality(B) \in Nat
        BY NodesFinite
    <2>5. IsFiniteSet(B \cup {x}) /\ Cardinality(B \cup {x}) <= Cardinality(B) + 1
        <3> HIDE DEF B
        <3> QED BY <2>4, FS_AddElement
    <2>6. Cardinality(D) <= Cardinality(B \cup {x})
        BY <2>3, <2>5, FS_Subset
    <2>7. Cardinality(D) \in Nat /\ Cardinality(B \cup {x}) \in Nat
        BY NodesFinite, <2>5, FS_CardinalityType
    <2>8. Cardinality(D) <= k
        <3> HIDE DEF B, D
        <3> QED BY <2>2, <2>4, <2>5, <2>6, <2>7
    <2> QED BY <2>8
<1> QED BY <1>1, <1>2

--------------------------------------------------------------------------------
(***************************************************************************)
(* The inductive invariant                                                 *)
(***************************************************************************)

\* A node's status says where its executeNode stands.
StatusAgrees ==
    \A n \in Node :
        /\ status[n] = "Unclaimed" <=> stage[n] = "idle"
        /\ status[n] = "Running" <=> stage[n] \in {"inputs", "attempt", "backoff"}

\* The waiting set, the lock and the ledger are three views of the same holds.
ViewsAgree ==
    /\ running = {n \in Node : InFlight(n)}
    /\ runningWriters = {n \in plan.writers : InFlight(n)}
    /\ open = runningWriters

\* Ended holds, one for each released writer.
HoldsEnded ==
    /\ {closed[i] : i \in DOMAIN closed} = {n \in plan.writers : stage[n] = "released"}
    /\ \A i, j \in DOMAIN closed : closed[i] = closed[j] => i = j

Limit == Cardinality(running) <= MaxConcurrent

AwaitsSomething == loop = "wait" => running # {}

\* A node was dispatched, or passed over for the lock, only with its dependencies met.
DependenciesHeld ==
    \A n \in Node : status[n] # "Unclaimed" \/ n \in deferredWriters => DependenciesMet(n)

\* Once run() has returned nothing is ready and nothing is mid-turn.
Over == loop = "returned" => Ready = {} /\ \A n \in Node : status[n] # "Running"

IInv ==
    /\ TypeOK
    /\ StatusAgrees
    /\ ViewsAgree
    /\ WritersSerialized
    /\ HoldsEnded
    /\ Limit
    /\ AwaitsSomething
    /\ DependenciesHeld
    /\ Over

LEMMA InitInv == Init => IInv
<1> SUFFICES ASSUME Init PROVE IInv
    OBVIOUS
<1> USE DEF Init
<1>1. TypeOK
    BY DEF TypeOK, Status, Stage
<1>2. StatusAgrees /\ ViewsAgree /\ WritersSerialized /\ DependenciesHeld
    BY PlansAssumption
    DEF StatusAgrees, ViewsAgree, WritersSerialized, DependenciesHeld, InFlight, Plan
<1>3. HoldsEnded
    <2>1. DOMAIN closed = {}
        OBVIOUS
    <2>2. {n \in plan.writers : stage[n] = "released"} = {}
        BY PlansAssumption DEF Plan
    <2> QED BY <2>1, <2>2 DEF HoldsEnded
<1>4. Limit
    BY FS_EmptySet, LimitAssumption DEF Limit
<1>5. AwaitsSomething /\ Over
    BY DEF AwaitsSomething, Over
<1> QED BY <1>1, <1>2, <1>3, <1>4, <1>5 DEF IInv

\* The facts about the plan every step uses.
LEMMA PlanFacts ==
    ASSUME TypeOK
    PROVE  /\ plan.deps \in [Node -> SUBSET Node]
           /\ plan.writers \in SUBSET Node
           /\ plan.outputs \in [Node -> Seq(Key)]
BY PlansAssumption DEF TypeOK, Plan

\* A step of one node's own code: it stays in flight and nothing else moves but
\* the board and its verdict.
LEMMA NodeStepInv ==
    ASSUME IInv, NEW n \in Node, InFlight(n),
           stage' \in [Node -> Stage], status' \in [Node -> Status],
           \A m \in Node \ {n} : stage'[m] = stage[m] /\ status'[m] = status[m],
           InFlight(n)',
           status[n] # "Running" => status'[n] = status[n],
           status'[n] = "Running" <=> stage'[n] \in {"inputs", "attempt", "backoff"},
           status'[n] # "Unclaimed",
           attempt' \in [Node -> Nat],
           board' \in [Key -> Node \cup {Nobody}],
           UNCHANGED <<plan, lockVars, loop>>
    PROVE  IInv'
<1> USE DEF lockVars
<1>1. TypeOK'
    BY DEF IInv, TypeOK
<1>2. \A m \in Node : InFlight(m)' = InFlight(m)
    BY DEF InFlight
<1>3. StatusAgrees'
    BY DEF IInv, StatusAgrees, InFlight
<1>4. ViewsAgree' /\ WritersSerialized'
    BY <1>2, PlanFacts DEF IInv, ViewsAgree, WritersSerialized
<1>5. HoldsEnded'
    <2>1. \A m \in Node : stage'[m] = "released" <=> stage[m] = "released"
        BY DEF InFlight
    <2> QED BY <2>1, PlanFacts DEF IInv, HoldsEnded
<1>6. Limit' /\ AwaitsSomething'
    BY DEF IInv, Limit, AwaitsSomething
<1>7. \A m \in Node : DependenciesMet(m) => DependenciesMet(m)'
    BY PlanFacts DEF IInv, DependenciesMet
<1>8. DependenciesHeld'
    BY <1>7 DEF IInv, DependenciesHeld, StatusAgrees, InFlight
<1>9. Over'
    <2> SUFFICES ASSUME loop = "returned" PROVE Over'
        BY DEF Over
    <2>1. status' = status
        <3>1. status'[n] = status[n]
            BY DEF IInv, Over
        <3> QED BY <3>1 DEF IInv, TypeOK
    <2>2. Ready' = Ready
        BY <2>1 DEF Ready, DependenciesMet
    <2> QED BY <2>1, <2>2 DEF IInv, Over
<1> QED BY <1>1, <1>3, <1>4, <1>5, <1>6, <1>8, <1>9 DEF IInv

LEMMA NodeActionsInv ==
    ASSUME IInv, NEW n \in Node,
           \/ InputsArrive(n) \/ InputTimeout(n)
           \/ AttemptSettles(n) \/ BackoffEnds(n) \/ RecordingEnds(n)
    PROVE  IInv'
<1> USE DEF Stage, Status, InFlight
<1>1. CASE InputsArrive(n)
    BY <1>1, NodeStepInv DEF InputsArrive, IInv, TypeOK, StatusAgrees
<1>2. CASE InputTimeout(n)
    BY <1>2, NodeStepInv DEF InputTimeout, Fail, IInv, TypeOK, StatusAgrees
<1>3. CASE AttemptAnswers(n)
    <2>1. board' \in [Key -> Node \cup {Nobody}]
        BY <1>3 DEF AttemptAnswers, IInv, TypeOK
    <2>2. stage[n] = "attempt" /\ UNCHANGED <<plan, attempt, lockVars, loop>>
        BY <1>3 DEF AttemptAnswers
    <2>3. \/ /\ status' = [status EXCEPT ![n] = "Succeeded"]
             /\ stage' = [stage EXCEPT ![n] = "settled"]
          \/ Fail(n)
        BY <1>3 DEF AttemptAnswers
    <2>4. CASE /\ status' = [status EXCEPT ![n] = "Succeeded"]
               /\ stage' = [stage EXCEPT ![n] = "settled"]
        BY <2>1, <2>2, <2>4, NodeStepInv DEF IInv, TypeOK, StatusAgrees
    <2>5. CASE Fail(n)
        BY <2>1, <2>2, <2>5, NodeStepInv DEF Fail, IInv, TypeOK, StatusAgrees
    <2> QED BY <2>3, <2>4, <2>5
<1>4. CASE AttemptRetries(n)
    BY <1>4, NodeStepInv DEF AttemptRetries, IInv, TypeOK, StatusAgrees
<1>5. CASE AttemptFails(n)
    BY <1>5, NodeStepInv DEF AttemptFails, Fail, IInv, TypeOK, StatusAgrees
<1>6. CASE BackoffEnds(n)
    <2>1. attempt' \in [Node -> Nat]
        BY <1>6 DEF BackoffEnds, IInv, TypeOK
    <2>2. /\ stage' \in [Node -> Stage]
          /\ stage[n] = "backoff" /\ stage' = [stage EXCEPT ![n] = "attempt"]
          /\ UNCHANGED <<plan, status, board, lockVars, loop>>
        BY <1>6 DEF BackoffEnds, IInv, TypeOK
    <2> QED BY ZenonT(40), <2>1, <2>2, NodeStepInv DEF IInv, TypeOK, StatusAgrees
<1>7. CASE RecordingEnds(n)
    BY <1>7, NodeStepInv DEF RecordingEnds, IInv, TypeOK, StatusAgrees
<1> QED BY <1>1, <1>2, <1>3, <1>4, <1>5, <1>6, <1>7 DEF AttemptSettles

\* What one turn of the loop takes: no more than there is room for, and one
\* writer only if none was running.
LEMMA DispatchedFacts ==
    ASSUME IInv
    PROVE  /\ Dispatched \subseteq Ready
           /\ Cardinality(running \cup Dispatched) <= MaxConcurrent
           /\ \A m, n \in Dispatched \cap plan.writers : m = n /\ runningWriters = {}
<1>1. Candidates \in SUBSET Node /\ Ready \in SUBSET Node
    BY DEF Candidates, Ready
<1>2. Dispatched \subseteq Ready
    BY DEF Dispatched, Candidates
<1>3. running \in SUBSET Node /\ Cardinality(running) \in Nat
    BY NodesFinite DEF IInv, TypeOK
<1>4. Free \in Int /\ Free >= 0
    BY <1>3, LimitAssumption DEF Free, IInv, Limit
<1>5. Cardinality(Dispatched) <= Free
    BY <1>1, <1>4, FirstFew DEF Dispatched
<1>6. Cardinality(running \cup Dispatched) <= MaxConcurrent
    <2>1. IsFiniteSet(running) /\ IsFiniteSet(Dispatched)
        BY <1>1, <1>2, <1>3, NodesFinite
    <2>2. Cardinality(running \cup Dispatched)
            = Cardinality(running) + Cardinality(Dispatched)
                - Cardinality(running \cap Dispatched)
        BY <2>1, FS_Union
    <2>3. Cardinality(running \cap Dispatched) \in Nat /\ Cardinality(Dispatched) \in Nat
        BY <1>1, <1>2, <1>3, NodesFinite
    <2>4. Cardinality(running \cup Dispatched) \in Nat
        BY <1>1, <1>2, <1>3, NodesFinite
    <2> QED BY <1>3, <1>5, <2>2, <2>3, <2>4, LimitAssumption DEF Free
<1>7. ASSUME NEW m \in Dispatched \cap plan.writers, NEW n \in Dispatched \cap plan.writers
      PROVE  m = n /\ runningWriters = {}
    BY <1>7 DEF Dispatched, Candidates, Ready, Node
<1> QED BY <1>2, <1>6, <1>7

LEMMA DispatchInv == IInv /\ Dispatch => IInv'
<1> SUFFICES ASSUME IInv, Dispatch PROVE IInv'
    OBVIOUS
<1> USE DEF InFlight
<1>1. Dispatched \subseteq Ready /\ Ready \subseteq Node
    BY DispatchedFacts DEF Ready
<1>2. \A n \in Dispatched : status[n] = "Unclaimed" /\ stage[n] = "idle"
    BY <1>1 DEF Ready, IInv, StatusAgrees
<1>3. \A n \in Node : stage'[n] = IF n \in Dispatched THEN "inputs" ELSE stage[n]
    BY DEF Dispatch
<1>4. \A n \in Node : status'[n] = IF n \in Dispatched THEN "Running" ELSE status[n]
    BY DEF Dispatch
<1>5. TypeOK'
    BY <1>1, PlanFacts DEF Dispatch, Blocked, IInv, TypeOK, Stage, Status
<1>6. StatusAgrees'
    BY <1>2, <1>3, <1>4 DEF IInv, StatusAgrees
<1>7. ViewsAgree'
    <2>1. running' = {n \in Node : InFlight(n)'}
        BY <1>1, <1>3 DEF Dispatch, IInv, ViewsAgree
    <2>2. runningWriters' = {n \in plan'.writers : InFlight(n)'}
        BY <1>1, <1>3, PlanFacts DEF Dispatch, IInv, ViewsAgree
    <2> QED BY <2>1, <2>2 DEF Dispatch, IInv, ViewsAgree
<1>8. WritersSerialized'
    <2> SUFFICES ASSUME NEW m \in plan.writers, NEW n \in plan.writers,
                        InFlight(m)', InFlight(n)'
                 PROVE  m = n
        BY DEF WritersSerialized, Dispatch
    <2>1. m \in Node /\ n \in Node
        BY PlanFacts DEF IInv
    <2>2. CASE m \in Dispatched \/ n \in Dispatched
        <3>1. runningWriters = {}
            BY <2>2, DispatchedFacts
        <3>2. m \in Dispatched /\ n \in Dispatched
            BY <1>3, <2>1, <3>1 DEF IInv, ViewsAgree
        <3> QED BY <3>2, DispatchedFacts
    <2>3. CASE m \notin Dispatched /\ n \notin Dispatched
        BY <1>3, <2>1, <2>3 DEF IInv, WritersSerialized
    <2> QED BY <2>2, <2>3
<1>9. HoldsEnded'
    <2>1. \A n \in Node : stage'[n] = "released" <=> stage[n] = "released"
        BY <1>2, <1>3
    <2> QED BY <2>1, PlanFacts DEF Dispatch, IInv, HoldsEnded
<1>10. Limit'
    BY DispatchedFacts DEF Dispatch, Limit
<1>11. AwaitsSomething'
    BY DEF Dispatch, AwaitsSomething
<1>12. \A n \in Node : DependenciesMet(n) => DependenciesMet(n)'
    BY <1>2, <1>4, PlanFacts DEF Dispatch, DependenciesMet, IInv
<1>13. DependenciesHeld'
    <2> SUFFICES ASSUME NEW n \in Node, status'[n] # "Unclaimed" \/ n \in deferredWriters'
                 PROVE  DependenciesMet(n)
        BY <1>12 DEF DependenciesHeld
    <2>1. CASE n \in Ready
        BY <2>1 DEF Ready
    <2>2. CASE n \notin Ready
        BY <1>1, <1>4, <2>2 DEF Dispatch, Blocked, IInv, DependenciesHeld
    <2> QED BY <2>1, <2>2
<1>14. Over'
    BY DEF Dispatch, Over
<1> QED BY <1>5, <1>6, <1>7, <1>8, <1>9, <1>10, <1>11, <1>13, <1>14 DEF IInv

LEMMA IdleInv == IInv /\ Idle => IInv'
<1> SUFFICES ASSUME IInv, Idle PROVE IInv'
    OBVIOUS
<1> USE DEF Idle, nodeVars, lockVars
<1>1. TypeOK' /\ StatusAgrees' /\ ViewsAgree' /\ WritersSerialized' /\ HoldsEnded' /\ Limit'
    BY DEF IInv, TypeOK, StatusAgrees, ViewsAgree, WritersSerialized, HoldsEnded, Limit, InFlight
<1>2. AwaitsSomething'
    BY DEF AwaitsSomething
<1>3. DependenciesHeld'
    BY DEF IInv, DependenciesHeld, DependenciesMet
<1>4. Over'
    <2>1. Ready' = Ready
        BY DEF Ready, DependenciesMet
    <2>2. running = {} => \A n \in Node : status[n] # "Running"
        BY DEF IInv, ViewsAgree, StatusAgrees, InFlight
    <2> QED BY <2>1, <2>2 DEF Over, Terminal
<1> QED BY <1>1, <1>2, <1>3, <1>4 DEF IInv

LEMMA ReleaseInv == ASSUME IInv, NEW n \in Node, Release(n) PROVE IInv'
<1> USE DEF InFlight, Stage
<1>1. /\ stage[n] = "settled" /\ stage' = [stage EXCEPT ![n] = "released"]
      /\ UNCHANGED <<plan, status, attempt, board, deferredWriters>>
    BY DEF Release
<1>2. \A m \in Node : stage'[m] = IF m = n THEN "released" ELSE stage[m]
    BY <1>1 DEF IInv, TypeOK
<1>3. TypeOK'
    BY <1>1 DEF Release, IInv, TypeOK
<1>4. StatusAgrees'
    BY <1>1, <1>2 DEF IInv, StatusAgrees
<1>5. ViewsAgree' /\ WritersSerialized'
    BY <1>1, <1>2, PlanFacts DEF Release, IInv, ViewsAgree, WritersSerialized
<1>6. HoldsEnded'
    <2>1. n \in open <=> n \in plan.writers
        BY <1>1 DEF IInv, ViewsAgree
    <2>2. CASE n \notin plan.writers
        BY <1>1, <1>2, <2>1, <2>2, PlanFacts DEF Release, IInv, HoldsEnded
    <2>3. CASE n \in plan.writers
        <3>1. closed' = Append(closed, n) /\ closed \in Seq(Node)
            BY <2>1, <2>3 DEF Release, IInv, TypeOK
        <3>2. /\ DOMAIN closed' = DOMAIN closed \cup {Len(closed) + 1}
              /\ \A i \in DOMAIN closed : closed'[i] = closed[i]
              /\ closed'[Len(closed) + 1] = n
            BY <3>1
        <3>3. n \notin {closed[i] : i \in DOMAIN closed}
            BY <1>1 DEF IInv, HoldsEnded
        <3>4. {closed'[i] : i \in DOMAIN closed'} = {closed[i] : i \in DOMAIN closed} \cup {n}
            BY <3>2
        <3>5. {closed'[i] : i \in DOMAIN closed'}
                = {m \in plan'.writers : stage'[m] = "released"}
            BY <1>1, <1>2, <2>3, <3>4, PlanFacts DEF IInv, HoldsEnded
        <3>6. \A i, j \in DOMAIN closed' : closed'[i] = closed'[j] => i = j
            BY <3>2, <3>3 DEF IInv, HoldsEnded
        <3> QED BY <3>5, <3>6 DEF HoldsEnded
    <2> QED BY <2>2, <2>3
<1>7. Limit'
    <2>1. running' = running \ {n} /\ running \in SUBSET Node
        BY DEF Release, IInv, TypeOK
    <2>2. Cardinality(running') <= Cardinality(running)
        BY <2>1, NodesFinite, FS_Subset
    <2>3. Cardinality(running') \in Nat /\ Cardinality(running) \in Nat
        BY <2>1, NodesFinite
    <2> QED BY <2>2, <2>3, LimitAssumption DEF IInv, Limit
<1>8. AwaitsSomething'
    BY DEF Release, AwaitsSomething
<1>9. DependenciesHeld' /\ Over'
    BY <1>1 DEF Release, IInv, DependenciesHeld, DependenciesMet, Over, Ready
<1> QED BY <1>3, <1>4, <1>5, <1>6, <1>7, <1>8, <1>9 DEF IInv

LEMMA StepInv == IInv /\ [Next]_vars => IInv'
<1> SUFFICES ASSUME IInv, [Next]_vars PROVE IInv'
    OBVIOUS
<1>1. CASE Dispatch
    BY <1>1, DispatchInv
<1>2. CASE Idle
    BY <1>2, IdleInv
<1>3. ASSUME NEW n \in Node, Step(n) PROVE IInv'
    BY <1>3, NodeActionsInv, ReleaseInv DEF Step
<1>4. CASE UNCHANGED vars
    BY <1>4
    DEF vars, nodeVars, lockVars, IInv, TypeOK, StatusAgrees, ViewsAgree, WritersSerialized,
        HoldsEnded, Limit, AwaitsSomething, DependenciesHeld, DependenciesMet, Over, Ready, InFlight
<1> QED BY <1>1, <1>2, <1>3, <1>4 DEF Next, Scan

\* The inductive invariant holds of every state of every run.
THEOREM Invariance == Spec => []IInv
BY InitInv, StepInv, PTL DEF Spec

--------------------------------------------------------------------------------
(***************************************************************************)
(* What follows from it                                                    *)
(***************************************************************************)

\* Every variable keeps its type (the fields of executeNode and DagRunner.run).
THEOREM TypeCorrect == Spec => []TypeOK
BY Invariance, PTL DEF IInv

\* At most one writer is between dispatch and release (DagRunner.ts:68-74).
THEOREM OneWriter == Spec => []WritersSerialized
BY Invariance, PTL DEF IInv

\* The ledger records the serialization that happened, no more and no less
\* (DagRunner.ts:75-76, 112, 122).
THEOREM LedgerFaithful == Spec => []LedgerAgrees
<1>1. IInv => LedgerAgrees
    BY DEF IInv, LedgerAgrees, ViewsAgree, HoldsEnded
<1> QED BY <1>1, Invariance, PTL

\* The waiting set is what is in flight, within maxConcurrent, and the loop never
\* awaits an empty race (DagRunner.ts:63-66, 98, 127).
THEOREM WaitingSet == Spec => []WaitingSetExact
<1>1. IInv => WaitingSetExact
    BY DEF IInv, WaitingSetExact, ViewsAgree, Limit, AwaitsSomething
<1> QED BY <1>1, Invariance, PTL

\* A run that returned left behind no node that could have run (DagRunner.ts:87-94).
THEOREM NoneAbandoned == Spec => []NothingAbandoned
<1>1. ASSUME IInv, loop = "returned", NEW n \in Unscheduled
      PROVE  /\ status[n] = "Unclaimed"
             /\ \E d \in plan.deps[n] : status[d] = "Failed" \/ d \in Unscheduled
             /\ n \notin deferredWriters
    <2>1. n \in Node /\ status[n] = "Unclaimed"
        BY <1>1 DEF Unscheduled, Terminal, IInv, TypeOK, Status, Over
    <2>2. ~ DependenciesMet(n)
        BY <1>1, <2>1 DEF IInv, Over, Ready
    <2>3. PICK d \in plan.deps[n] : status[d] # "Succeeded"
        BY <2>2 DEF DependenciesMet
    <2>4. d \in Node
        BY <1>1, <2>1, PlanFacts DEF IInv
    <2>5. status[d] = "Failed" \/ d \in Unscheduled
        BY <2>3, <2>4 DEF Unscheduled, Terminal
    <2>6. n \notin deferredWriters
        BY <1>1, <2>1, <2>2 DEF IInv, DependenciesHeld
    <2> QED BY <2>1, <2>3, <2>5, <2>6
<1>2. IInv => NothingAbandoned
    BY <1>1 DEF NothingAbandoned
<1> QED BY <1>2, Invariance, PTL

\* A step moves verdicts only forward: from Unclaimed to Running, from Running to
\* one final verdict.
LEMMA VerdictStep ==
    ASSUME IInv, [Next]_vars, NEW n \in Node, Terminal(n)
    PROVE  status'[n] = status[n]
<1> USE DEF Terminal
<1>1. CASE Dispatch
    BY <1>1, DispatchedFacts DEF Dispatch, Ready
<1>2. CASE Idle \/ UNCHANGED vars
    BY <1>2 DEF Idle, vars, nodeVars
<1>3. ASSUME NEW m \in Node, Step(m) PROVE status'[n] = status[n]
    <2>1. m = n => stage[n] \notin {"inputs", "attempt", "backoff"}
        BY DEF IInv, StatusAgrees
    <2>2. status' = status \/ (m # n /\ \E v : status' = [status EXCEPT ![m] = v])
        BY <1>3, <2>1
        DEF Step, InputsArrive, InputTimeout, AttemptSettles, AttemptAnswers, AttemptRetries,
            AttemptFails, Fail, BackoffEnds, RecordingEnds, Release
    <2> QED BY <2>2 DEF IInv, TypeOK
<1> QED BY <1>1, <1>2, <1>3 DEF Next, Scan

LEMMA PlanFixed == [Next]_vars => plan' = plan
<1> SUFFICES ASSUME [Next]_vars PROVE plan' = plan
    OBVIOUS
<1>1. CASE Scan \/ UNCHANGED vars
    BY <1>1 DEF Scan, Dispatch, Idle, vars
<1>2. ASSUME NEW m \in Node, Step(m) PROVE plan' = plan
    BY <1>2
    DEF Step, InputsArrive, InputTimeout, AttemptSettles, AttemptAnswers, AttemptRetries,
        AttemptFails, BackoffEnds, RecordingEnds, Release
<1> QED BY <1>1, <1>2 DEF Next

\* Verdicts are final, and a started node's dependencies stay succeeded
\* (NodeStateMachine.ts:4-11 as DagRunner.ts uses it).
THEOREM VerdictsFinal == Spec => VerdictsStand
<1> DEFINE Final == \A n \in Node : Terminal(n) => status'[n] = status[n]
           Based == \A n \in Node : status'[n] # "Unclaimed" =>
                       \A d \in plan.deps[n] : status'[d] = "Succeeded"
<1>1. IInv /\ [Next]_vars => [Final]_vars
    BY VerdictStep
<1>2. IInv' /\ [Next]_vars => Based
    <2> SUFFICES ASSUME IInv', [Next]_vars PROVE Based
        OBVIOUS
    <2>1. plan' = plan
        BY PlanFixed
    <2> QED BY <2>1 DEF IInv, DependenciesHeld, DependenciesMet
<1>3. [Final]_vars /\ Based => [Final /\ Based]_vars
    OBVIOUS
<1>4. [Final /\ Based]_vars => [\A n \in Node :
        /\ Terminal(n) => status'[n] = status[n]
        /\ status'[n] # "Unclaimed" => \A d \in plan.deps[n] : status'[d] = "Succeeded"]_vars
    OBVIOUS
<1> QED BY <1>1, <1>2, <1>3, <1>4, Invariance, PTL DEF Spec, VerdictsStand

--------------------------------------------------------------------------------
(***************************************************************************)
(* The runner implements the contract of module PlanContract               *)
(***************************************************************************)

LEMMA WorkingInFlight ==
    ASSUME IInv
    PROVE  /\ Contract!Working \in SUBSET running
           /\ Contract!Working \cap plan.writers \subseteq runningWriters
           /\ Contract!Startable = Ready
BY DEF IInv, ViewsAgree, StatusAgrees, InFlight, Contract!Working, Contract!Startable,
       Ready, DependenciesMet

LEMMA SameCardinality == \A S : Contract!Cardinality(S) = Cardinality(S)
BY DEF Contract!Cardinality, Cardinality

LEMMA ContractInit == Init => Contract!Init
BY PlansAssumption DEF Init, Plan, Contract!Init

LEMMA ContractStart == IInv /\ Dispatch => Contract!Start \/ UNCHANGED Contract!vars
<1> SUFFICES ASSUME IInv, Dispatch PROVE Contract!Start \/ UNCHANGED Contract!vars
    OBVIOUS
<1>1. plan' = plan /\ loop = "scan" /\ loop' # "returned"
    BY DEF Dispatch
<1>2. CASE Dispatched = {}
    <2>1. status' = status
        BY <1>2 DEF Dispatch, IInv, TypeOK
    <2> QED BY <1>1, <2>1 DEF Contract!vars
<1>3. CASE Dispatched # {}
    <2> DEFINE W == Contract!Working
    <2>1. Dispatched \in SUBSET Contract!Startable
        BY DispatchedFacts, WorkingInFlight
    <2>2. Cardinality(W \cup Dispatched) <= MaxConcurrent
        <3>1. running \cup Dispatched \in SUBSET Node
            BY DispatchedFacts DEF IInv, TypeOK, Ready
        <3>2. W \cup Dispatched \in SUBSET (running \cup Dispatched)
            BY WorkingInFlight
        <3>3. Cardinality(W \cup Dispatched) <= Cardinality(running \cup Dispatched)
            BY <3>1, <3>2, NodesFinite, FS_Subset
        <3>4. /\ Cardinality(W \cup Dispatched) \in Nat
              /\ Cardinality(running \cup Dispatched) \in Nat
            BY <3>1, <3>2, NodesFinite
        <3> QED BY <3>3, <3>4, DispatchedFacts, LimitAssumption
    <2>3. ASSUME NEW m \in (W \cup Dispatched) \cap plan.writers,
                 NEW n \in (W \cup Dispatched) \cap plan.writers
          PROVE  m = n
        <3>1. CASE m \in Dispatched \/ n \in Dispatched
            <4>1. W \cap plan.writers = {}
                BY <2>3, <3>1, DispatchedFacts, WorkingInFlight
            <4> QED BY <2>3, <4>1, DispatchedFacts
        <3>2. CASE m \in W /\ n \in W
            BY <2>3, <3>2, WorkingInFlight DEF IInv, WritersSerialized, ViewsAgree
        <3> QED BY <2>3, <3>1, <3>2
    <2>4. status' = [n \in Node |-> IF n \in Dispatched THEN "Running" ELSE status[n]]
        BY DEF Dispatch
    <2>5. \E S \in SUBSET Contract!Startable :
            /\ S # {}
            /\ Cardinality(W \cup S) <= MaxConcurrent
            /\ \A m, n \in (W \cup S) \cap plan.writers : m = n
            /\ status' = [n \in Node |-> IF n \in S THEN "Running" ELSE status[n]]
        <3> HIDE DEF W
        <3> QED BY <1>3, <2>1, <2>2, <2>3, <2>4
    <2>6. (loop' = "returned") = (loop = "returned")
        BY <1>1
    <2> QED BY <1>1, <2>5, <2>6, SameCardinality DEF Contract!Start
<1> QED BY <1>2, <1>3

LEMMA ContractReturn == IInv /\ Idle => Contract!Return \/ UNCHANGED Contract!vars
<1> SUFFICES ASSUME IInv, Idle PROVE Contract!Return \/ UNCHANGED Contract!vars
    OBVIOUS
<1>1. plan' = plan /\ status' = status /\ loop = "scan"
    BY DEF Idle, nodeVars
<1>2. CASE loop' = "returned"
    <2>1. \A n \in Node : status[n] # "Running"
        BY <1>2 DEF Idle, IInv, ViewsAgree, StatusAgrees, InFlight, Terminal
    <2> QED BY <1>1, <1>2, <2>1, WorkingInFlight DEF Idle, Contract!Return, Contract!Working
<1>3. CASE loop' # "returned"
    BY <1>1, <1>3 DEF Contract!vars
<1> QED BY <1>2, <1>3

LEMMA ContractFinish ==
    ASSUME IInv, NEW n \in Node, Step(n)
    PROVE  Contract!Finish \/ UNCHANGED Contract!vars
<1>1. plan' = plan /\ (loop' = "returned" <=> loop = "returned")
    BY DEF Step, InputsArrive, InputTimeout, AttemptSettles, AttemptAnswers, AttemptRetries,
           AttemptFails, BackoffEnds, RecordingEnds, Release, lockVars
<1>2. CASE status' = status
    BY <1>1, <1>2 DEF Contract!vars
<1>3. CASE status' # status
    <2>1. /\ stage[n] \in {"inputs", "attempt"}
          /\ \E v \in {"Succeeded", "Failed"} : status' = [status EXCEPT ![n] = v]
        BY <1>3
        DEF Step, InputsArrive, InputTimeout, AttemptSettles, AttemptAnswers, AttemptRetries,
            AttemptFails, Fail, BackoffEnds, RecordingEnds, Release
    <2>2. status[n] = "Running"
        BY <2>1 DEF IInv, StatusAgrees
    <2>3. loop # "returned"
        BY <2>2 DEF IInv, Over
    <2> QED BY <1>1, <2>1, <2>2, <2>3 DEF Contract!Finish, Contract!Working
<1> QED BY <1>2, <1>3

\* Seen through its nodes' verdicts, a run of the dispatch loop is a run of the
\* contract: starts, finishes and one return, under the contract's guards.
THEOREM Refinement == Spec => ImplementsContract
<1>1. IInv /\ [Next]_vars => [Contract!Next]_(Contract!vars)
    <2> SUFFICES ASSUME IInv, [Next]_vars PROVE Contract!Next \/ UNCHANGED Contract!vars
        OBVIOUS
    <2>1. CASE UNCHANGED vars
        BY <2>1 DEF vars, nodeVars, Contract!vars
    <2> QED BY <2>1, ContractStart, ContractReturn, ContractFinish
            DEF Next, Scan, Contract!Next
<1> QED BY <1>1, ContractInit, Invariance, PTL DEF Spec, ImplementsContract, Contract!Spec
--------------------------------------------------------------------------------
(***************************************************************************)
(* The ledger of hold intervals                                            *)
(***************************************************************************)

\* The readings are in order, and at most one hold is open.
HoldsTimed ==
    /\ Len(openHolds) <= 1
    /\ \A i \in DOMAIN openHolds : openHolds[i].at <= now
    /\ \A i \in DOMAIN closedHolds : closedHolds[i].from <= closedHolds[i].to /\ closedHolds[i].to <= now
TurnsTimed == \A r \in Reader : from[r] <= now /\ to[r] <= now

\* Who ran beside an unfinished inquiry has a hold the answer will find.
BesideHeld ==
    \A r \in Reader : turn[r] \in {"open", "closed"} => \A w \in ranBeside[r] :
        \/ \E i \in DOMAIN closedHolds :
              /\ closedHolds[i].nodeId = w /\ closedHolds[i].to >= from[r]
              /\ turn[r] = "closed" => closedHolds[i].from <= to[r]
        \/ \E i \in DOMAIN openHolds :
              openHolds[i].nodeId = w /\ (turn[r] = "closed" => openHolds[i].at <= to[r])

\* Whose hold overlaps a turn by more than one reading ran beside it.
HeldBeside ==
    \A r \in Reader : turn[r] # "before" =>
        /\ \A i \in DOMAIN closedHolds :
              closedHolds[i].to > from[r] /\ (turn[r] # "open" => closedHolds[i].from < to[r])
                => closedHolds[i].nodeId \in ranBeside[r]
        /\ \A i \in DOMAIN openHolds :
              (turn[r] # "open" => openHolds[i].at < to[r]) => openHolds[i].nodeId \in ranBeside[r]

\* The answers are true, and they will be: this invariant is inductive.
LedgerInv == LedgerTypeOK /\ HoldsTimed /\ TurnsTimed /\ BesideHeld /\ HeldBeside /\ AnswerTrue

\* Numbering the members of a set of places by how many are before them lists the
\* set, each member once, in its order.
LEMMA PlacesListed ==
    ASSUME NEW S, S \subseteq Nat, IsFiniteSet(S)
    PROVE  /\ Cardinality(S) \in Nat
           /\ \E place \in [1 .. Cardinality(S) -> S] :
                /\ \A k \in 1 .. Cardinality(S) :
                      place[k] = CHOOSE i \in S : Cardinality({j \in S : j < i}) = k - 1
                /\ \A k, l \in 1 .. Cardinality(S) : k < l => place[k] < place[l]
                /\ \A i \in S : \E k \in 1 .. Cardinality(S) : place[k] = i
<1> DEFINE Before(i) == {j \in S : j < i}
           c == Cardinality(S)
           T == 0 .. c - 1
           rank == [i \in S |-> Cardinality(Before(i))]
<1>1. c \in Nat
    BY FS_CardinalityType
<1>2. \A i \in S : IsFiniteSet(Before(i)) /\ Cardinality(Before(i)) \in Nat
    BY <1>1, FS_Subset, FS_CardinalityType
<1>3. ASSUME NEW i \in S PROVE Cardinality(Before(i)) <= c - 1
    <2>1. Before(i) \in SUBSET (S \ {i})
        OBVIOUS
    <2>2. IsFiniteSet(S \ {i}) /\ Cardinality(S \ {i}) = c - 1
        BY FS_RemoveElement
    <2> QED BY <2>1, <2>2, FS_Subset
<1>4. ASSUME NEW i \in S, NEW j \in S, i < j PROVE rank[i] < rank[j]
    <2>1. Before(i) \cup {i} \in SUBSET Before(j) /\ i \notin Before(i)
        <3>1. \A k \in S : k \in Nat
            OBVIOUS
        <3>2. ~ (i < i) /\ \A k \in S : k < i => k < j
            BY <1>4, <3>1
        <3> QED BY <1>4, <3>2
    <2>2. Cardinality(Before(i) \cup {i}) = Cardinality(Before(i)) + 1
        <3> HIDE DEF Before
        <3> QED BY <1>2, <2>1, FS_AddElement
    <2>3. Cardinality(Before(i) \cup {i}) <= Cardinality(Before(j))
        BY <1>2, <2>1, FS_Subset
    <2> QED BY <1>2, <2>2, <2>3
<1>5. \A i, j \in S : rank[i] = rank[j] => i = j
    <2> SUFFICES ASSUME NEW i \in S, NEW j \in S, rank[i] = rank[j] PROVE i = j
        OBVIOUS
    <2>1. rank[i] \in Nat /\ rank[j] \in Nat
        BY <1>2
    <2>2. ~ (i < j) /\ ~ (j < i)
        <3> HIDE DEF rank
        <3> QED BY <1>4, <2>1
    <2> QED BY <2>2
<1>6. \A k \in T : \E i \in S : rank[i] = k
    <2>1. rank \in [S -> T]
        BY <1>1, <1>2, <1>3
    <2>2. rank \in Injection(S, T)
        <3> HIDE DEF rank
        <3> QED BY <1>5, <2>1 DEF Injection, IsInjective
    <2>3. IsFiniteSet(T) /\ Cardinality(T) = c
        <3> HIDE DEF c
        <3> QED BY <1>1, FS_Interval
    <2>4. rank \in Surjection(S, T)
        <3> HIDE DEF rank
        <3> QED BY <1>1, <2>2, <2>3, FS_Injection
    <2> HIDE DEF rank
    <2> QED BY <2>4 DEF Surjection
<1> DEFINE place == [k \in 1 .. c |-> CHOOSE i \in S : Cardinality({j \in S : j < i}) = k - 1]
<1>7. ASSUME NEW k \in 1 .. c PROVE place[k] \in S /\ rank[place[k]] = k - 1
    <2>1. k - 1 \in T
        BY <1>1
    <2>2. \E i \in S : Cardinality({j \in S : j < i}) = k - 1
        BY <1>6, <2>1
    <2>3. place[k] \in S /\ Cardinality({j \in S : j < place[k]}) = k - 1
        BY <2>2
    <2> HIDE DEF place
    <2> QED BY <2>3
<1> HIDE DEF rank
<1>8. ASSUME NEW k \in 1 .. c, NEW l \in 1 .. c, k < l PROVE place[k] < place[l]
    <2>1. place[k] \in S /\ place[l] \in S /\ rank[place[k]] = k - 1 /\ rank[place[l]] = l - 1
        BY <1>7
    <2> HIDE DEF place, c
    <2>2. rank[place[k]] < rank[place[l]] /\ rank[place[k]] \in Int /\ rank[place[l]] \in Int
        BY <1>1, <1>8, <2>1
    <2>3. ~ (rank[place[l]] < rank[place[k]]) /\ place[k] # place[l]
        BY <2>2
    <2>4. ~ (place[l] < place[k])
        BY <1>4, <2>1, <2>3
    <2>5. place[k] \in Nat /\ place[l] \in Nat
        BY <2>1
    <2> QED BY <2>3, <2>4, <2>5
<1>9. ASSUME NEW i \in S PROVE \E k \in 1 .. c : place[k] = i
    <2>1. rank[i] \in T
        BY <1>1, <1>2, <1>3 DEF rank
    <2> HIDE DEF place, c
    <2>2. PICK k \in 1 .. c : k - 1 = rank[i]
        <3>1. PICK m \in T : m = rank[i]
            BY <2>1
        <3>2. m + 1 \in 1 .. c /\ m + 1 - 1 = m
            BY <1>1
        <3> QED BY <3>1, <3>2
    <2>3. place[k] \in S /\ rank[place[k]] = rank[i]
        BY <1>7, <2>2
    <2> QED BY <1>5, <2>3
<1>10. place \in [1 .. c -> S]
    BY <1>7
<1>11. \A k \in 1 .. c : place[k] = CHOOSE i \in S : Cardinality({j \in S : j < i}) = k - 1
    OBVIOUS
<1> HIDE DEF place, c
<1> QED BY <1>1, <1>8, <1>9, <1>10, <1>11 DEF c

\* A list names the writers of the holds at the places S, in the order of the holds.
Lists(list, holds, S) ==
    /\ list \in Seq(Writer)
    /\ \E place \in [DOMAIN list -> S] :
         /\ \A k \in DOMAIN list : list[k] = holds[place[k]].nodeId
         /\ \A k, l \in DOMAIN list : k < l => place[k] < place[l]
         /\ \A i \in S : \E k \in DOMAIN list : place[k] = i

LEMMA WritersListed ==
    ASSUME NEW H, \A h \in H : h.nodeId \in Writer, NEW holds \in Seq(H), NEW S \in SUBSET (DOMAIN holds)
    PROVE  Lists(WritersAt(holds, S), holds, S)
<1> DEFINE c == Cardinality(S)
           Chosen(k) == CHOOSE i \in S : Cardinality({j \in S : j < i}) = k - 1
<1>1. S \subseteq Nat /\ IsFiniteSet(S)
    <2>1. DOMAIN holds = 1 .. Len(holds) /\ Len(holds) \in Nat
        OBVIOUS
    <2>2. IsFiniteSet(1 .. Len(holds))
        BY <2>1, FS_Interval
    <2> QED BY <2>1, <2>2, FS_Subset
<1>2. c \in Nat
    BY <1>1, PlacesListed
<1>3. PICK place \in [1 .. c -> S] :
        /\ \A k \in 1 .. c : place[k] = Chosen(k)
        /\ \A k, l \in 1 .. c : k < l => place[k] < place[l]
        /\ \A i \in S : \E k \in 1 .. c : place[k] = i
    BY <1>1, PlacesListed
<1>4. WritersAt(holds, S) = [k \in 1 .. c |-> holds[Chosen(k)].nodeId]
    BY DEF WritersAt
<1> HIDE DEF c, Chosen
<1>5. WritersAt(holds, S) = [k \in 1 .. c |-> holds[place[k]].nodeId]
    BY <1>3, <1>4
<1>6. \A k \in 1 .. c : holds[place[k]] \in H
    BY <1>3
<1>7. DOMAIN WritersAt(holds, S) = 1 .. c
    BY <1>5
<1>8. WritersAt(holds, S) \in Seq(Writer)
    BY <1>2, <1>5, <1>6
<1>9. \A k \in 1 .. c : WritersAt(holds, S)[k] = holds[place[k]].nodeId
    BY <1>5
<1>10. /\ place \in [DOMAIN WritersAt(holds, S) -> S]
       /\ \A k \in DOMAIN WritersAt(holds, S) : WritersAt(holds, S)[k] = holds[place[k]].nodeId
       /\ \A k, l \in DOMAIN WritersAt(holds, S) : k < l => place[k] < place[l]
       /\ \A i \in S : \E k \in DOMAIN WritersAt(holds, S) : place[k] = i
    BY <1>3, <1>7, <1>9
<1> QED BY <1>8, <1>10 DEF Lists

OpenHold == [nodeId : Writer, at : Time]

\* The writers in the order they took the lock, place by place.
LEMMA TakenIs ==
    ASSUME NEW ended \in Seq(Holds), NEW held \in Seq(OpenHold)
    PROVE  LET taken == Takers(ended) \o Takers(held) IN
           /\ DOMAIN taken = 1 .. Len(ended) + Len(held)
           /\ \A i \in 1 .. Len(ended) : taken[i] = ended[i].nodeId
           /\ \A i \in 1 .. Len(held) : taken[Len(ended) + i] = held[i].nodeId
<1> DEFINE C == Takers(ended)
           D == Takers(held)
<1>1. /\ DOMAIN ended = 1 .. Len(ended) /\ Len(ended) \in Nat /\ \A i \in 1 .. Len(ended) : ended[i] \in Holds
      /\ DOMAIN held = 1 .. Len(held) /\ Len(held) \in Nat /\ \A i \in 1 .. Len(held) : held[i] \in OpenHold
    OBVIOUS
<1>2. /\ \A i \in 1 .. Len(ended) : ended[i].nodeId \in Writer
      /\ \A i \in 1 .. Len(held) : held[i].nodeId \in Writer
    BY <1>1 DEF Holds, OpenHold
<1>3. C = [i \in 1 .. Len(ended) |-> ended[i].nodeId] /\ D = [i \in 1 .. Len(held) |-> held[i].nodeId]
    BY <1>1 DEF Takers
<1> HIDE DEF C, D
<1>4. C \in Seq(Writer) /\ D \in Seq(Writer)
    BY <1>1, <1>2, <1>3
<1>5. Len(C) = Len(ended) /\ Len(D) = Len(held)
    BY <1>1, <1>3
<1>6. C \o D \in Seq(Writer)
    BY <1>4
<1>7. PICK taken \in Seq(Writer) : taken = C \o D
    BY <1>6
<1>8. Len(taken) = Len(C) + Len(D)
    BY <1>4, <1>7
<1>9. DOMAIN taken = 1 .. Len(ended) + Len(held)
    BY <1>5, <1>7, <1>8
<1>10. (\A i \in 1 .. Len(C) : taken[i] = C[i]) /\ \A i \in 1 .. Len(D) : taken[Len(C) + i] = D[i]
    BY <1>4, <1>7
<1>11. (\A i \in 1 .. Len(ended) : taken[i] = ended[i].nodeId) /\ \A i \in 1 .. Len(held) : taken[Len(ended) + i] = held[i].nodeId
    BY <1>3, <1>5, <1>10
<1> QED BY <1>7, <1>9, <1>11 DEF C, D

\* What a reader is told: the writers of the holds that overlap its turn, no others, in
\* the order in which the lock was taken.
LEMMA AnswerSays ==
    ASSUME LedgerTypeOK, NEW first, NEW last, NEW told, told = WritersOverlapping(first, last)
    PROVE  /\ told \in Seq(Writer)
           /\ \A i \in EndedDuring(first, last) : \E k \in DOMAIN told : told[k] = closedHolds[i].nodeId
           /\ \A i \in OpenDuring(first, last) : \E k \in DOMAIN told : told[k] = openHolds[i].nodeId
           /\ \A k \in DOMAIN told :
                 \/ \E i \in EndedDuring(first, last) : told[k] = closedHolds[i].nodeId
                 \/ \E i \in OpenDuring(first, last) : told[k] = openHolds[i].nodeId
           /\ \A k, l \in DOMAIN told :
                 k < l => \E p, q \in DOMAIN Taken : p < q /\ Taken[p] = told[k] /\ Taken[q] = told[l]
<1> DEFINE A == WritersAt(closedHolds, EndedDuring(first, last))
           B == WritersAt(openHolds, OpenDuring(first, last))
           n == Len(closedHolds)
           m == Len(openHolds)
<1>e. EndedDuring(first, last) \in SUBSET (DOMAIN closedHolds)
    BY DEF EndedDuring
<1>o. OpenDuring(first, last) \in SUBSET (DOMAIN openHolds)
    BY DEF OpenDuring
<1>c. closedHolds \in Seq(Holds)
    BY DEF LedgerTypeOK
<1>h. openHolds \in Seq(OpenHold)
    BY DEF LedgerTypeOK, OpenHold
<1>1. \A h \in Holds : h.nodeId \in Writer
    BY DEF Holds
<1>2. \A h \in OpenHold : h.nodeId \in Writer
    BY DEF OpenHold
<1>3. Lists(A, closedHolds, EndedDuring(first, last))
    BY <1>e, <1>c, <1>1, WritersListed
<1>4. Lists(B, openHolds, OpenDuring(first, last))
    BY <1>o, <1>h, <1>2, WritersListed
<1>6. told = A \o B
    BY DEF WritersOverlapping
<1> HIDE DEF A, B, n, m
<1>5. PICK a \in [DOMAIN A -> EndedDuring(first, last)] :
        /\ \A k \in DOMAIN A : A[k] = closedHolds[a[k]].nodeId
        /\ \A k, l \in DOMAIN A : k < l => a[k] < a[l]
        /\ \A i \in EndedDuring(first, last) : \E k \in DOMAIN A : a[k] = i
    BY <1>3 DEF Lists
<1>b. PICK b \in [DOMAIN B -> OpenDuring(first, last)] :
        /\ \A k \in DOMAIN B : B[k] = openHolds[b[k]].nodeId
        /\ \A k, l \in DOMAIN B : k < l => b[k] < b[l]
        /\ \A i \in OpenDuring(first, last) : \E k \in DOMAIN B : b[k] = i
    BY <1>4 DEF Lists
<1>l. A \in Seq(Writer) /\ B \in Seq(Writer)
    BY <1>3, <1>4 DEF Lists
<1>10. /\ told \in Seq(Writer) /\ Len(told) = Len(A) + Len(B)
       /\ \A k \in 1 .. Len(A) : told[k] = A[k]
       /\ \A k \in 1 .. Len(B) : told[Len(A) + k] = B[k]
       /\ \A k \in 1 .. Len(A) + Len(B) : k > Len(A) => k - Len(A) \in 1 .. Len(B) /\ told[k] = B[k - Len(A)]
    BY <1>l, <1>6
<1>11. /\ DOMAIN Taken = 1 .. n + m
       /\ \A i \in 1 .. n : Taken[i] = closedHolds[i].nodeId
       /\ \A i \in 1 .. m : Taken[n + i] = openHolds[i].nodeId
    BY <1>c, <1>h, TakenIs DEF Taken, n, m
<1>12. DOMAIN A = 1 .. Len(A) /\ DOMAIN B = 1 .. Len(B) /\ DOMAIN told = 1 .. Len(A) + Len(B)
       /\ Len(A) \in Nat /\ Len(B) \in Nat /\ n \in Nat /\ m \in Nat
       /\ DOMAIN closedHolds = 1 .. n /\ DOMAIN openHolds = 1 .. m
    BY <1>c, <1>h, <1>l, <1>10 DEF n, m
<1>13. ASSUME NEW i \in EndedDuring(first, last) PROVE \E k \in DOMAIN told : told[k] = closedHolds[i].nodeId
    <2>1. PICK k \in DOMAIN A : a[k] = i
        BY <1>5
    <2>2. k \in DOMAIN told /\ told[k] = A[k]
        BY <1>10, <1>12
    <2> QED BY <1>5, <2>1, <2>2
<1>14. ASSUME NEW i \in OpenDuring(first, last) PROVE \E k \in DOMAIN told : told[k] = openHolds[i].nodeId
    <2>1. PICK k \in DOMAIN B : b[k] = i
        BY <1>b
    <2>2. Len(A) + k \in DOMAIN told /\ told[Len(A) + k] = B[k]
        BY <1>10, <1>12
    <2> QED BY <1>b, <2>1, <2>2
<1> DEFINE place(k) == IF k <= Len(A) THEN a[k] ELSE n + b[k - Len(A)]
<1>15. ASSUME NEW k \in DOMAIN told, k <= Len(A)
       PROVE  /\ k \in DOMAIN A /\ told[k] = closedHolds[a[k]].nodeId /\ a[k] \in EndedDuring(first, last)
              /\ a[k] \in 1 .. n /\ place(k) = a[k] /\ Taken[a[k]] = told[k]
    <2>1. k \in DOMAIN A /\ told[k] = A[k]
        BY <1>10, <1>12, <1>15
    <2>2. a[k] \in EndedDuring(first, last) /\ A[k] = closedHolds[a[k]].nodeId
        BY <1>5, <2>1
    <2>3. a[k] \in 1 .. n
        BY <1>e, <1>12, <2>2
    <2>4. Taken[a[k]] = closedHolds[a[k]].nodeId
        BY <1>11, <2>3
    <2> QED BY <1>15, <2>1, <2>2, <2>3, <2>4
<1>16. ASSUME NEW k \in DOMAIN told, ~ (k <= Len(A))
       PROVE  /\ k - Len(A) \in DOMAIN B /\ told[k] = openHolds[b[k - Len(A)]].nodeId
              /\ b[k - Len(A)] \in OpenDuring(first, last) /\ b[k - Len(A)] \in 1 .. m
              /\ place(k) = n + b[k - Len(A)] /\ Taken[n + b[k - Len(A)]] = told[k]
    <2>1. k - Len(A) \in DOMAIN B /\ told[k] = B[k - Len(A)]
        BY <1>10, <1>12, <1>16
    <2>2. b[k - Len(A)] \in OpenDuring(first, last) /\ B[k - Len(A)] = openHolds[b[k - Len(A)]].nodeId
        BY <1>b, <2>1
    <2>3. b[k - Len(A)] \in 1 .. m
        BY <1>o, <1>12, <2>2
    <2>4. Taken[n + b[k - Len(A)]] = openHolds[b[k - Len(A)]].nodeId
        BY <1>11, <2>3
    <2> QED BY <1>16, <2>1, <2>2, <2>3, <2>4
<1>17. \A k \in DOMAIN told :
          \/ \E i \in EndedDuring(first, last) : told[k] = closedHolds[i].nodeId
          \/ \E i \in OpenDuring(first, last) : told[k] = openHolds[i].nodeId
    BY <1>15, <1>16
<1>18. ASSUME NEW k \in DOMAIN told, NEW l \in DOMAIN told, k < l
       PROVE  \E p, q \in DOMAIN Taken : p < q /\ Taken[p] = told[k] /\ Taken[q] = told[l]
    <2>1. place(k) \in DOMAIN Taken /\ Taken[place(k)] = told[k] /\ place(l) \in DOMAIN Taken /\ Taken[place(l)] = told[l]
        <3>1. ASSUME NEW x \in DOMAIN told PROVE place(x) \in DOMAIN Taken /\ Taken[place(x)] = told[x]
            <4>1. CASE x <= Len(A)
                BY <1>11, <1>12, <1>15, <4>1
            <4>2. CASE ~ (x <= Len(A))
                <5>1. n + b[x - Len(A)] \in 1 .. n + m
                    BY <1>12, <1>16, <4>2
                <5> QED BY <1>11, <1>16, <4>2, <5>1
            <4> QED BY <4>1, <4>2
        <3> QED BY <3>1
    <2>2. place(k) < place(l)
        <3>1. CASE l <= Len(A)
            <4>1. k <= Len(A)
                BY <1>12, <1>18, <3>1
            <4> QED BY <1>5, <1>15, <1>18, <3>1, <4>1
        <3>2. CASE ~ (l <= Len(A)) /\ k <= Len(A)
            BY <1>12, <1>15, <1>16, <3>2
        <3>3. CASE ~ (l <= Len(A)) /\ ~ (k <= Len(A))
            <4>1. k - Len(A) < l - Len(A)
                BY <1>12, <1>18
            <4>2. b[k - Len(A)] < b[l - Len(A)]
                BY <1>b, <1>16, <3>3, <4>1
            <4> QED BY <1>12, <1>16, <3>3, <4>2
        <3> QED BY <3>1, <3>2, <3>3
    <2> HIDE DEF place
    <2> QED BY <2>1, <2>2
<1> QED BY <1>10, <1>13, <1>14, <1>17, <1>18

\* The readings are numbers, and a sequence of holds has its holds at its places.
LEMMA LedgerData ==
    ASSUME LedgerTypeOK
    PROVE  /\ now \in Int /\ MaxTime \in Nat /\ \A t \in Time : t \in Int /\ t <= MaxTime
           /\ DOMAIN openHolds = 1 .. Len(openHolds) /\ Len(openHolds) \in Nat
           /\ \A i \in DOMAIN openHolds : openHolds[i].nodeId \in Writer /\ openHolds[i].at \in Time
           /\ DOMAIN closedHolds = 1 .. Len(closedHolds) /\ Len(closedHolds) \in Nat
           /\ \A i \in DOMAIN closedHolds :
                 closedHolds[i].nodeId \in Writer /\ closedHolds[i].from \in Time /\ closedHolds[i].to \in Time
           /\ \A r \in Reader : from[r] \in Time /\ to[r] \in Time /\ answer[r] \in Seq(Writer)
<1>1. now \in Int /\ MaxTime \in Nat /\ \A t \in Time : t \in Int /\ t <= MaxTime
    BY LedgerAssumption DEF LedgerTypeOK, Time
<1>2. openHolds \in Seq(OpenHold) /\ closedHolds \in Seq(Holds)
    BY DEF LedgerTypeOK, OpenHold
<1>o. \A i \in 1 .. Len(openHolds) : openHolds[i] \in OpenHold
    BY <1>2
<1>3. \A i \in 1 .. Len(openHolds) : openHolds[i] \in [nodeId : Writer, at : Time]
    BY <1>o DEF OpenHold
<1>h. \A i \in 1 .. Len(closedHolds) : closedHolds[i] \in Holds
    BY <1>2
<1>4. \A i \in 1 .. Len(closedHolds) : closedHolds[i] \in [nodeId : Writer, from : Time, to : Time]
    BY <1>h DEF Holds
<1>5. DOMAIN openHolds = 1 .. Len(openHolds) /\ Len(openHolds) \in Nat /\ DOMAIN closedHolds = 1 .. Len(closedHolds) /\ Len(closedHolds) \in Nat
    BY <1>2
<1>6. \A r \in Reader : from[r] \in Time /\ to[r] \in Time /\ answer[r] \in Seq(Writer)
    BY DEF LedgerTypeOK
<1> QED BY <1>1, <1>3, <1>4, <1>5, <1>6

\* A writer that takes the free lock opens a hold at the current reading.
LEMMA EnterOpens ==
    ASSUME LedgerTypeOK, NEW w \in Writer, Enter(w)
    PROVE  /\ DOMAIN openHolds = {} /\ openHolds' = <<[nodeId |-> w, at |-> now]>>
           /\ Len(openHolds') = 1 /\ DOMAIN openHolds' = {1} /\ openHolds'[1].nodeId = w /\ openHolds'[1].at = now
           /\ UNCHANGED <<now, closedHolds, turn, from, to, answer>>
<1>1. openHolds = <<>> /\ openHolds' = Append(openHolds, [nodeId |-> w, at |-> now])
    BY DEF Enter
<1>2. openHolds' = <<[nodeId |-> w, at |-> now]>>
    BY <1>1
<1>3. Len(openHolds') = 1 /\ DOMAIN openHolds' = {1} /\ openHolds'[1] = [nodeId |-> w, at |-> now]
    BY <1>2
<1>4. DOMAIN openHolds = {}
    BY <1>1
<1> QED BY <1>2, <1>3, <1>4 DEF Enter

\* A writer that lets go ends the one open hold at the current reading.
LEMMA ExitEnds ==
    ASSUME LedgerTypeOK, Len(openHolds) <= 1, NEW w \in Writer, Exit(w)
    PROVE  /\ DOMAIN openHolds = {1} /\ openHolds[1].nodeId = w /\ openHolds[1].at \in Time
           /\ openHolds' = <<>> /\ DOMAIN openHolds' = {} /\ Len(openHolds') = 0
           /\ Len(closedHolds') = Len(closedHolds) + 1 /\ DOMAIN closedHolds' = 1 .. Len(closedHolds) + 1
           /\ closedHolds' \in Seq(Holds)
           /\ \A i \in DOMAIN closedHolds : i \in DOMAIN closedHolds' /\ closedHolds'[i] = closedHolds[i]
           /\ closedHolds'[Len(closedHolds) + 1] = [nodeId |-> w, from |-> openHolds[1].at, to |-> now]
           /\ UNCHANGED <<now, turn, from, to, answer, ranBeside>>
<1>1. PICK i \in DOMAIN openHolds :
        /\ openHolds[i].nodeId = w
        /\ openHolds' = RemoveAt(openHolds, i)
        /\ closedHolds' = Append(closedHolds, [nodeId |-> w, from |-> openHolds[i].at, to |-> now])
        /\ UNCHANGED <<now, turn, from, to, answer, ranBeside>>
    BY DEF Exit
<1>2. i = 1 /\ Len(openHolds) = 1 /\ DOMAIN openHolds = {1}
    BY LedgerData
<1>3. openHolds' = <<>>
    <2>1. openHolds \in Seq([nodeId : Writer, at : Time])
        BY DEF LedgerTypeOK
    <2>2. SubSeq(openHolds, 1, 0) = <<>> /\ SubSeq(openHolds, 2, 1) = <<>>
        BY <2>1
    <2>3. RemoveAt(openHolds, 1) = SubSeq(openHolds, 1, 1 - 1) \o SubSeq(openHolds, 1 + 1, Len(openHolds))
        BY DEF RemoveAt
    <2>4. RemoveAt(openHolds, 1) = <<>> \o <<>>
        BY <1>2, <2>2, <2>3
    <2>5. <<>> \o <<>> = <<>>
        OBVIOUS
    <2> QED BY <1>1, <1>2, <2>4, <2>5
<1>4. [nodeId |-> w, from |-> openHolds[1].at, to |-> now] \in Holds /\ closedHolds \in Seq(Holds) /\ openHolds[1].at \in Time
    BY <1>2, LedgerData DEF LedgerTypeOK, Holds
<1> DEFINE h == [nodeId |-> w, from |-> openHolds[1].at, to |-> now]
<1>5. closedHolds' = Append(closedHolds, h)
    BY <1>1, <1>2
<1> HIDE DEF h
<1>6. h \in Holds
    BY <1>4 DEF h
<1>7. closedHolds' \in Seq(Holds) /\ Len(closedHolds') = Len(closedHolds) + 1
    BY <1>4, <1>5, <1>6
<1>8. DOMAIN closedHolds' = 1 .. Len(closedHolds) + 1
    BY <1>7
<1>9. \A j \in DOMAIN closedHolds : j \in DOMAIN closedHolds' /\ closedHolds'[j] = closedHolds[j]
    BY <1>4, <1>5, <1>6
<1>10. closedHolds'[Len(closedHolds) + 1] = h
    BY <1>4, <1>5, <1>6
<1>11. DOMAIN openHolds' = {} /\ Len(openHolds') = 0
    BY <1>3
<1> QED BY <1>1, <1>2, <1>3, <1>4, <1>7, <1>8, <1>9, <1>10, <1>11 DEF h

\* The answers' order outlasts every step: who took the lock stays at its place.
LEMMA TakenStays ==
    ASSUME LedgerTypeOK, LedgerTypeOK', Len(openHolds) <= 1, NEW w \in Writer, Enter(w) \/ Exit(w)
    PROVE  \A k \in DOMAIN Taken : k \in DOMAIN Taken' /\ Taken'[k] = Taken[k]
<1> DEFINE n == Len(closedHolds)
           m == Len(openHolds)
<1>1. /\ closedHolds \in Seq(Holds) /\ openHolds \in Seq(OpenHold)
      /\ closedHolds' \in Seq(Holds) /\ openHolds' \in Seq(OpenHold)
    BY DEF LedgerTypeOK, OpenHold, Time, Holds
<1>2. /\ DOMAIN Taken = 1 .. n + m
      /\ \A i \in 1 .. n : Taken[i] = closedHolds[i].nodeId
      /\ \A i \in 1 .. m : Taken[n + i] = openHolds[i].nodeId
    BY <1>1, TakenIs DEF Taken
<1>3. /\ DOMAIN Taken' = 1 .. Len(closedHolds') + Len(openHolds')
      /\ \A i \in 1 .. Len(closedHolds') : Taken'[i] = (closedHolds')[i].nodeId
      /\ \A i \in 1 .. Len(openHolds') : Taken'[Len(closedHolds') + i] = (openHolds')[i].nodeId
    BY <1>1, TakenIs DEF Taken
<1>4. n \in Nat /\ m \in Nat /\ DOMAIN closedHolds = 1 .. n /\ DOMAIN openHolds = 1 .. m
    BY LedgerData
<1>5. CASE Enter(w)
    <2>1. m = 0
        BY <1>4, <1>5, EnterOpens
    <2>2. closedHolds' = closedHolds /\ Len(openHolds') = 1
        BY <1>5, EnterOpens
    <2> HIDE DEF n, m
    <2>3. DOMAIN Taken = 1 .. n
        BY <1>2, <1>4, <2>1
    <2>4. DOMAIN Taken' = 1 .. n + 1 /\ \A i \in 1 .. n : Taken'[i] = closedHolds[i].nodeId
        BY <1>3, <2>2 DEF n
    <2> QED BY <1>2, <1>4, <2>3, <2>4
<1>6. CASE Exit(w)
    <2>1. m = 1 /\ openHolds[1].nodeId = w
        <3>1. DOMAIN openHolds = {1} /\ openHolds[1].nodeId = w
            BY <1>6, ExitEnds
        <3> QED BY <1>4, <3>1
    <2>2. /\ Len(closedHolds') = n + 1 /\ Len(openHolds') = 0
          /\ \A i \in 1 .. n : (closedHolds')[i] = closedHolds[i]
          /\ (closedHolds')[n + 1] = [nodeId |-> w, from |-> openHolds[1].at, to |-> now]
        BY <1>4, <1>6, ExitEnds
    <2> HIDE DEF n, m
    <2>3. DOMAIN Taken = 1 .. n + 1 /\ Taken[n + 1] = w
        BY <1>2, <1>4, <2>1
    <2>4. DOMAIN Taken' = 1 .. n + 1
        BY <1>3, <1>4, <2>2
    <2>5. ASSUME NEW i \in 1 .. n PROVE Taken'[i] = Taken[i]
        <3>1. i \in 1 .. n + 1
            BY <1>4
        <3> QED BY <1>2, <1>3, <2>2, <3>1
    <2>6. Taken'[n + 1] = w
        <3>1. n + 1 \in 1 .. n + 1
            BY <1>4
        <3>2. Taken'[n + 1] = (closedHolds')[n + 1].nodeId
            BY <1>3, <2>2, <3>1
        <3> QED BY <2>2, <3>2
    <2>7. \A i \in 1 .. n + 1 : i \in 1 .. n \/ i = n + 1
        BY <1>4
    <2> QED BY <2>3, <2>4, <2>5, <2>6, <2>7
<1> QED BY <1>5, <1>6

LEMMA LedgerTypes == LedgerTypeOK /\ HoldsTimed /\ [LedgerNext]_ledgerVars => LedgerTypeOK'
<1> SUFFICES ASSUME LedgerTypeOK, HoldsTimed, [LedgerNext]_ledgerVars PROVE LedgerTypeOK'
    OBVIOUS
<1>1. now \in Time /\ now \in Int /\ MaxTime \in Nat
    BY LedgerData DEF LedgerTypeOK
<1>2. CASE Tick
    <2>1. now' \in Time
        BY <1>1, <1>2 DEF Tick, Time
    <2> QED BY <1>2, <2>1 DEF Tick, LedgerTypeOK, Time, Holds
<1>3. ASSUME NEW w \in Writer, Enter(w) PROVE LedgerTypeOK'
    <2>1. openHolds' \in Seq([nodeId : Writer, at : Time])
        <3>1. [nodeId |-> w, at |-> now] \in OpenHold
            BY <1>1 DEF OpenHold
        <3>2. openHolds \in Seq(OpenHold)
            BY DEF LedgerTypeOK, OpenHold
        <3>3. openHolds' = Append(openHolds, [nodeId |-> w, at |-> now])
            BY <1>3 DEF Enter
        <3>4. openHolds' \in Seq(OpenHold)
            BY <3>1, <3>2, <3>3
        <3> QED BY <3>4 DEF OpenHold
    <2>2. ranBeside' \in [Reader -> SUBSET Writer]
        BY <1>3 DEF Enter, LedgerTypeOK
    <2> QED BY <1>3, <2>1, <2>2, EnterOpens DEF LedgerTypeOK, Time, Holds
<1>4. ASSUME NEW w \in Writer, Exit(w) PROVE LedgerTypeOK'
    <2>1. openHolds' = <<>> /\ closedHolds' \in Seq(Holds) /\ UNCHANGED <<now, turn, from, to, answer, ranBeside>>
        BY <1>4, ExitEnds DEF HoldsTimed
    <2>2. openHolds' \in Seq([nodeId : Writer, at : Time])
        BY <2>1
    <2> QED BY <2>1, <2>2 DEF LedgerTypeOK, Time, Holds
<1>5. ASSUME NEW r \in Reader, OpenTurn(r) PROVE LedgerTypeOK'
    BY <1>1, <1>5 DEF OpenTurn, LedgerTypeOK, Time, Holds
<1>6. ASSUME NEW r \in Reader, CloseTurn(r) PROVE LedgerTypeOK'
    BY <1>1, <1>6 DEF CloseTurn, LedgerTypeOK, Time, Holds
<1>7. ASSUME NEW r \in Reader, Ask(r) PROVE LedgerTypeOK'
    <2>1. WritersOverlapping(from[r], to[r]) \in Seq(Writer)
        BY AnswerSays
    <2> QED BY <1>7, <2>1 DEF Ask, LedgerTypeOK, Time, Holds
<1>8. CASE UNCHANGED ledgerVars
    BY <1>8 DEF ledgerVars, LedgerTypeOK, Time, Holds
<1> QED BY <1>2, <1>3, <1>4, <1>5, <1>6, <1>7, <1>8 DEF LedgerNext

LEMMA LedgerBegins == LedgerInit => LedgerInv
<1> SUFFICES ASSUME LedgerInit PROVE LedgerInv
    OBVIOUS
<1>1. LedgerTypeOK
    BY LedgerAssumption DEF LedgerInit, LedgerTypeOK, Time, Holds
<1>2. DOMAIN openHolds = {} /\ DOMAIN closedHolds = {} /\ Len(openHolds) = 0
    BY DEF LedgerInit
<1>3. \A r \in Reader : turn[r] = "before" /\ from[r] = 0 /\ to[r] = 0 /\ DOMAIN answer[r] = {} /\ now = 0
    BY DEF LedgerInit
<1>4. HoldsTimed /\ TurnsTimed
    BY <1>2, <1>3 DEF HoldsTimed, TurnsTimed
<1>5. BesideHeld /\ HeldBeside
    BY <1>3 DEF BesideHeld, HeldBeside
<1>6. AnswerTrue
    BY <1>3 DEF AnswerTrue, CoRunnersNamed, AnswerInOrder, OnlyTiesAreExtra
<1> QED BY <1>1, <1>4, <1>5, <1>6 DEF LedgerInv

\* The clock only goes forward, and nothing is dated after it.
LEMMA TimesKept == LedgerInv /\ [LedgerNext]_ledgerVars => HoldsTimed' /\ TurnsTimed'
<1> SUFFICES ASSUME LedgerInv, [LedgerNext]_ledgerVars PROVE HoldsTimed' /\ TurnsTimed'
    OBVIOUS
<1>0. LedgerTypeOK /\ HoldsTimed /\ TurnsTimed
    BY DEF LedgerInv
<1>1. CASE Tick
    <2>1. now' \in Int /\ now <= now' /\ now \in Int
        BY <1>0, <1>1, LedgerData DEF Tick
    <2>2. UNCHANGED <<openHolds, closedHolds, from, to>>
        BY <1>1 DEF Tick
    <2>3. \A t \in Time : t <= now => t <= now'
        BY <1>0, <2>1, LedgerData
    <2>4. TurnsTimed'
        BY <1>0, <2>2, <2>3, LedgerData DEF TurnsTimed
    <2>5. HoldsTimed'
        BY <1>0, <2>2, <2>3, LedgerData DEF HoldsTimed
    <2> QED BY <2>4, <2>5
<1>2. ASSUME NEW w \in Writer, Enter(w) PROVE HoldsTimed' /\ TurnsTimed'
    <2>1. TurnsTimed'
        BY <1>0, <1>2, EnterOpens DEF TurnsTimed
    <2>2. Len(openHolds') <= 1 /\ \A i \in DOMAIN openHolds' : openHolds'[i].at <= now
        <3>1. Len(openHolds') = 1 /\ DOMAIN openHolds' = {1} /\ openHolds'[1].at = now
            BY <1>0, <1>2, EnterOpens
        <3>2. now <= now
            BY <1>0, LedgerData
        <3> QED BY <3>1, <3>2
    <2>3. UNCHANGED <<now, closedHolds>>
        BY <1>0, <1>2, EnterOpens
    <2> QED BY <1>0, <2>1, <2>2, <2>3 DEF HoldsTimed
<1>3. ASSUME NEW w \in Writer, Exit(w) PROVE HoldsTimed' /\ TurnsTimed'
    <2>0. Len(openHolds) <= 1
        BY <1>0 DEF HoldsTimed
    <2>1. TurnsTimed'
        BY <1>0, <1>3, <2>0, ExitEnds DEF TurnsTimed
    <2>2. Len(openHolds') = 0 /\ DOMAIN openHolds' = {} /\ now' = now
        BY <1>0, <1>3, <2>0, ExitEnds
    <2>3. ASSUME NEW i \in DOMAIN closedHolds'
          PROVE  (closedHolds')[i].from <= (closedHolds')[i].to /\ (closedHolds')[i].to <= now
        <3>1. CASE i \in DOMAIN closedHolds
            <4>1. (closedHolds')[i] = closedHolds[i]
                BY <1>0, <1>3, <2>0, <3>1, ExitEnds
            <4> QED BY <1>0, <3>1, <4>1 DEF HoldsTimed
        <3>2. CASE i = Len(closedHolds) + 1
            <4>1. (closedHolds')[i] = [nodeId |-> w, from |-> openHolds[1].at, to |-> now] /\ DOMAIN openHolds = {1}
                BY <1>0, <1>3, <2>0, <3>2, ExitEnds
            <4>2. openHolds[1].at <= now
                BY <1>0, <4>1 DEF HoldsTimed
            <4> QED BY <1>0, <4>1, <4>2, LedgerData
        <3>3. DOMAIN closedHolds' = 1 .. Len(closedHolds) + 1 /\ DOMAIN closedHolds = 1 .. Len(closedHolds) /\ Len(closedHolds) \in Nat
            BY <1>0, <1>3, <2>0, ExitEnds, LedgerData
        <3> QED BY <3>1, <3>2, <3>3
    <2> QED BY <2>1, <2>2, <2>3 DEF HoldsTimed
<1>4. ASSUME NEW r \in Reader, OpenTurn(r) \/ CloseTurn(r) \/ Ask(r) PROVE HoldsTimed' /\ TurnsTimed'
    <2>1. UNCHANGED <<now, openHolds, closedHolds>>
        BY <1>4 DEF OpenTurn, CloseTurn, Ask
    <2>2. \A q \in Reader : from'[q] \in {from[q], now} /\ to'[q] \in {to[q], now}
        BY <1>0, <1>4 DEF OpenTurn, CloseTurn, Ask, LedgerTypeOK
    <2>3. TurnsTimed'
        BY <1>0, <2>1, <2>2, LedgerData DEF TurnsTimed
    <2> QED BY <1>0, <2>1, <2>3 DEF HoldsTimed
<1>5. CASE UNCHANGED ledgerVars
    BY <1>0, <1>5 DEF ledgerVars, HoldsTimed, TurnsTimed
<1> QED BY <1>1, <1>2, <1>3, <1>4, <1>5 DEF LedgerNext

\* The holds there are after a writer let go: those that had ended, and its own.
LEMMA ExitAdds ==
    ASSUME LedgerTypeOK, Len(openHolds) <= 1, NEW w \in Writer, Exit(w), NEW i \in DOMAIN closedHolds'
    PROVE  \/ i \in DOMAIN closedHolds /\ (closedHolds')[i] = closedHolds[i]
           \/ /\ i = Len(closedHolds) + 1 /\ DOMAIN openHolds = {1} /\ (closedHolds')[i].nodeId = openHolds[1].nodeId
              /\ (closedHolds')[i].from = openHolds[1].at /\ (closedHolds')[i].to = now
<1>1. DOMAIN closedHolds' = 1 .. Len(closedHolds) + 1 /\ DOMAIN closedHolds = 1 .. Len(closedHolds) /\ Len(closedHolds) \in Nat
    BY ExitEnds, LedgerData
<1>2. CASE i \in DOMAIN closedHolds
    BY <1>2, ExitEnds
<1>3. CASE i = Len(closedHolds) + 1
    <2>1. DOMAIN openHolds = {1} /\ openHolds[1].nodeId = w /\ (closedHolds')[i] = [nodeId |-> w, from |-> openHolds[1].at, to |-> now]
        BY <1>3, ExitEnds
    <2> QED BY <1>3, <2>1
<1> QED BY <1>1, <1>2, <1>3

\* A writer that ran beside a turn keeps a hold that overlaps it.
LEMMA BesideKept == LedgerInv /\ [LedgerNext]_ledgerVars => BesideHeld'
<1> SUFFICES ASSUME LedgerInv, [LedgerNext]_ledgerVars PROVE BesideHeld'
    OBVIOUS
<1>0. LedgerTypeOK /\ HoldsTimed /\ TurnsTimed /\ BesideHeld
    BY DEF LedgerInv
<1>1. CASE Tick
    BY <1>0, <1>1 DEF Tick, BesideHeld
<1>2. ASSUME NEW w \in Writer, Enter(w) PROVE BesideHeld'
    <2> SUFFICES ASSUME NEW r \in Reader, turn[r] \in {"open", "closed"}, NEW v \in ranBeside'[r]
                 PROVE  \/ \E i \in DOMAIN closedHolds :
                              /\ closedHolds[i].nodeId = v /\ closedHolds[i].to >= from[r]
                              /\ turn[r] = "closed" => closedHolds[i].from <= to[r]
                        \/ \E i \in DOMAIN openHolds' :
                              openHolds'[i].nodeId = v /\ (turn[r] = "closed" => openHolds'[i].at <= to[r])
        BY <1>0, <1>2, EnterOpens DEF BesideHeld
    <2>1. CASE v \in ranBeside[r]
        BY <1>0, <1>2, <2>1, EnterOpens DEF BesideHeld
    <2>2. CASE v \notin ranBeside[r]
        <3>1. v = w /\ turn[r] = "open"
            BY <1>0, <1>2, <2>2 DEF Enter, LedgerTypeOK
        <3> QED BY <1>0, <1>2, <3>1, EnterOpens
    <2> QED BY <2>1, <2>2
<1>3. ASSUME NEW w \in Writer, Exit(w) PROVE BesideHeld'
    <2>0. Len(openHolds) <= 1
        BY <1>0 DEF HoldsTimed
    <2>u. UNCHANGED <<now, turn, from, to, answer, ranBeside>>
        BY <1>0, <1>3, <2>0, ExitEnds
    <2> SUFFICES ASSUME NEW r \in Reader, turn[r] \in {"open", "closed"}, NEW v \in ranBeside[r]
                 PROVE  \E i \in DOMAIN closedHolds' :
                              /\ (closedHolds')[i].nodeId = v /\ (closedHolds')[i].to >= from[r]
                              /\ turn[r] = "closed" => (closedHolds')[i].from <= to[r]
        BY <2>u DEF BesideHeld
    <2>1. CASE \E i \in DOMAIN closedHolds :
                  /\ closedHolds[i].nodeId = v /\ closedHolds[i].to >= from[r]
                  /\ turn[r] = "closed" => closedHolds[i].from <= to[r]
        BY <1>0, <1>3, <2>0, <2>1, ExitEnds
    <2>2. CASE \E i \in DOMAIN openHolds :
                  openHolds[i].nodeId = v /\ (turn[r] = "closed" => openHolds[i].at <= to[r])
        <3>1. /\ openHolds[1].nodeId = v /\ (turn[r] = "closed" => openHolds[1].at <= to[r]) /\ openHolds[1].nodeId = w
              /\ Len(closedHolds) + 1 \in DOMAIN closedHolds'
              /\ (closedHolds')[Len(closedHolds) + 1] = [nodeId |-> w, from |-> openHolds[1].at, to |-> now]
            <4>1. Len(closedHolds) \in Nat
                BY <1>0, LedgerData
            <4> QED BY <1>0, <1>3, <2>0, <2>2, <4>1, ExitEnds
        <3>2. now >= from[r]
            BY <1>0, LedgerData DEF TurnsTimed
        <3> QED BY <3>1, <3>2
    <2> QED BY <1>0, <2>1, <2>2 DEF BesideHeld
<1>4. ASSUME NEW q \in Reader, OpenTurn(q) PROVE BesideHeld'
    <2>u. UNCHANGED <<openHolds, closedHolds, to>>
        BY <1>4 DEF OpenTurn
    <2> SUFFICES ASSUME NEW r \in Reader, turn'[r] \in {"open", "closed"}, NEW v \in ranBeside'[r]
                 PROVE  \/ \E i \in DOMAIN closedHolds :
                              /\ closedHolds[i].nodeId = v /\ closedHolds[i].to >= from'[r]
                              /\ turn'[r] = "closed" => closedHolds[i].from <= to[r]
                        \/ \E i \in DOMAIN openHolds :
                              openHolds[i].nodeId = v /\ (turn'[r] = "closed" => openHolds[i].at <= to[r])
        BY <2>u DEF BesideHeld
    <2>1. CASE r = q
        <3>1. turn'[r] = "open" /\ Holding(v)
            BY <1>0, <1>4, <2>1 DEF OpenTurn, LedgerTypeOK
        <3> QED BY <3>1 DEF Holding
    <2>2. CASE r # q
        <3>1. turn'[r] = turn[r] /\ from'[r] = from[r] /\ ranBeside'[r] = ranBeside[r]
            BY <1>0, <1>4, <2>2 DEF OpenTurn, LedgerTypeOK
        <3> QED BY <1>0, <3>1 DEF BesideHeld
    <2> QED BY <2>1, <2>2
<1>5. ASSUME NEW q \in Reader, CloseTurn(q) PROVE BesideHeld'
    <2>u. UNCHANGED <<now, openHolds, closedHolds, from, ranBeside>>
        BY <1>5 DEF CloseTurn
    <2> SUFFICES ASSUME NEW r \in Reader, turn'[r] \in {"open", "closed"}, NEW v \in ranBeside[r]
                 PROVE  \/ \E i \in DOMAIN closedHolds :
                              /\ closedHolds[i].nodeId = v /\ closedHolds[i].to >= from[r]
                              /\ turn'[r] = "closed" => closedHolds[i].from <= to'[r]
                        \/ \E i \in DOMAIN openHolds :
                              openHolds[i].nodeId = v /\ (turn'[r] = "closed" => openHolds[i].at <= to'[r])
        BY <2>u DEF BesideHeld
    <2>1. CASE r = q
        <3>1. turn[r] = "open" /\ turn'[r] = "closed" /\ to'[r] = now
            BY <1>0, <1>5, <2>1 DEF CloseTurn, LedgerTypeOK
        <3>2. CASE \E i \in DOMAIN closedHolds : closedHolds[i].nodeId = v /\ closedHolds[i].to >= from[r]
            <4>1. \A i \in DOMAIN closedHolds : closedHolds[i].from <= now
                <5>1. \A i \in DOMAIN closedHolds : /\ closedHolds[i].from \in Int /\ closedHolds[i].to \in Int /\ now \in Int
                                                    /\ closedHolds[i].from <= closedHolds[i].to /\ closedHolds[i].to <= now
                    BY <1>0, LedgerData DEF HoldsTimed
                <5> QED BY <5>1
            <4> QED BY <3>1, <3>2, <4>1
        <3>3. CASE \E i \in DOMAIN openHolds : openHolds[i].nodeId = v
            BY <1>0, <3>1, <3>3 DEF HoldsTimed
        <3> QED BY <1>0, <3>1, <3>2, <3>3 DEF BesideHeld
    <2>2. CASE r # q
        <3>1. turn'[r] = turn[r] /\ to'[r] = to[r]
            BY <1>0, <1>5, <2>2 DEF CloseTurn, LedgerTypeOK
        <3> QED BY <1>0, <3>1 DEF BesideHeld
    <2> QED BY <2>1, <2>2
<1>6. ASSUME NEW q \in Reader, Ask(q) PROVE BesideHeld'
    <2>1. \A r \in Reader : turn'[r] \in {"open", "closed"} => turn[r] = turn'[r]
        BY <1>0, <1>6 DEF Ask, LedgerTypeOK
    <2>2. UNCHANGED <<openHolds, closedHolds, from, to, ranBeside>>
        BY <1>6 DEF Ask
    <2> QED BY <1>0, <2>1, <2>2 DEF BesideHeld
<1>7. CASE UNCHANGED ledgerVars
    BY <1>0, <1>7 DEF ledgerVars, BesideHeld
<1> QED BY <1>1, <1>2, <1>3, <1>4, <1>5, <1>6, <1>7 DEF LedgerNext

\* A hold that overlaps a turn by more than one reading is of a writer that ran beside it.
LEMMA HeldKept == LedgerInv /\ [LedgerNext]_ledgerVars => HeldBeside'
<1> SUFFICES ASSUME LedgerInv, [LedgerNext]_ledgerVars PROVE HeldBeside'
    OBVIOUS
<1>0. LedgerTypeOK /\ HoldsTimed /\ TurnsTimed /\ HeldBeside
    BY DEF LedgerInv
<1>1. CASE Tick
    BY <1>0, <1>1 DEF Tick, HeldBeside
<1>2. ASSUME NEW w \in Writer, Enter(w) PROVE HeldBeside'
    <2>u. UNCHANGED <<now, closedHolds, turn, from, to, answer>> /\ DOMAIN openHolds' = {1} /\ openHolds'[1].nodeId = w /\ openHolds'[1].at = now
        BY <1>0, <1>2, EnterOpens
    <2>1. ASSUME NEW r \in Reader PROVE ranBeside[r] \subseteq ranBeside'[r] /\ (turn[r] = "open" => w \in ranBeside'[r])
        BY <1>0, <1>2 DEF Enter, LedgerTypeOK
    <2>2. ASSUME NEW r \in Reader PROVE ~ (now < to[r])
        BY <1>0, LedgerData DEF TurnsTimed
    <2> QED BY <1>0, <2>u, <2>1, <2>2 DEF HeldBeside
<1>3. ASSUME NEW w \in Writer, Exit(w) PROVE HeldBeside'
    <2>0. Len(openHolds) <= 1
        BY <1>0 DEF HoldsTimed
    <2>u. UNCHANGED <<now, turn, from, to, answer, ranBeside>> /\ DOMAIN openHolds' = {}
        BY <1>0, <1>3, <2>0, ExitEnds
    <2> SUFFICES ASSUME NEW r \in Reader, turn[r] # "before", NEW i \in DOMAIN closedHolds',
                        (closedHolds')[i].to > from[r], turn[r] # "open" => (closedHolds')[i].from < to[r]
                 PROVE  (closedHolds')[i].nodeId \in ranBeside[r]
        BY <2>u DEF HeldBeside
    <2>1. CASE i \in DOMAIN closedHolds /\ (closedHolds')[i] = closedHolds[i]
        BY <1>0, <2>1 DEF HeldBeside
    <2>2. CASE /\ DOMAIN openHolds = {1} /\ (closedHolds')[i].nodeId = openHolds[1].nodeId
               /\ (closedHolds')[i].from = openHolds[1].at
        BY <1>0, <2>2 DEF HeldBeside
    <2> QED BY <1>0, <1>3, <2>0, <2>1, <2>2, ExitAdds
<1>4. ASSUME NEW q \in Reader, OpenTurn(q) PROVE HeldBeside'
    <2>u. UNCHANGED <<now, openHolds, closedHolds, to>>
        BY <1>4 DEF OpenTurn
    <2>1. ASSUME NEW r \in Reader, r # q PROVE turn'[r] = turn[r] /\ from'[r] = from[r] /\ ranBeside'[r] = ranBeside[r]
        BY <1>0, <1>4, <2>1 DEF OpenTurn, LedgerTypeOK
    <2>2. turn'[q] = "open" /\ from'[q] = now /\ ranBeside'[q] = {w \in Writer : Holding(w)}
        BY <1>0, <1>4 DEF OpenTurn, LedgerTypeOK
    <2>3. \A i \in DOMAIN closedHolds : ~ (closedHolds[i].to > now)
        BY <1>0, LedgerData DEF HoldsTimed
    <2>4. \A i \in DOMAIN openHolds : openHolds[i].nodeId \in ranBeside'[q]
        BY <1>0, <2>2, LedgerData DEF Holding
    <2> SUFFICES ASSUME NEW r \in Reader, turn'[r] # "before"
                 PROVE  /\ \A i \in DOMAIN closedHolds :
                              closedHolds[i].to > from'[r] /\ (turn'[r] # "open" => closedHolds[i].from < to[r])
                                => closedHolds[i].nodeId \in ranBeside'[r]
                        /\ \A i \in DOMAIN openHolds :
                              (turn'[r] # "open" => openHolds[i].at < to[r]) => openHolds[i].nodeId \in ranBeside'[r]
        BY <2>u DEF HeldBeside
    <2>5. CASE r = q
        BY <2>2, <2>3, <2>4, <2>5
    <2>6. CASE r # q
        BY <1>0, <2>1, <2>6 DEF HeldBeside
    <2> QED BY <2>5, <2>6
<1>5. ASSUME NEW q \in Reader, CloseTurn(q) \/ Ask(q) PROVE HeldBeside'
    <2>u. UNCHANGED <<now, openHolds, closedHolds, from, ranBeside>>
        BY <1>5 DEF CloseTurn, Ask
    <2>1. ASSUME NEW r \in Reader, turn'[r] # "before"
          PROVE  turn[r] = "open" \/ (turn[r] # "before" /\ turn'[r] # "open" /\ to'[r] = to[r])
        BY <1>0, <1>5, <2>1 DEF CloseTurn, Ask, LedgerTypeOK
    <2> SUFFICES ASSUME NEW r \in Reader, turn'[r] # "before"
                 PROVE  /\ \A i \in DOMAIN closedHolds :
                              closedHolds[i].to > from[r] /\ (turn'[r] # "open" => closedHolds[i].from < to'[r])
                                => closedHolds[i].nodeId \in ranBeside[r]
                        /\ \A i \in DOMAIN openHolds :
                              (turn'[r] # "open" => openHolds[i].at < to'[r]) => openHolds[i].nodeId \in ranBeside[r]
        BY <2>u DEF HeldBeside
    <2> QED BY <1>0, <2>1 DEF HeldBeside
<1>7. CASE UNCHANGED ledgerVars
    BY <1>0, <1>7 DEF ledgerVars, HeldBeside
<1> QED BY <1>1, <1>2, <1>3, <1>4, <1>5, <1>7 DEF LedgerNext

\* The hold a reader asks about and the one still open, as Overlaps compares them.
LEMMA AskSees ==
    ASSUME LedgerTypeOK, HoldsTimed, TurnsTimed, NEW r \in Reader
    PROVE  /\ \A i \in DOMAIN closedHolds :
                 i \in EndedDuring(from[r], to[r]) <=> closedHolds[i].from <= to[r] /\ closedHolds[i].to >= from[r]
           /\ \A i \in DOMAIN openHolds : i \in OpenDuring(from[r], to[r]) <=> openHolds[i].at <= to[r]
           /\ EndedDuring(from[r], to[r]) \subseteq DOMAIN closedHolds
           /\ OpenDuring(from[r], to[r]) \subseteq DOMAIN openHolds
<1>1. from[r] <= MaxTime /\ from[r] \in Int /\ MaxTime \in Int
    BY LedgerData
<1>2. Forever >= from[r]
    BY <1>1 DEF Forever
<1> QED BY <1>2 DEF EndedDuring, OpenDuring, Overlaps

LEMMA AskNames ==
    ASSUME LedgerInv, NEW r \in Reader, Ask(r)
    PROVE  /\ ranBeside[r] \subseteq ToSet(answer'[r])
           /\ \A w \in ToSet(answer'[r]) \ ranBeside[r] :
                 \/ \E i \in DOMAIN closedHolds :
                       closedHolds[i].nodeId = w /\ (closedHolds[i].to = from[r] \/ closedHolds[i].from = to[r])
                 \/ \E i \in DOMAIN openHolds : openHolds[i].nodeId = w /\ openHolds[i].at = to[r]
           /\ \A i, j \in DOMAIN answer'[r] :
                 i < j => \E k, l \in DOMAIN Taken : k < l /\ Taken[k] = answer'[r][i] /\ Taken[l] = answer'[r][j]
<1>0. LedgerTypeOK /\ HoldsTimed /\ TurnsTimed /\ BesideHeld /\ HeldBeside /\ turn[r] = "closed"
    BY DEF LedgerInv, Ask
<1>1. PICK told : told = WritersOverlapping(from[r], to[r])
    OBVIOUS
<1>2. answer'[r] = told
    BY <1>0, <1>1 DEF Ask, LedgerTypeOK
<1>3. /\ \A i \in EndedDuring(from[r], to[r]) : closedHolds[i].nodeId \in ToSet(told)
      /\ \A i \in OpenDuring(from[r], to[r]) : openHolds[i].nodeId \in ToSet(told)
    <2>1. /\ \A i \in EndedDuring(from[r], to[r]) : \E k \in DOMAIN told : told[k] = closedHolds[i].nodeId
          /\ \A i \in OpenDuring(from[r], to[r]) : \E k \in DOMAIN told : told[k] = openHolds[i].nodeId
        BY <1>0, <1>1, AnswerSays
    <2> QED BY <2>1 DEF ToSet
<1>4. ASSUME NEW w \in ToSet(told)
      PROVE  \/ \E i \in EndedDuring(from[r], to[r]) : closedHolds[i].nodeId = w
             \/ \E i \in OpenDuring(from[r], to[r]) : openHolds[i].nodeId = w
    <2>1. PICK k \in DOMAIN told : told[k] = w
        BY <1>4 DEF ToSet
    <2>2. \/ \E i \in EndedDuring(from[r], to[r]) : told[k] = closedHolds[i].nodeId
          \/ \E i \in OpenDuring(from[r], to[r]) : told[k] = openHolds[i].nodeId
        BY <1>0, <1>1, AnswerSays
    <2> QED BY <2>1, <2>2
<1>5. ranBeside[r] \subseteq ToSet(told)
    <2> SUFFICES ASSUME NEW w \in ranBeside[r] PROVE w \in ToSet(told)
        OBVIOUS
    <2>1. CASE \E i \in DOMAIN closedHolds :
                  closedHolds[i].nodeId = w /\ closedHolds[i].to >= from[r] /\ closedHolds[i].from <= to[r]
        BY <1>0, <1>3, <2>1, AskSees
    <2>2. CASE \E i \in DOMAIN openHolds : openHolds[i].nodeId = w /\ openHolds[i].at <= to[r]
        BY <1>0, <1>3, <2>2, AskSees
    <2> QED BY <1>0, <2>1, <2>2 DEF BesideHeld
<1>6. ASSUME NEW w \in ToSet(told) \ ranBeside[r]
      PROVE  \/ \E i \in DOMAIN closedHolds :
                    closedHolds[i].nodeId = w /\ (closedHolds[i].to = from[r] \/ closedHolds[i].from = to[r])
             \/ \E i \in DOMAIN openHolds : openHolds[i].nodeId = w /\ openHolds[i].at = to[r]
    <2>t. from[r] \in Int /\ to[r] \in Int
        BY <1>0, LedgerData
    <2>1. CASE \E i \in EndedDuring(from[r], to[r]) : closedHolds[i].nodeId = w
        <3>1. PICK i \in DOMAIN closedHolds : closedHolds[i].nodeId = w /\ closedHolds[i].from <= to[r] /\ closedHolds[i].to >= from[r]
            BY <1>0, <2>1, AskSees
        <3>2. ~ (closedHolds[i].to > from[r] /\ closedHolds[i].from < to[r])
            BY <1>0, <1>6, <3>1 DEF HeldBeside
        <3>3. closedHolds[i].from \in Int /\ closedHolds[i].to \in Int
            BY <1>0, LedgerData
        <3>4. closedHolds[i].to = from[r] \/ closedHolds[i].from = to[r]
            BY <2>t, <3>1, <3>2, <3>3
        <3> QED BY <3>1, <3>4
    <2>2. CASE \E i \in OpenDuring(from[r], to[r]) : openHolds[i].nodeId = w
        <3>1. PICK i \in DOMAIN openHolds : openHolds[i].nodeId = w /\ openHolds[i].at <= to[r]
            BY <1>0, <2>2, AskSees
        <3>2. ~ (openHolds[i].at < to[r])
            BY <1>0, <1>6, <3>1 DEF HeldBeside
        <3>3. openHolds[i].at \in Int
            BY <1>0, LedgerData
        <3>4. openHolds[i].at = to[r]
            BY <2>t, <3>1, <3>2, <3>3
        <3> QED BY <3>1, <3>4
    <2> QED BY <1>4, <1>6, <2>1, <2>2
<1>7. \A i, j \in DOMAIN told : i < j => \E k, l \in DOMAIN Taken : k < l /\ Taken[k] = told[i] /\ Taken[l] = told[j]
    BY <1>0, <1>1, AnswerSays
<1> QED BY <1>2, <1>5, <1>6, <1>7

\* What a reader was told stays true of it.
LEMMA AnswersKept == LedgerInv /\ LedgerTypeOK' /\ [LedgerNext]_ledgerVars => AnswerTrue'
<1> SUFFICES ASSUME LedgerInv, LedgerTypeOK', [LedgerNext]_ledgerVars PROVE AnswerTrue'
    OBVIOUS
<1>0. LedgerTypeOK /\ HoldsTimed /\ CoRunnersNamed /\ AnswerInOrder /\ OnlyTiesAreExtra
    BY DEF LedgerInv, AnswerTrue
<1>1. CASE Tick
    <2>1. UNCHANGED <<openHolds, closedHolds, turn, from, to, answer, ranBeside>>
        BY <1>1 DEF Tick
    <2>2. CoRunnersNamed' /\ OnlyTiesAreExtra'
        BY <1>0, <2>1 DEF CoRunnersNamed, OnlyTiesAreExtra
    <2>3. AnswerInOrder'
        BY <1>0, <2>1 DEF AnswerInOrder, Taken
    <2> QED BY <2>2, <2>3 DEF AnswerTrue
<1>2. ASSUME NEW w \in Writer, Enter(w) PROVE AnswerTrue'
    <2>u. UNCHANGED <<now, closedHolds, turn, from, to, answer>> /\ DOMAIN openHolds = {}
        BY <1>0, <1>2, EnterOpens
    <2>1. \A r \in Reader : turn[r] = "asked" => ranBeside'[r] = ranBeside[r]
        BY <1>0, <1>2 DEF Enter, LedgerTypeOK
    <2>2. CoRunnersNamed' /\ OnlyTiesAreExtra'
        BY <1>0, <2>u, <2>1 DEF CoRunnersNamed, OnlyTiesAreExtra
    <2>3. \A k \in DOMAIN Taken : k \in DOMAIN Taken' /\ Taken'[k] = Taken[k]
        BY <1>0, <1>2, TakenStays DEF HoldsTimed
    <2>4. AnswerInOrder'
        BY <1>0, <2>u, <2>3 DEF AnswerInOrder
    <2> QED BY <2>2, <2>4 DEF AnswerTrue
<1>3. ASSUME NEW w \in Writer, Exit(w) PROVE AnswerTrue'
    <2>0. Len(openHolds) <= 1
        BY <1>0 DEF HoldsTimed
    <2>u. UNCHANGED <<now, turn, from, to, answer, ranBeside>>
        BY <1>0, <1>3, <2>0, ExitEnds
    <2>1. CoRunnersNamed'
        BY <1>0, <2>u DEF CoRunnersNamed
    <2>2. OnlyTiesAreExtra'
        <3>1. \A i \in DOMAIN closedHolds : i \in DOMAIN closedHolds' /\ (closedHolds')[i] = closedHolds[i]
            BY <1>0, <1>3, <2>0, ExitEnds
        <3>2. PICK h \in DOMAIN closedHolds' : (closedHolds')[h].nodeId = openHolds[1].nodeId /\ (closedHolds')[h].from = openHolds[1].at
            <4>1. Len(closedHolds) + 1 \in DOMAIN closedHolds'
                <5>1. DOMAIN closedHolds' = 1 .. Len(closedHolds) + 1
                    BY <1>0, <1>3, <2>0, ExitEnds
                <5>2. Len(closedHolds) \in Nat
                    BY <1>0, LedgerData
                <5> QED BY <5>1, <5>2
            <4>2. (closedHolds')[Len(closedHolds) + 1] = [nodeId |-> w, from |-> openHolds[1].at, to |-> now] /\ openHolds[1].nodeId = w
                BY <1>0, <1>3, <2>0, ExitEnds
            <4> QED BY <4>1, <4>2
        <3>3. DOMAIN openHolds = {1}
            BY <1>0, <1>3, <2>0, ExitEnds
        <3> QED BY <1>0, <2>u, <3>1, <3>2, <3>3 DEF OnlyTiesAreExtra
    <2>3. \A k \in DOMAIN Taken : k \in DOMAIN Taken' /\ Taken'[k] = Taken[k]
        BY <1>0, <1>3, <2>0, TakenStays
    <2>4. AnswerInOrder'
        BY <1>0, <2>u, <2>3 DEF AnswerInOrder
    <2> QED BY <2>1, <2>2, <2>4 DEF AnswerTrue
<1>4. ASSUME NEW q \in Reader, OpenTurn(q) \/ CloseTurn(q) PROVE AnswerTrue'
    <2>u. UNCHANGED <<openHolds, closedHolds, answer>>
        BY <1>4 DEF OpenTurn, CloseTurn
    <2>1. \A r \in Reader : turn'[r] = "asked" => turn[r] = "asked" /\ from'[r] = from[r] /\ to'[r] = to[r] /\ ranBeside'[r] = ranBeside[r]
        BY <1>0, <1>4 DEF OpenTurn, CloseTurn, LedgerTypeOK
    <2>2. CoRunnersNamed' /\ OnlyTiesAreExtra'
        BY <1>0, <2>u, <2>1 DEF CoRunnersNamed, OnlyTiesAreExtra
    <2>3. AnswerInOrder'
        BY <1>0, <2>u DEF AnswerInOrder, Taken
    <2> QED BY <2>2, <2>3 DEF AnswerTrue
<1>5. ASSUME NEW q \in Reader, Ask(q) PROVE AnswerTrue'
    <2>u. UNCHANGED <<now, openHolds, closedHolds, from, to, ranBeside>> /\ Taken' = Taken
        BY <1>5 DEF Ask, Taken
    <2>1. \A r \in Reader : r # q => turn'[r] = turn[r] /\ answer'[r] = answer[r]
        BY <1>0, <1>5 DEF Ask, LedgerTypeOK
    <2>2. CoRunnersNamed'
        BY <1>0, <1>5, <2>u, <2>1, AskNames DEF CoRunnersNamed
    <2>3. AnswerInOrder'
        <3> SUFFICES ASSUME NEW r \in Reader, NEW i \in DOMAIN answer'[r], NEW j \in DOMAIN answer'[r], i < j
                     PROVE  \E k, l \in DOMAIN Taken : k < l /\ Taken[k] = answer'[r][i] /\ Taken[l] = answer'[r][j]
            BY <2>u DEF AnswerInOrder
        <3>1. CASE r = q
            BY <1>5, <3>1, AskNames
        <3>2. CASE r # q
            BY <1>0, <2>1, <3>2 DEF AnswerInOrder
        <3> QED BY <3>1, <3>2
    <2>4. OnlyTiesAreExtra'
        BY <1>0, <1>5, <2>u, <2>1, AskNames DEF OnlyTiesAreExtra
    <2> QED BY <2>2, <2>3, <2>4 DEF AnswerTrue
<1>7. CASE UNCHANGED ledgerVars
    <2>1. UNCHANGED <<openHolds, closedHolds, turn, from, to, answer, ranBeside>>
        BY <1>7 DEF ledgerVars
    <2>2. CoRunnersNamed' /\ OnlyTiesAreExtra'
        BY <1>0, <2>1 DEF CoRunnersNamed, OnlyTiesAreExtra
    <2>3. AnswerInOrder'
        BY <1>0, <2>1 DEF AnswerInOrder, Taken
    <2> QED BY <2>2, <2>3 DEF AnswerTrue
<1> QED BY <1>1, <1>2, <1>3, <1>4, <1>5, <1>7 DEF LedgerNext

\* What the ledger tells a reader is what happened beside it, for any writers, readers and
\* readings of the clock: every writer that held the lock during the turn is named, in the
\* order the lock was taken, and beyond them only one whose hold touches the turn at one
\* reading (AnswerTrue; WriterLockLedger.ts).
THEOREM LedgerTellsTheTruth == LedgerSpec => []AnswerTrue
<1>1. LedgerInv /\ [LedgerNext]_ledgerVars => LedgerInv'
    <2> SUFFICES ASSUME LedgerInv, [LedgerNext]_ledgerVars PROVE LedgerInv'
        OBVIOUS
    <2>1. LedgerTypeOK'
        BY LedgerTypes DEF LedgerInv
    <2> QED BY <2>1, TimesKept, BesideKept, HeldKept, AnswersKept DEF LedgerInv
<1>2. LedgerInv => AnswerTrue
    BY DEF LedgerInv
<1> QED BY LedgerBegins, <1>1, <1>2, PTL DEF LedgerSpec
================================================================================

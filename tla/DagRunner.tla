------------------------------- MODULE DagRunner -------------------------------
(***************************************************************************)
(* The plan scheduler: dag-runner's DagRunner with the node state machine, *)
(* the retry loop, the writer lock and the blackboard it drives.           *)
(*                                                                         *)
(* The program is one JavaScript thread.  Code between two awaits is one   *)
(* step; every await is a point where other nodes' continuations run.      *)
(* stage[n] says at which await (or microtask boundary) node n's           *)
(* executeNode promise stands:                                             *)
(*    idle       not dispatched                                            *)
(*    inputs     in board.waitFor                                          *)
(*    attempt    the executor has been called and has not answered         *)
(*    backoff    in withRetry's sleep                                      *)
(*    recording  failed, in recordFailure's race                           *)
(*    settled    executeNode has returned, its release has not run         *)
(*    released   evicted from the waiting set                              *)
(***************************************************************************)
EXTENDS Integers, FiniteSets, Sequences

CONSTANTS
    NumNodes,       \* the nodes of the plan, numbered in the order of dag.nodes
    Key,            \* blackboard keys
    MaxConcurrent,  \* dag.config.maxConcurrent
    Plans           \* the plans a run may be given

Node == 1 .. NumNodes

Plan ==
    [deps     : [Node -> SUBSET Node],       \* DagNode.dependencies
     writers  : SUBSET Node,                 \* the nodes isWriter holds of
     inputs   : [Node -> SUBSET Key],        \* DagNode.inputs, the keys read
     outputs  : [Node -> Seq(Key)],          \* DagNode.outputs, slot by slot
     attempts : [Node -> Nat \ {0}]]         \* retryPolicy.maxAttempts

\* What validateDag establishes before anything is dispatched.
ASSUME NodesAssumption == NumNodes \in Nat \ {0}
ASSUME LimitAssumption == MaxConcurrent \in Nat \ {0}
ASSUME PlansAssumption == Plans \subseteq Plan

\* No node of the plan: the producer of a key nobody has set.
Nobody == 0

VARIABLES
    plan,             \* the dag handed to run()
    status,           \* NodeStateMachine.states[n].status
    stage,            \* where node n's executeNode stands (see above)
    attempt,          \* withRetry's attempt counter
    board,            \* BlackboardStore.entries: who produced each key
    running,          \* the waiting set
    runningWriters,   \* the writer lock
    deferredWriters,  \* nodes passed over because a writer was running
    open,             \* WriterLockLedger.open: holds not yet ended
    closed,           \* WriterLockLedger.closed: ended holds, in order
    loop              \* the dispatch loop: scanning, awaiting a race, or returned

nodeVars == <<status, stage, attempt>>
lockVars == <<running, runningWriters, deferredWriters, open, closed>>
vars == <<plan, nodeVars, board, lockVars, loop>>

Status == {"Unclaimed", "Running", "Succeeded", "Failed"}
Stage == {"idle", "inputs", "attempt", "backoff", "recording", "settled", "released"}

\* A node whose executeNode promise is in the waiting set.
InFlight(n) == stage[n] \notin {"idle", "released"}

TypeOK ==
    /\ plan \in Plans
    /\ status \in [Node -> Status]
    /\ stage \in [Node -> Stage]
    /\ attempt \in [Node -> Nat]
    /\ board \in [Key -> Node \cup {Nobody}]
    /\ running \subseteq Node
    /\ runningWriters \subseteq Node
    /\ deferredWriters \subseteq Node
    /\ open \subseteq Node
    /\ closed \in Seq(Node)
    /\ loop \in {"scan", "wait", "returned"}

Init ==
    /\ plan \in Plans
    /\ status = [n \in Node |-> "Unclaimed"]
    /\ stage = [n \in Node |-> "idle"]
    /\ attempt = [n \in Node |-> 0]
    /\ board = [k \in Key |-> Nobody]
    /\ running = {}
    /\ runningWriters = {}
    /\ deferredWriters = {}
    /\ open = {}
    /\ closed = <<>>
    /\ loop = "scan"

--------------------------------------------------------------------------------
(***************************************************************************)
(* The dispatch loop                                                       *)
(***************************************************************************)
Terminal(n) == status[n] \in {"Succeeded", "Failed"}

DependenciesMet(n) == \A d \in plan.deps[n] : status[d] = "Succeeded"

Ready == {n \in Node : status[n] = "Unclaimed" /\ DependenciesMet(n)}

\* Wrong: the lock is looked at once for all the ready writers.
CandidatesByOneLook == {n \in Ready : n \in plan.writers => runningWriters = {}}

\* Wrong: only the writers of this turn are kept apart.
CandidatesOfThisTurn == {n \in Ready : \A m \in Ready \cap plan.writers : n \in plan.writers => n <= m}

\* The ready nodes findIndex can pick before the inner loop ends: every
\* non-writer, and the first ready writer when no writer is running.  Once that
\* one is taken runningWriters is not empty and the later ones are blocked.
Candidates ==
    {n \in Ready :
        n \in plan.writers =>
            /\ runningWriters = {}
            /\ \A m \in Ready \cap plan.writers : n <= m}

Free == MaxConcurrent - Cardinality(running)

\* The candidates taken in plan order until the limit is reached.
Dispatched == {n \in Candidates : Cardinality({m \in Candidates : m < n}) < Free}

\* The inner loop runs out of candidates before it runs out of room: what is
\* left of ready is blocked by a running writer.
Blocked == IF Cardinality(Candidates) < Free THEN Ready \ Candidates ELSE {}

\* One turn of the loop, up to its await.
Dispatch ==
    /\ loop = "scan"
    /\ Ready # {}
    /\ status' = [n \in Node |-> IF n \in Dispatched THEN "Running" ELSE status[n]]
    /\ stage' = [n \in Node |-> IF n \in Dispatched THEN "inputs" ELSE stage[n]]
    /\ running' = running \cup Dispatched
    /\ runningWriters' = runningWriters \cup (Dispatched \cap plan.writers)
    /\ open' = open \cup (Dispatched \cap plan.writers)
    /\ deferredWriters' = deferredWriters \cup Blocked
    /\ loop' = IF running' = {} THEN "scan" ELSE "wait"
    /\ UNCHANGED <<plan, attempt, board, closed>>

\* Nothing is ready: the run is over, or something in flight may change that.
Idle ==
    /\ loop = "scan"
    /\ Ready = {}
    /\ loop' = IF running = {} \/ \A n \in Node : Terminal(n) THEN "returned" ELSE "wait"
    /\ UNCHANGED <<plan, nodeVars, board, lockVars>>

Scan == Dispatch \/ Idle

\* Wrong: the lock is not given back.
ReleaseKeepsLock(n) ==
    /\ stage[n] = "settled"
    /\ stage' = [stage EXCEPT ![n] = "released"]
    /\ running' = running \ {n}
    /\ open' = open \ {n}
    /\ closed' = IF n \in open THEN Append(closed, n) ELSE closed
    /\ loop' = IF loop = "wait" THEN "scan" ELSE loop
    /\ UNCHANGED <<plan, status, attempt, board, deferredWriters, runningWriters>>

\* Wrong: the hold ends in the writer set and stays open in the ledger.
ReleaseLeavesLedger(n) ==
    /\ stage[n] = "settled"
    /\ stage' = [stage EXCEPT ![n] = "released"]
    /\ running' = running \ {n}
    /\ runningWriters' = runningWriters \ {n}
    /\ loop' = IF loop = "wait" THEN "scan" ELSE loop
    /\ UNCHANGED <<plan, status, attempt, board, deferredWriters, open, closed>>

\* The release attached to node n's promise.  It runs before the race's own
\* continuation, so the loop never rescans with n still in the waiting set.
Release(n) ==
    /\ stage[n] = "settled"
    /\ stage' = [stage EXCEPT ![n] = "released"]
    /\ running' = running \ {n}
    /\ runningWriters' = runningWriters \ {n}
    /\ open' = open \ {n}
    /\ closed' = IF n \in open THEN Append(closed, n) ELSE closed
    /\ loop' = IF loop = "wait" THEN "scan" ELSE loop
    /\ UNCHANGED <<plan, status, attempt, board, deferredWriters>>

--------------------------------------------------------------------------------
(***************************************************************************)
(* One node: executeNode, withRetry, recordFailure                         *)
(***************************************************************************)

\* The catch block: the verdict is settled before the recorder is asked.
Fail(n) ==
    /\ status' = [status EXCEPT ![n] = "Failed"]
    /\ stage' = [stage EXCEPT ![n] = "recording"]

\* Every input key has been produced: the executor is called.
InputsArrive(n) ==
    /\ stage[n] = "inputs"
    /\ \A k \in plan.inputs[n] : board[k] # Nobody
    /\ stage' = [stage EXCEPT ![n] = "attempt"]
    /\ attempt' = [attempt EXCEPT ![n] = 1]
    /\ UNCHANGED <<plan, status, board, lockVars, loop>>

\* BlackboardTimeoutError: a key nobody produced within the node's timeout.
InputTimeout(n) ==
    /\ stage[n] = "inputs"
    /\ \E k \in plan.inputs[n] : board[k] = Nobody
    /\ Fail(n)
    /\ UNCHANGED <<plan, attempt, board, lockVars, loop>>

\* The slots, among those in S, whose board.set throws BlackboardConflictError.
Conflicts(n, S) ==
    LET key == plan.outputs[n]
    IN  {i \in S : \/ board[key[i]] # Nobody
                   \/ \E j \in S : j < i /\ key[j] = key[i]}

\* The keys written before the first conflict; they stay written.
Written(n, S) ==
    {plan.outputs[n][i] : i \in {j \in S : \A c \in Conflicts(n, S) : j < c}}

\* The executor answered, with a truthy value for the slots in S.
AttemptAnswers(n) ==
    /\ stage[n] = "attempt"
    /\ \E S \in SUBSET DOMAIN plan.outputs[n] :
        /\ board' = [k \in Key |-> IF k \in Written(n, S) THEN n ELSE board[k]]
        /\ \/ /\ Conflicts(n, S) = {}
              /\ status' = [status EXCEPT ![n] = "Succeeded"]
              /\ stage' = [stage EXCEPT ![n] = "settled"]
           \/ /\ Conflicts(n, S) # {}
              /\ Fail(n)
    /\ UNCHANGED <<plan, attempt, lockVars, loop>>

\* A TransportError with attempts left: wait and try again, lock in hand.
AttemptRetries(n) ==
    /\ stage[n] = "attempt"
    /\ attempt[n] < plan.attempts[n]
    /\ stage' = [stage EXCEPT ![n] = "backoff"]
    /\ UNCHANGED <<plan, status, attempt, board, lockVars, loop>>

\* Any other error, or a TransportError on the last attempt.
AttemptFails(n) ==
    /\ stage[n] = "attempt"
    /\ Fail(n)
    /\ UNCHANGED <<plan, attempt, board, lockVars, loop>>

BackoffEnds(n) ==
    /\ stage[n] = "backoff"
    /\ stage' = [stage EXCEPT ![n] = "attempt"]
    /\ attempt' = [attempt EXCEPT ![n] = @ + 1]
    /\ UNCHANGED <<plan, status, board, lockVars, loop>>

\* The recorder answered or threw, or failureRecordTimeoutMs passed first, or
\* the run has no recorder: whichever it was, the node is done.
RecordingEnds(n) ==
    /\ stage[n] = "recording"
    /\ stage' = [stage EXCEPT ![n] = "settled"]
    /\ UNCHANGED <<plan, status, attempt, board, lockVars, loop>>

AttemptSettles(n) == AttemptAnswers(n) \/ AttemptRetries(n) \/ AttemptFails(n)

Step(n) ==
    \/ InputsArrive(n) \/ InputTimeout(n)
    \/ AttemptSettles(n) \/ BackoffEnds(n)
    \/ RecordingEnds(n) \/ Release(n)

Next == Scan \/ \E n \in Node : Step(n)

\* Timers fire and microtasks run.  The executor's promise is taken to settle:
\* a loop bounds its turns, and a CLI has its process timeout, which ends it
\* unless the child ignores its one SIGTERM (ProcessSpawner.ts:93).  The recorder need not answer: RecordingEnds is fair by
\* the timer alone.
Fairness ==
    /\ WF_vars(Scan)
    /\ \A n \in Node :
        /\ WF_vars(InputsArrive(n) \/ InputTimeout(n))
        /\ WF_vars(AttemptSettles(n))
        /\ WF_vars(BackoffEnds(n))
        /\ WF_vars(RecordingEnds(n))
        /\ WF_vars(Release(n))

Spec == Init /\ [][Next]_vars

FairSpec == Spec /\ Fairness

--------------------------------------------------------------------------------
(***************************************************************************)
(* What the caller is told                                                 *)
(***************************************************************************)
Unscheduled == {n \in Node : ~ Terminal(n)}

RunStatus ==
    IF \E n \in Node : status[n] = "Failed" THEN "Failed"
    ELSE IF Unscheduled # {} THEN "Unschedulable" ELSE "Succeeded"
--------------------------------------------------------------------------------
(***************************************************************************)
(* Properties                                                              *)
(***************************************************************************)

\* Two coder nodes never work in the shared tree at once.  The lock is held from
\* dispatch to release: through the wait for inputs, every retry's backoff and
\* the recording of a failure (DagRunner.ts:68-74, 110-124).
WritersSerialized ==
    \A m, n \in plan.writers : InFlight(m) /\ InFlight(n) => m = n

\* The ledger and the writer set never disagree about who holds the lock
\* (DagRunner.ts:75-76), and every writer that let go has exactly one ended hold:
\* what the dispatcher reads from the ledger is the serialization that happened.
LedgerAgrees ==
    /\ open = runningWriters
    /\ open = {n \in plan.writers : InFlight(n)}
    /\ {closed[i] : i \in DOMAIN closed} = {n \in plan.writers : stage[n] = "released"}
    /\ \A i, j \in DOMAIN closed : closed[i] = closed[j] => i = j

\* The waiting set holds exactly the promises in flight, so the loop never
\* awaits a race nobody can win and never exceeds maxConcurrent.
WaitingSetExact ==
    /\ running = {n \in Node : InFlight(n)}
    /\ Cardinality(running) <= MaxConcurrent
    /\ loop = "wait" => running # {}

\* When run() returns, no node is left that could still have run: each node that
\* is not terminal has a dependency that failed or was itself never reached
\* (RunOutcome.unscheduled), nothing is mid-turn, and no writer passed over by
\* the lock was forgotten.
NothingAbandoned ==
    loop = "returned" =>
        /\ \A n \in Unscheduled :
            /\ status[n] = "Unclaimed"
            /\ \E d \in plan.deps[n] : status[d] = "Failed" \/ d \in Unscheduled
        /\ deferredWriters \cap Unscheduled = {}

\* A verdict is final and the dependencies a node was started on stay succeeded,
\* so what a node was given to build on is never withdrawn while it works.
VerdictsStand ==
    [][\A n \in Node :
        /\ Terminal(n) => status'[n] = status[n]
        /\ status'[n] # "Unclaimed" => \A d \in plan.deps[n] : status'[d] = "Succeeded"]_vars

\* Every run whose executors answer ends, whatever the plan: a cycle, a writer
\* waiting with the lock in hand for a key only a blocked writer would produce,
\* a recorder that never answers (DagRunner.ts:63-65, 202-203; validateDag.ts:32-33).
RunReturns == <>(loop = "returned")

\* The runner implements the scheduler's contract.
Contract == INSTANCE PlanContract WITH
    deps <- plan.deps,
    writers <- plan.writers,
    phase <- status,
    over <- (loop = "returned")

\* Every step of the runner is a step of the contract or changes nothing the
\* contract speaks of.
ImplementsContract == Contract!Spec
================================================================================

---------------------------- MODULE NodeAttempt ----------------------------
(***************************************************************************)
(* What becomes of one plan node, from its first attempt to its verdict:   *)
(* RoleDispatcher.runNode under dag-runner's withRetry.  In-process, the   *)
(* node is an InProcessAgentLoop with a processor pipeline around every    *)
(* turn and every call; on the cli tier it is one invocation of a backend. *)
(* Either way what it did to the tree is read once per attempt, for a      *)
(* writer by the security review and the human review, for a reader by the *)
(* change guard, and four routes lead there.                               *)
(*                                                                         *)
(* One node runs alone here; what siblings do to its tree is TreeGuard's.  *)
(* The tree is the content the node has left, Start being that of its      *)
(* start commit, so that a diff is empty exactly when the tree is Start.   *)
(***************************************************************************)
EXTENDS Integers

CONSTANTS
  Nodes,         \* the nodes, with the role, harness and gates each runs under
  Contents,      \* what the tree can be
  Start,         \* what it is at the node's start commit
  MaxAttempts,   \* retry.maxAttempts
  MaxTurns,      \* role.maxToolIterations
  MaxRepairs,    \* maxToolCallRepairs
  MaxCalls       \* bound: calls in one answer of the model

NodeType ==
  [writer : BOOLEAN, tier : {"in-process", "cli"}, ungoverned : BOOLEAN,
   expectsChange : BOOLEAN, expectsCalls : BOOLEAN, allowPartial : BOOLEAN,
   gateInBundle : BOOLEAN, security : BOOLEAN, harnessRequires : BOOLEAN,
   review : {"none", "advisory", "required"}]

ASSUME NodesAssumption ==
  \A n \in Nodes : n \in NodeType /\ (n.expectsChange => n.writer)
ASSUME StartAssumption == Start \in Contents
ASSUME BoundsAssumption ==
  /\ MaxAttempts \in Nat \ {0} /\ MaxTurns \in Nat \ {0}
  /\ MaxRepairs \in Nat /\ MaxCalls \in Nat \ {0}

VARIABLES
  node,        \* the node, with its role
  attempt,     \* withRetry's attempt
  at,          \* the await at which its code stands
  back,        \* where AttemptReview.run or the guard was called
  err,         \* what was thrown and is on its way
  loop,        \* InProcessAgentLoop.run: turn, repairs, calls to make, outcome
  shortfall,   \* runNode's shortfall
  answered,    \* runNode's answer is set
  tree,        \* the working tree
  opened,      \* what it was as this attempt began
  review,      \* the AttemptReview: whether it has begun, what it has seen
  calls,       \* executed calls on record for the task, and at the attempt's start
  result,      \* what the scheduler is told
  tally,       \* history, of this attempt: how often each thing happened
  verdict,     \* history, of this attempt: what the review's judges said
  refusedAt    \* history: the attempt in which a judge refused, 0 if none did

vars == <<node, attempt, at, back, err, loop, shortfall, answered, tree, opened,
          review, calls, result, tally, verdict, refusedAt>>

None == "none"
Errors == {"transport", "refused", "judged", "other"}
InLoop == {"task_start", "step_start", "before_model", "model", "tools", "step_end"}
Reads == {"diff", "security", "human", "asking", "guard"}
Callers == {"task_end", "fallback", "after_loop", "caught", "answered"}
Stages == InLoop \cup Reads \cup Callers
            \cup {"begin", "build", "invoke", "loop_done", "judge", "ending", "backoff", "ended"}

\* Mutant of Catcher: taskEndEmitted is not looked at.
CatcherEndsAgain(s) ==
  IF s \in InLoop \cup {"task_end"} THEN "fallback"
  ELSE IF s \in {"build", "fallback", "after_loop", "loop_done", "invoke"}
  THEN "caught" ELSE "ending"

\* Who catches what is thrown at a stage.  The fallback is runInProcess's catch, before
\* which the end of the task has not been observed; "caught" is runNode's; "ending" is
\* withRetry's.  A read throws where it was called.
Catcher(s) ==
  IF s \in InLoop THEN "fallback"
  ELSE IF s \in {"build", "task_end", "fallback", "after_loop", "loop_done", "invoke"}
  THEN "caught" ELSE "ending"

\* Where a caller goes on once what it called has returned.
Onward ==
  [task_end |-> "after_loop", fallback |-> "caught", after_loop |-> "loop_done",
   caught |-> "ending", answered |-> "judge"]

NewReview == [begun |-> FALSE, seen |-> None]
Fresh == [tried |-> FALSE, looped |-> FALSE, reviews |-> 0, guards |-> 0, worked |-> FALSE]
NoVerdict == [cleared |-> FALSE, approved |-> FALSE, attributed |-> FALSE, recorded |-> FALSE]
NewLoop == [turn |-> 0, repairs |-> 0, calls |-> 0, outcome |-> "completed", final |-> FALSE,
            ends |-> 0]

Init ==
  /\ node \in Nodes /\ attempt = 1 /\ at = "begin" /\ back = None /\ err = None
  /\ loop = NewLoop /\ shortfall = None /\ answered = FALSE
  /\ tree = Start /\ opened = Start /\ review = NewReview
  /\ calls = [now |-> 0, before |-> 0] /\ result = "pending"
  /\ tally = Fresh /\ verdict = NoVerdict /\ refusedAt = 0

---------------------------------------------------------------------------
(* Moves between stages.                                                   *)

attemptVars == <<node, attempt, opened, result>>
judgement == <<shortfall, answered, refusedAt>>
work == <<tree, calls>>

Go(s) == at' = s /\ UNCHANGED err
Throw(e) == err' = e /\ at' = Catcher(at)

\* What the review or the guard throws surfaces where it was called.
ReadThrows(e) ==
  /\ err' = e /\ at' = Catcher(back)
  /\ refusedAt' = IF e = "refused" /\ refusedAt = 0 THEN attempt ELSE refusedAt
ReadReturns == Go(Onward[back]) /\ UNCHANGED refusedAt

\* AttemptReview.run, called from stage s: nothing the second time.
RunReview(s) ==
  /\ back' = s /\ UNCHANGED err
  /\ IF review.begun
     THEN at' = Onward[s] /\ UNCHANGED <<review, tally>>
     ELSE /\ at' = "diff" /\ review' = [review EXCEPT !.begun = TRUE]
          /\ tally' = [tally EXCEPT !.reviews = @ + 1]

---------------------------------------------------------------------------
(* runNode up to its try block.                                            *)

\* A new attempt keeps the start commit and the record of calls and nothing else.  A
\* writer on the cli tier is refused unless that was allowed; git, the transcript, the
\* prompt and the injected context may fail.
Begin ==
  /\ at = "begin"
  /\ opened' = tree /\ calls' = [calls EXCEPT !.before = calls.now]
  /\ loop' = NewLoop /\ shortfall' = None /\ answered' = FALSE
  /\ review' = NewReview /\ back' = None /\ verdict' = NoVerdict
  /\ \/ Throw("other") /\ tally' = Fresh
     \/ /\ node.tier = "cli" => ~node.writer \/ node.ungoverned
        /\ at' = IF node.tier = "cli" THEN "invoke" ELSE "build"
        /\ err' = None /\ tally' = [Fresh EXCEPT !.tried = TRUE]
  /\ UNCHANGED <<node, attempt, tree, result, refusedAt>>

---------------------------------------------------------------------------
(* The cli tier: one invocation.  The backend edits the tree by itself.    *)

Invoke ==
  /\ at = "invoke"
  /\ tree' \in Contents
  /\ \/ \E e \in {"transport", "other"} :
          Throw(e) /\ UNCHANGED <<shortfall, answered>>
     \/ /\ shortfall' \in {None, "transport", "judged"} /\ answered' = TRUE
        /\ Go("answered")
  /\ UNCHANGED <<attemptVars, back, loop, review, calls, tally, verdict, refusedAt>>

---------------------------------------------------------------------------
(* InProcessAgentLoop.run.  A hook ends in one event, in none (a processor *)
(* intercepted it), in an interrupt, or in an error, a second event        *)
(* included.                                                               *)

Stop(outcome) == Go("task_end") /\ loop' = [loop EXCEPT !.outcome = outcome]

\* Inside the turn's try block an interrupt ends the loop and an error leaves it.
HookFails ==
  \/ Stop("failed")
  \/ Throw("other") /\ UNCHANGED loop

Quiet == UNCHANGED <<attemptVars, back, judgement, review, verdict>>

\* Before the turns there is no try block: an interrupt leaves the loop too.
Build ==
  /\ at = "build"
  /\ \/ Go("task_start") /\ tally' = [tally EXCEPT !.looped = TRUE]
     \/ Throw("other") /\ UNCHANGED tally
  /\ UNCHANGED <<loop, work>> /\ Quiet

TaskStart ==
  /\ at = "task_start"
  /\ Go("step_start") \/ Throw("other")
  /\ UNCHANGED <<loop, tally, work>> /\ Quiet

StepStart ==
  /\ at = "step_start"
  /\ \/ loop.turn >= MaxTurns /\ Stop("budget")
     \/ /\ loop.turn < MaxTurns
        /\ \/ Go("before_model") /\ loop' = [loop EXCEPT !.repairs = 0]
           \/ Stop("budget")
           \/ HookFails
  /\ UNCHANGED <<tally, work>> /\ Quiet

BeforeModel ==
  /\ at = "before_model"
  /\ \/ Go("model") /\ UNCHANGED loop
     \/ HookFails
  /\ UNCHANGED <<tally, work>> /\ Quiet

\* A malformed call is asked for again, with the same history and the error, until the
\* repairs are spent.
Repair ==
  IF loop.repairs < MaxRepairs
  THEN Go("model") /\ loop' = [loop EXCEPT !.repairs = @ + 1]
  ELSE Go("step_end") /\ loop' = [loop EXCEPT !.outcome = "failed"]

\* sendTurn, the record of the surface, and after_model, which intercepted fails the loop.
Model ==
  /\ at = "model"
  /\ \/ Throw("transport") /\ UNCHANGED loop
     \/ HookFails
     \/ Repair
     \/ Go("step_end") /\ loop' = [loop EXCEPT !.final = TRUE]
     \/ \E n \in 1..MaxCalls : Go("tools") /\ loop' = [loop EXCEPT !.calls = n]
  /\ UNCHANGED <<tally, work>> /\ Quiet

\* A call is answered, whatever it came to; the last answer ends the step.
Answered ==
  /\ loop' = [loop EXCEPT !.calls = @ - 1]
  /\ Go(IF loop.calls = 1 THEN "step_end" ELSE "tools")

\* The call was intercepted, names no tool of the role, or was refused: nothing ran.
CallSkipped ==
  /\ at = "tools"
  /\ Answered \/ HookFails
  /\ UNCHANGED <<tally, work>> /\ Quiet

\* The call ran, and is on record; after_tool, or the graph's record of it, may fail.
CallRuns ==
  /\ at = "tools"
  /\ tree' \in Contents
  /\ calls' = [calls EXCEPT !.now = @ + 1]
  /\ tally' = [tally EXCEPT !.worked = TRUE]
  /\ Answered \/ HookFails
  /\ Quiet

\* step_end is read-only.  It comes last in every turn, the one that answers and the one
\* whose repairs are spent included.
StepEnd ==
  /\ at = "step_end"
  /\ \/ HookFails
     \/ /\ loop.final \/ loop.outcome = "failed"
        /\ Go("task_end") /\ UNCHANGED loop
     \/ /\ ~loop.final /\ loop.outcome # "failed"
        /\ \/ Stop("budget")
           \/ Go("step_start") /\ loop' = [loop EXCEPT !.turn = @ + 1]
  /\ UNCHANGED <<tally, work>> /\ Quiet

---------------------------------------------------------------------------
(* The end of the task, observed by the processors: the transcript, then   *)
(* the security gate if the bundle has it.                                 *)

\* At "task_end" the loop emits it; at "fallback" runInProcess does, for a loop that
\* threw.  What a processor throws there replaces what the loop threw.
TaskEnd ==
  /\ at \in {"task_end", "fallback"}
  /\ loop' = [loop EXCEPT !.ends = @ + 1]
  /\ \/ Throw("other") /\ UNCHANGED <<back, review, tally>>
     \/ node.writer /\ node.gateInBundle /\ RunReview(at)
     \/ /\ ~(node.writer /\ node.gateInBundle)
        /\ Go(Onward[at]) /\ UNCHANGED <<back, review, tally>>
  /\ UNCHANGED <<attemptVars, judgement, work, verdict>>

AfterLoop ==
  /\ at = "after_loop"
  /\ IF node.writer THEN RunReview("after_loop")
     ELSE Go("loop_done") /\ UNCHANGED <<back, review, tally>>
  /\ UNCHANGED <<attemptVars, loop, judgement, work, verdict>>

\* A loop that ran out of its budget is judged later, by the node's allowPartial.
LoopDone ==
  /\ at = "loop_done"
  /\ IF loop.outcome = "failed"
     THEN Throw("judged") /\ UNCHANGED <<shortfall, answered>>
     ELSE /\ Go("answered")
          /\ answered' = (loop.outcome = "completed")
          /\ shortfall' = IF loop.outcome = "budget" THEN "budget" ELSE None
  /\ UNCHANGED <<attemptVars, back, loop, work, review, tally, verdict, refusedAt>>

---------------------------------------------------------------------------
(* runNode after the loop or the backend.                                  *)

\* Calls the review of a writer, or the guard of a reader.
Read(s) ==
  IF node.writer THEN RunReview(s)
  ELSE /\ at' = "guard" /\ back' = s /\ UNCHANGED <<err, review>>
       /\ tally' = [tally EXCEPT !.guards = @ + 1]

\* The catch: the error already carries a verdict, or what was left behind is read first.
Caught ==
  /\ at = "caught"
  /\ IF err \in {"refused", "judged"} THEN Go("ending") /\ UNCHANGED <<back, review, tally>>
     ELSE Read("caught")
  /\ UNCHANGED <<attemptVars, loop, judgement, work, verdict>>

\* The output goes to the transcript, the board to the LCM; then the change is read.
Bookkeeping ==
  /\ at = "answered"
  /\ \/ Throw("other") /\ UNCHANGED <<back, review, tally>>
     \/ Read("answered")
  /\ UNCHANGED <<attemptVars, loop, judgement, work, verdict>>

\* The reader's change guard: a change is recorded, and is its own or a sibling writer's.
Guard ==
  /\ at = "guard"
  /\ \/ ReadThrows("other") /\ UNCHANGED verdict
     \/ tree = opened /\ ReadReturns /\ UNCHANGED verdict
     \/ /\ tree # opened /\ ReadThrows("judged")
        /\ verdict' = [verdict EXCEPT !.recorded = TRUE]
     \/ /\ tree # opened /\ node.tier = "in-process" /\ ReadReturns
        /\ verdict' = [verdict EXCEPT !.recorded = TRUE, !.attributed = TRUE]
  /\ UNCHANGED <<attemptVars, back, loop, shortfall, answered, work, review, tally>>

---------------------------------------------------------------------------
(* runPostCoderGates: the diff, the security review, the human review.     *)

ReadDiff ==
  /\ at = "diff"
  /\ \/ ReadThrows("other") /\ UNCHANGED <<review, verdict>>
     \/ /\ review' = [review EXCEPT !.seen = tree]
        /\ verdict' = [verdict EXCEPT !.recorded = (tree # Start)]
        /\ \/ ReadThrows("other")
           \/ tree = Start /\ ReadReturns
           \/ tree # Start /\ Go("security") /\ UNCHANGED refusedAt
  /\ UNCHANGED <<attemptVars, back, loop, shortfall, answered, work, tally>>

\* A refusal is recorded in the graph before it is thrown, and the graph may fail; it is a
\* refusal all the same, which refusedAt remembers.
SecurityReview ==
  /\ at = "security"
  /\ \/ ~node.security /\ Go("human") /\ UNCHANGED <<verdict, refusedAt>>
     \/ /\ node.security
        /\ \/ Go("human") /\ UNCHANGED refusedAt
              /\ verdict' = [verdict EXCEPT !.cleared = TRUE]
           \/ ReadThrows("refused") /\ UNCHANGED verdict
           \/ /\ err' = "other" /\ at' = Catcher(back) /\ UNCHANGED verdict
              /\ refusedAt' = IF refusedAt = 0 THEN attempt ELSE refusedAt
           \/ \E e \in {"transport", "other"} : ReadThrows(e) /\ UNCHANGED verdict
  /\ UNCHANGED <<attemptVars, back, loop, shortfall, answered, work, review, tally>>

\* A harness that requires review does not run with an advisory gate or with none.
AskHuman ==
  /\ at = "human"
  /\ \/ /\ node.harnessRequires /\ node.review # "required"
        /\ ReadThrows("refused")
     \/ /\ ~node.harnessRequires /\ node.review = "none"
        /\ ReadReturns
     \/ /\ node.review # "none" /\ (node.harnessRequires => node.review = "required")
        /\ Go("asking") /\ UNCHANGED refusedAt
  /\ UNCHANGED <<attemptVars, back, loop, shortfall, answered, work, review, tally, verdict>>

\* Mutant of Refuses: nobody answered, so nobody objected.
RefusesOnDenial(decision) == node.review = "required" /\ decision = "Rejected"
Refuses(decision) == node.review = "required" /\ decision # "Approved"

\* ReviewGate.decide's race is won.  The decision is on record before the refusal is thrown.
Decided(decision) ==
  /\ at = "asking"
  /\ verdict' = [verdict EXCEPT !.approved = (decision = "Approved")]
  /\ IF Refuses(decision) THEN ReadThrows("refused") ELSE ReadReturns
  /\ UNCHANGED <<attemptVars, back, loop, shortfall, answered, work, review, tally>>

\* An answer that is no decision, and a reviewer that fails, count as a denial.
ReviewerAnswers == \E decision \in {"Approved", "Rejected"} : Decided(decision)

\* Mutant of ReviewTimeout: a required review waits for its reviewer.
RequiredWaits == node.review # "required" /\ Decided("TimedOut")
ReviewTimeout == Decided("TimedOut")

---------------------------------------------------------------------------
(* The verdict of the attempt, and withRetry.                              *)

NoChange == shortfall = None /\ answered /\ node.expectsChange /\ review.seen = Start

\* Mutant of NoWork: the calls of earlier attempts count.
NoWorkEver ==
  /\ shortfall = None /\ answered /\ node.tier = "in-process"
  /\ ~node.expectsChange /\ node.expectsCalls /\ calls.now = 0
NoWork ==
  /\ shortfall = None /\ answered /\ node.tier = "in-process"
  /\ ~node.expectsChange /\ node.expectsCalls /\ calls.now - calls.before = 0

Succeed(r) ==
  /\ result' = r /\ at' = "ended" /\ UNCHANGED err

Judge ==
  /\ at = "judge"
  /\ \/ (NoChange \/ NoWork \/ shortfall = "judged") /\ Throw("judged") /\ UNCHANGED result
     \/ shortfall = "transport" /\ Throw("transport") /\ UNCHANGED result
     \/ /\ shortfall = "budget" /\ ~node.allowPartial
        /\ Throw("judged") /\ UNCHANGED result
     \/ /\ shortfall = "budget" /\ node.allowPartial
        /\ \/ Throw("other") /\ UNCHANGED result
           \/ Succeed("partial")
     \/ /\ shortfall = None /\ ~NoChange /\ ~NoWork
        /\ Succeed("succeeded")
  /\ UNCHANGED <<node, attempt, opened, back, loop, judgement, work, review, tally,
                 verdict>>

\* Mutant of Retried: a refusal, and a failure nobody classified, are tried again.
RetriedUnlessJudged(e) == e # "judged"
Retried(e) == e = "transport"

\* withRetry: only a transport failure is tried again.
Ending ==
  /\ at = "ending"
  /\ IF Retried(err) /\ attempt < MaxAttempts
     THEN at' = "backoff" /\ UNCHANGED result
     ELSE at' = "ended" /\ result' = "failed"
  /\ UNCHANGED <<node, attempt, opened, back, err, loop, judgement, work, review, tally,
                 verdict>>

Retry ==
  /\ at = "backoff"
  /\ attempt' = attempt + 1 /\ at' = "begin"
  /\ UNCHANGED <<node, opened, result, back, err, loop, judgement, work, review, tally,
                 verdict>>

Loop == \/ Build \/ TaskStart \/ StepStart \/ BeforeModel \/ Model
        \/ CallSkipped \/ CallRuns \/ StepEnd \/ TaskEnd \/ AfterLoop \/ LoopDone
Review == ReadDiff \/ SecurityReview \/ AskHuman \/ ReviewTimeout
Program == \/ Begin \/ Invoke \/ Loop \/ Caught \/ Bookkeeping \/ Guard \/ Review
           \/ Judge \/ Ending \/ Retry
Next == Program \/ ReviewerAnswers

Spec == Init /\ [][Next]_vars
FairSpec == Spec /\ WF_vars(Program)

---------------------------------------------------------------------------
(* Properties.                                                             *)

TypeOK ==
  /\ node \in Nodes /\ attempt \in 1..MaxAttempts /\ at \in Stages
  /\ back \in Callers \cup {None} /\ err \in Errors \cup {None}
  /\ loop \in [turn : 0..MaxTurns, repairs : 0..MaxRepairs, calls : 0..MaxCalls,
               outcome : {"completed", "budget", "failed"}, final : BOOLEAN, ends : Nat]
  /\ shortfall \in {None, "transport", "judged", "budget"} /\ answered \in BOOLEAN
  /\ {tree, opened} \subseteq Contents
  /\ review \in [begun : BOOLEAN, seen : Contents \cup {None}]
  /\ calls \in [now : Nat, before : Nat] /\ calls.before <= calls.now
  /\ result \in {"pending", "succeeded", "partial", "failed"}
  /\ tally \in [tried : BOOLEAN, looped : BOOLEAN, reviews : Nat, guards : Nat, worked : BOOLEAN]
  /\ verdict \in [cleared : BOOLEAN, approved : BOOLEAN, attributed : BOOLEAN,
                  recorded : BOOLEAN]
  /\ refusedAt \in 0..MaxAttempts

Over == at \in {"ending", "backoff", "ended"}
Success == result \in {"succeeded", "partial"}

\* Four routes lead to the end of an attempt, and on each the processors observe the end
\* of the task once, if the loop was started, and what the node left is read once: by the
\* review of a writer (RoleDispatcher.ts:384-403), by the guard of a reader.  It is not
\* read when the transcript or the LCM fails between a cli backend's answer and the
\* review (796-797), nor, for a reader, when its loop reports failure (786-790).
ReadOncePerAttempt ==
  Over =>
    /\ loop.ends = IF tally.looped THEN 1 ELSE 0
    /\ tally.reviews + tally.guards <= 1
    /\ tally.tried /\ node.writer /\ tally.reviews = 0 =>
         node.tier = "cli" /\ err = "other"
    /\ tally.tried /\ ~node.writer /\ tally.guards = 0 =>
         err = "other" \/ (err = "judged" /\ loop.outcome = "failed")

\* A node that succeeds, in part or whole, leaves nothing unjudged, whatever its earlier
\* attempts left: the review of this attempt read the tree as it is, and a change in it
\* is a subject of the statement, cleared by the security gate if there is one, and
\* approved by a person where the gate or the harness demands it; a reader's turn left the
\* tree as it found it, or a writer answers for the difference.
SuccessWasJudged ==
  Success =>
    IF node.writer
    THEN /\ review.seen = tree
         /\ tree # Start =>
              /\ verdict.recorded
              /\ node.security => verdict.cleared
              /\ node.harnessRequires \/ node.review = "required" => verdict.approved
    ELSE tree = opened \/ verdict.attributed

\* What a node is called succeeded for has been done: a change of the tree where the role
\* owes one (D-32), and an executed call in the attempt that succeeded where it owes calls
\* (D-46), though the record of calls spans the attempts.
WorkBehindSuccess ==
  result = "succeeded" =>
    /\ node.expectsChange => tree # Start
    /\ node.tier = "in-process" /\ ~node.expectsChange /\ node.expectsCalls =>
         tally.worked

\* Succeeded says both: the work was done, and what it left was judged.
SuccessHolds == SuccessWasJudged /\ WorkBehindSuccess

\* "A refusal that a retry can overturn was never a refusal" (types/src/index.ts:369-370):
\* whichever judge refused, and by whichever route its refusal came out, the attempt is the
\* last and the node fails.
RefusalStands == refusedAt # 0 => attempt = refusedAt /\ ~Success

\* A node ends, although its reviewer never answers and its model never gets a call right, as long
\* as its backend ends or times out (a child that ignores its SIGTERM does not, ProcessSpawner.ts:93).
NodeEnds == <>(at = "ended")
=============================================================================

-------------------------- MODULE NodeAttempt_proofs --------------------------
(***************************************************************************)
(* The safety properties of NodeAttempt, for any nodes, any content of     *)
(* their trees, and any number of attempts, turns, repairs and calls.      *)
(***************************************************************************)
EXTENDS NodeAttempt, TLAPS

--------------------------------------------------------------------------------
(***************************************************************************)
(* The inductive invariant                                                 *)
(***************************************************************************)

\* The counters stand within their bounds where they are about to move.
Bounded ==
    /\ at \in {"before_model", "model", "tools", "step_end"} => loop.turn < MaxTurns
    /\ at = "tools" => loop.calls >= 1
    /\ at = "backoff" => attempt < MaxAttempts

\* A read was called from somewhere: the review of a writer, the guard of a reader.
Control ==
    /\ at \in Reads => back \in Callers
    /\ at \in Reads \ {"guard"} => node.writer /\ review.begun
    /\ at = "guard" => ~node.writer /\ back \in {"caught", "answered"}
    /\ at = "invoke" => node.tier = "cli"
    /\ at = "fallback" => err \in {"transport", "other"}
    /\ at # "ended" => result = "pending"

\* Before the loop has started, while its end is still to be observed, before any review.
Unended == InLoop \cup {"task_end", "fallback"}
Unread == Unended \cup {"build", "invoke"}

\* The end of the task is observed once, after the loop.
EndsOnce ==
    /\ at \in {"build", "invoke"} => ~tally.looped
    /\ at \in Unended => tally.looped
    /\ loop.ends = IF tally.looped /\ at \notin Unended THEN 1 ELSE 0

\* The review of a writer runs once, as soon as it has begun; the guard of a reader once, last.
ReadsOnce ==
    /\ tally.reviews = IF review.begun THEN 1 ELSE 0
    /\ review.begun => node.writer
    /\ tally.guards \in {0, 1}
    /\ tally.guards = 1 => ~node.writer /\ (at \in {"guard", "judge", "begin"} \/ Over)
    /\ at \in Unread => ~review.begun

\* Where a writer has been reviewed, and the one way by which it is not.
WriterRead ==
    node.writer =>
      /\ at \in {"loop_done", "judge"} => review.begun
      /\ at = "answered" /\ node.tier # "cli" => review.begun
      /\ at = "caught" /\ err \in {"refused", "judged"} => review.begun
      /\ Over /\ tally.tried => review.begun \/ (node.tier = "cli" /\ err = "other")

\* Where a reader has been through its guard, and the two ways by which it has not.
ReaderRead ==
    ~node.writer =>
      /\ at \in {"guard", "judge"} => tally.guards = 1
      /\ at = "caught" /\ err \in {"refused", "judged"} =>
           err = "judged" /\ loop.outcome = "failed"
      /\ Over /\ tally.tried =>
           \/ tally.guards = 1
           \/ err = "other"
           \/ err = "judged" /\ loop.outcome = "failed"

\* What a finished review says of the tree as it still is.
Reviewed ==
    /\ review.seen = tree
    /\ tree # Start =>
         /\ verdict.recorded
         /\ node.security => verdict.cleared
         /\ node.harnessRequires \/ node.review = "required" => verdict.approved

\* How far the review has come at each of its awaits, and what it leaves when it returns.
Judged ==
    /\ at \in {"security", "human", "asking"} =>
         review.seen = tree /\ tree # Start /\ verdict.recorded
    /\ at \in {"human", "asking"} => (node.security => verdict.cleared)
    /\ at = "asking" => (node.harnessRequires => node.review = "required")
    /\ at \in {"after_loop", "loop_done", "answered", "judge"} /\ review.begun => Reviewed
    /\ at = "judge" /\ ~node.writer => tree = opened \/ verdict.attributed

\* An attempt that does not fall short has answered, and its calls are its own.
Worked ==
    /\ at \in {"answered", "judge"} \/ (at \in Reads /\ back = "answered") =>
         (shortfall = None => answered)
    /\ calls.now # calls.before => tally.worked

\* After a refusal nothing is left but to fail.
Refused ==
    refusedAt # 0 =>
      /\ attempt = refusedAt /\ node.writer /\ review.begun
      /\ at \in {"caught", "ending", "ended"} /\ err \in {"refused", "other"}
      /\ ~Success

IInv == /\ TypeOK /\ Bounded /\ Control /\ EndsOnce /\ ReadsOnce /\ WriterRead /\ ReaderRead
        /\ Judged /\ SuccessHolds /\ Worked /\ Refused

\* TypeOK, by kind of variable.
StagesOK ==
    /\ at \in Stages /\ back \in Callers \cup {None} /\ err \in Errors \cup {None}
    /\ result \in {"pending", "succeeded", "partial", "failed"}
    /\ shortfall \in {None, "transport", "judged", "budget"} /\ answered \in BOOLEAN
AttemptOK == node \in Nodes /\ attempt \in 1 .. MaxAttempts /\ refusedAt \in 0 .. MaxAttempts
LoopOK ==
    loop \in [turn : 0 .. MaxTurns, repairs : 0 .. MaxRepairs, calls : 0 .. MaxCalls,
              outcome : {"completed", "budget", "failed"}, final : BOOLEAN, ends : Nat]
WorkOK ==
    /\ tree \in Contents /\ opened \in Contents
    /\ calls \in [now : Nat, before : Nat] /\ calls.before <= calls.now
ReviewOK ==
    /\ review \in [begun : BOOLEAN, seen : Contents \cup {None}]
    /\ verdict \in [cleared : BOOLEAN, approved : BOOLEAN, attributed : BOOLEAN,
                    recorded : BOOLEAN]
TallyOK ==
    tally \in [tried : BOOLEAN, looped : BOOLEAN, reviews : Nat, guards : Nat, worked : BOOLEAN]

Typed == StagesOK /\ AttemptOK /\ LoopOK /\ WorkOK /\ ReviewOK /\ TallyOK

\* A node about to begin its first attempt satisfies the invariant.
LEMMA Initially == Init => IInv
<1> SUFFICES ASSUME Init PROVE IInv
    OBVIOUS
<1> USE NodesAssumption, StartAssumption, BoundsAssumption DEF Init
<1>1. TypeOK
    <2>1. NewLoop \in [turn : 0 .. MaxTurns, repairs : 0 .. MaxRepairs, calls : 0 .. MaxCalls,
                      outcome : {"completed", "budget", "failed"}, final : BOOLEAN, ends : Nat]
        BY DEF NewLoop
    <2>2. Fresh \in [tried : BOOLEAN, looped : BOOLEAN, reviews : Nat, guards : Nat,
                     worked : BOOLEAN]
        BY DEF Fresh
    <2>3. /\ node \in Nodes /\ attempt \in 1 .. MaxAttempts /\ refusedAt \in 0 .. MaxAttempts
          /\ at \in Stages /\ {tree, opened} \subseteq Contents
        BY DEF Stages
    <2>4. /\ review \in [begun : BOOLEAN, seen : Contents \cup {None}]
          /\ verdict \in [cleared : BOOLEAN, approved : BOOLEAN, attributed : BOOLEAN,
                          recorded : BOOLEAN]
          /\ calls \in [now : Nat, before : Nat] /\ calls.before <= calls.now
        BY DEF NewReview, NoVerdict
    <2> QED BY <2>1, <2>2, <2>3, <2>4 DEF TypeOK
<1>2. Bounded /\ Control /\ EndsOnce
    BY DEF Bounded, Control, EndsOnce, NewLoop, Fresh, Unended, InLoop, Reads
<1>3. ReadsOnce /\ WriterRead /\ ReaderRead
    BY DEF ReadsOnce, WriterRead, ReaderRead, NewReview, Fresh, Over
<1>4. Judged /\ SuccessHolds /\ Worked /\ Refused
    BY DEF Judged, SuccessHolds, SuccessWasJudged, WorkBehindSuccess, Success, Worked, Refused,
           NewReview, Reads
<1> QED BY <1>1, <1>2, <1>3, <1>4 DEF IInv

\* A step keeps the types: the stage, and what else the action moves, then what it leaves.
LEMMA TypeStep == TypeOK /\ Bounded /\ Control /\ Next => TypeOK'
<1> SUFFICES ASSUME TypeOK, Bounded, Control, Next PROVE Typed'
    BY DEF TypeOK, Typed, StagesOK, AttemptOK, LoopOK, WorkOK, ReviewOK, TallyOK
<1>0. StagesOK /\ AttemptOK /\ LoopOK /\ WorkOK /\ ReviewOK /\ TallyOK
    BY DEF TypeOK, StagesOK, AttemptOK, LoopOK, WorkOK, ReviewOK, TallyOK
<1> USE <1>0, StartAssumption, BoundsAssumption
<1> USE DEF Go, Throw, Catcher, Stop, HookFails, ReadThrows, ReadReturns, Onward, RunReview,
           Read, Quiet, attemptVars, judgement, work
<1> USE DEF Stages, InLoop, Reads, Callers, Errors, None
<1>1. CASE Begin
    <2>1. StagesOK'  BY <1>1 DEF Begin, Fresh, NewLoop, NewReview, NoVerdict, StagesOK
    <2>2. LoopOK'  BY <1>1 DEF Begin, Fresh, NewLoop, NewReview, NoVerdict, LoopOK, Bounded
    <2>3. WorkOK'  BY <1>1 DEF Begin, Fresh, NewLoop, NewReview, NoVerdict, WorkOK
    <2>4. ReviewOK'
        BY <1>1 DEF Begin, Fresh, NewLoop, NewReview, NoVerdict, ReviewOK, WorkOK
    <2>5. TallyOK'
        <3>1. Fresh \in [tried : BOOLEAN, looped : BOOLEAN, reviews : Nat, guards : Nat,
                           worked : BOOLEAN]
            BY DEF Fresh
        <3> QED BY <1>1, <3>1 DEF Begin, TallyOK
    <2>6. AttemptOK'  BY <1>1 DEF Begin, AttemptOK
    <2> QED BY <2>1, <2>2, <2>3, <2>4, <2>5, <2>6 DEF Typed
<1>2. CASE Invoke
    <2>1. StagesOK'  BY ZenonT(40), <1>2 DEF Invoke, StagesOK
    <2>2. WorkOK'  BY <1>2 DEF Invoke, WorkOK
    <2>3. (AttemptOK /\ LoopOK /\ ReviewOK /\ TallyOK)'
        BY <1>2 DEF Invoke, AttemptOK, LoopOK, ReviewOK, TallyOK
    <2> QED BY <2>1, <2>2, <2>3 DEF Typed
<1>3. CASE Build
    <2>1. StagesOK'  BY <1>3 DEF Build, StagesOK
    <2>2. TallyOK'  BY <1>3 DEF Build, TallyOK
    <2>3. (AttemptOK /\ LoopOK /\ WorkOK /\ ReviewOK)'
        BY <1>3 DEF Build, AttemptOK, LoopOK, WorkOK, ReviewOK
    <2> QED BY <2>1, <2>2, <2>3 DEF Typed
<1>4. CASE TaskStart
    <2>1. StagesOK'  BY <1>4 DEF TaskStart, StagesOK
    <2>2. (AttemptOK /\ LoopOK /\ WorkOK /\ ReviewOK /\ TallyOK)'
        BY <1>4 DEF TaskStart, AttemptOK, LoopOK, WorkOK, ReviewOK, TallyOK
    <2> QED BY <2>1, <2>2 DEF Typed
<1>5. CASE StepStart
    <2>1. StagesOK'  BY <1>5 DEF StepStart, StagesOK
    <2>2. LoopOK'  BY <1>5 DEF StepStart, LoopOK, Bounded
    <2>3. (AttemptOK /\ WorkOK /\ ReviewOK /\ TallyOK)'
        BY <1>5 DEF StepStart, AttemptOK, WorkOK, ReviewOK, TallyOK
    <2> QED BY <2>1, <2>2, <2>3 DEF Typed
<1>6. CASE BeforeModel
    <2>1. StagesOK'  BY <1>6 DEF BeforeModel, StagesOK
    <2>2. LoopOK'  BY <1>6 DEF BeforeModel, LoopOK, Bounded
    <2>3. (AttemptOK /\ WorkOK /\ ReviewOK /\ TallyOK)'
        BY <1>6 DEF BeforeModel, AttemptOK, WorkOK, ReviewOK, TallyOK
    <2> QED BY <2>1, <2>2, <2>3 DEF Typed
<1>7. CASE Model
    <2>1. StagesOK'  BY <1>7 DEF Model, Repair, StagesOK
    <2>2. LoopOK'
        <3>1. ASSUME NEW n \in 1 .. MaxCalls, loop' = [loop EXCEPT !.calls = n] PROVE LoopOK'
            BY <3>1 DEF LoopOK
        <3>2. CASE Repair
            BY <3>2, <1>7 DEF Model, Repair, LoopOK
        <3> QED BY <1>7, <3>1, <3>2 DEF Model, LoopOK
    <2>3. (AttemptOK /\ WorkOK /\ ReviewOK /\ TallyOK)'
        BY <1>7 DEF Model, AttemptOK, WorkOK, ReviewOK, TallyOK
    <2> QED BY <2>1, <2>2, <2>3 DEF Typed
<1>8. CASE CallSkipped
    <2>1. StagesOK'  BY <1>8 DEF CallSkipped, Answered, StagesOK
    <2>2. LoopOK'  BY <1>8 DEF CallSkipped, Answered, LoopOK, Bounded
    <2>3. (AttemptOK /\ WorkOK /\ ReviewOK /\ TallyOK)'
        BY <1>8 DEF CallSkipped, AttemptOK, WorkOK, ReviewOK, TallyOK
    <2> QED BY <2>1, <2>2, <2>3 DEF Typed
<1>9. CASE CallRuns
    <2>1. StagesOK'  BY <1>9 DEF CallRuns, Answered, StagesOK
    <2>2. LoopOK'  BY <1>9 DEF CallRuns, Answered, LoopOK, Bounded
    <2>3. WorkOK'  BY <1>9 DEF CallRuns, Answered, WorkOK
    <2>4. TallyOK'  BY <1>9 DEF CallRuns, Answered, TallyOK
    <2>5. (AttemptOK /\ ReviewOK)'  BY <1>9 DEF CallRuns, AttemptOK, ReviewOK
    <2> QED BY <2>1, <2>2, <2>3, <2>4, <2>5 DEF Typed
<1>10. CASE StepEnd
    <2>1. StagesOK'  BY <1>10 DEF StepEnd, StagesOK
    <2>2. LoopOK'  BY <1>10 DEF StepEnd, LoopOK, Bounded
    <2>3. (AttemptOK /\ WorkOK /\ ReviewOK /\ TallyOK)'
        BY <1>10 DEF StepEnd, AttemptOK, WorkOK, ReviewOK, TallyOK
    <2> QED BY <2>1, <2>2, <2>3 DEF Typed
<1>11. CASE TaskEnd
    <2>1. StagesOK'  BY <1>11 DEF TaskEnd, StagesOK
    <2>2. LoopOK'  BY <1>11 DEF TaskEnd, LoopOK, Bounded
    <2>3. ReviewOK'  BY <1>11 DEF TaskEnd, ReviewOK, WorkOK
    <2>4. TallyOK'  BY <1>11 DEF TaskEnd, TallyOK
    <2>5. (AttemptOK /\ WorkOK)'  BY <1>11 DEF TaskEnd, AttemptOK, WorkOK
    <2> QED BY <2>1, <2>2, <2>3, <2>4, <2>5 DEF Typed
<1>12. CASE AfterLoop
    <2>1. StagesOK'  BY <1>12 DEF AfterLoop, StagesOK
    <2>2. ReviewOK'  BY <1>12 DEF AfterLoop, ReviewOK, WorkOK
    <2>3. TallyOK'  BY <1>12 DEF AfterLoop, TallyOK
    <2>4. (AttemptOK /\ LoopOK /\ WorkOK)'
        BY <1>12 DEF AfterLoop, AttemptOK, LoopOK, WorkOK
    <2> QED BY <2>1, <2>2, <2>3, <2>4 DEF Typed
<1>13. CASE LoopDone
    <2>1. StagesOK'  BY ZenonT(40), <1>13 DEF LoopDone, StagesOK
    <2>2. (AttemptOK /\ LoopOK /\ WorkOK /\ ReviewOK /\ TallyOK)'
        BY <1>13 DEF LoopDone, AttemptOK, LoopOK, WorkOK, ReviewOK, TallyOK
    <2> QED BY <2>1, <2>2 DEF Typed
<1>14. CASE Caught
    <2>1. StagesOK'  BY <1>14 DEF Caught, StagesOK
    <2>2. ReviewOK'  BY <1>14 DEF Caught, ReviewOK, WorkOK
    <2>3. TallyOK'  BY <1>14 DEF Caught, TallyOK
    <2>4. (AttemptOK /\ LoopOK /\ WorkOK)'  BY <1>14 DEF Caught, AttemptOK, LoopOK, WorkOK
    <2> QED BY <2>1, <2>2, <2>3, <2>4 DEF Typed
<1>15. CASE Bookkeeping
    <2>1. StagesOK'  BY <1>15 DEF Bookkeeping, StagesOK
    <2>2. ReviewOK'  BY <1>15 DEF Bookkeeping, ReviewOK, WorkOK
    <2>3. TallyOK'  BY <1>15 DEF Bookkeeping, TallyOK
    <2>4. (AttemptOK /\ LoopOK /\ WorkOK)'
        BY <1>15 DEF Bookkeeping, AttemptOK, LoopOK, WorkOK
    <2> QED BY <2>1, <2>2, <2>3, <2>4 DEF Typed
<1>16. CASE Guard
    <2>1. StagesOK'  BY <1>16 DEF Guard, StagesOK, Control
    <2>2. AttemptOK'  BY <1>16 DEF Guard, AttemptOK, Bounded
    <2>3. ReviewOK'  BY <1>16 DEF Guard, ReviewOK, WorkOK
    <2>4. (LoopOK /\ WorkOK /\ TallyOK)'  BY <1>16 DEF Guard, LoopOK, WorkOK, TallyOK
    <2> QED BY <2>1, <2>2, <2>3, <2>4 DEF Typed
<1>17. CASE ReadDiff
    <2>1. StagesOK'  BY <1>17 DEF ReadDiff, StagesOK, Control
    <2>2. AttemptOK'  BY <1>17 DEF ReadDiff, AttemptOK, Bounded
    <2>3. ReviewOK'  BY <1>17 DEF ReadDiff, ReviewOK, WorkOK
    <2>4. (LoopOK /\ WorkOK /\ TallyOK)'  BY <1>17 DEF ReadDiff, LoopOK, WorkOK, TallyOK
    <2> QED BY <2>1, <2>2, <2>3, <2>4 DEF Typed
<1>18. CASE SecurityReview
    <2>1. StagesOK'  BY <1>18 DEF SecurityReview, StagesOK, Control
    <2>2. AttemptOK'  BY <1>18 DEF SecurityReview, AttemptOK, Bounded
    <2>3. ReviewOK'  BY <1>18 DEF SecurityReview, ReviewOK, WorkOK
    <2>4. (LoopOK /\ WorkOK /\ TallyOK)'
        BY <1>18 DEF SecurityReview, LoopOK, WorkOK, TallyOK
    <2> QED BY <2>1, <2>2, <2>3, <2>4 DEF Typed
<1>19. CASE AskHuman
    <2>1. StagesOK'  BY <1>19 DEF AskHuman, StagesOK, Control
    <2>2. AttemptOK'  BY <1>19 DEF AskHuman, AttemptOK, Bounded
    <2>3. (LoopOK /\ WorkOK /\ ReviewOK /\ TallyOK)'
        BY <1>19 DEF AskHuman, LoopOK, WorkOK, ReviewOK, TallyOK
    <2> QED BY <2>1, <2>2, <2>3 DEF Typed
<1>20. CASE Judge
    <2>1. StagesOK'  BY <1>20 DEF Judge, Succeed, StagesOK
    <2>2. (AttemptOK /\ LoopOK /\ WorkOK /\ ReviewOK /\ TallyOK)'
        BY <1>20 DEF Judge, AttemptOK, LoopOK, WorkOK, ReviewOK, TallyOK
    <2> QED BY <2>1, <2>2 DEF Typed
<1>21. CASE Ending
    <2>1. StagesOK'  BY <1>21 DEF Ending, Retried, StagesOK
    <2>2. (AttemptOK /\ LoopOK /\ WorkOK /\ ReviewOK /\ TallyOK)'
        BY <1>21 DEF Ending, AttemptOK, LoopOK, WorkOK, ReviewOK, TallyOK
    <2> QED BY <2>1, <2>2 DEF Typed
<1>22. CASE Retry
    <2>1. StagesOK'  BY <1>22 DEF Retry, StagesOK
    <2>2. AttemptOK'  BY <1>22 DEF Retry, AttemptOK, Bounded
    <2>3. (LoopOK /\ WorkOK /\ ReviewOK /\ TallyOK)'
        BY <1>22 DEF Retry, LoopOK, WorkOK, ReviewOK, TallyOK
    <2> QED BY <2>1, <2>2, <2>3 DEF Typed
<1>23. ASSUME NEW d, Decided(d) PROVE Typed'
    <2>1. StagesOK'  BY <1>23 DEF Decided, Refuses, StagesOK, Control
    <2>2. AttemptOK'  BY <1>23 DEF Decided, Refuses, AttemptOK, Bounded
    <2>3. ReviewOK'  BY <1>23 DEF Decided, Refuses, ReviewOK, WorkOK
    <2>4. (LoopOK /\ WorkOK /\ TallyOK)'  BY <1>23 DEF Decided, LoopOK, WorkOK, TallyOK
    <2> QED BY <2>1, <2>2, <2>3, <2>4 DEF Typed
<1> QED BY <1>1, <1>2, <1>3, <1>4, <1>5, <1>6, <1>7, <1>8, <1>9, <1>10, <1>11, <1>12, <1>13, <1>14,
   <1>15, <1>16, <1>17, <1>18, <1>19, <1>20, <1>21, <1>22, <1>23 DEF Next, Program, Loop,
   Review, ReviewerAnswers, ReviewTimeout

\* A guard of a reader's changes throws, or returns with nothing changed or with a writer named.
LEMMA GuardEnds ==
    ASSUME TypeOK, Guard
    PROVE  /\ UNCHANGED <<back, tree, opened>>
           /\ \/ ReadThrows("other") \/ ReadThrows("judged")
              \/ ReadReturns /\ (tree = opened \/ verdict'.attributed)
<1>1. verdict \in [cleared : BOOLEAN, approved : BOOLEAN, attributed : BOOLEAN, recorded : BOOLEAN]
    BY DEF TypeOK
<1>2. verdict' = [verdict EXCEPT !.recorded = TRUE, !.attributed = TRUE] => verdict'.attributed
    BY <1>1
<1>3. UNCHANGED <<back, tree, opened>>
    BY DEF Guard, work, attemptVars
<1>4. \/ ReadThrows("other") \/ ReadThrows("judged")
      \/ ReadReturns /\ (tree = opened \/ verdict' = [verdict EXCEPT !.recorded = TRUE, !.attributed = TRUE])
    BY Zenon DEF Guard
<1> QED BY <1>2, <1>3, <1>4

\* Every handler keeps it: one step per action, one leaf per part the action can disturb.
LEMMA Inductive == IInv /\ Next => IInv'
<1> SUFFICES ASSUME IInv, Next PROVE IInv'
    OBVIOUS
<1>0. TypeOK'
    BY TypeStep DEF IInv
<1> USE <1>0, NodesAssumption, StartAssumption, BoundsAssumption DEF IInv
<1> USE DEF Go, Throw, Catcher, Stop, HookFails, ReadThrows, ReadReturns, Onward, RunReview,
           Read, Quiet, attemptVars, judgement, work
<1> USE DEF TypeOK, NodeType, Over, Unended, Unread, Stages, InLoop, Reads, Callers, Errors, None
<1>1. CASE Begin
    <2>1. (Bounded /\ Control)'
        BY <1>1 DEF Begin, Fresh, NewLoop, NewReview, NoVerdict, Bounded, Control
    <2>2. (EndsOnce /\ Worked)'
        BY <1>1 DEF Begin, Fresh, NewLoop, NewReview, NoVerdict, EndsOnce, Worked, Control
    <2>3. ReadsOnce'
        BY <1>1 DEF Begin, Fresh, NewLoop, NewReview, NoVerdict, ReadsOnce, Control
    <2>4. (WriterRead /\ ReaderRead)'
        BY <1>1 DEF Begin, Fresh, NewLoop, NewReview, NoVerdict, WriterRead, ReaderRead,
           Control, ReadsOnce
    <2>5. Judged'
        BY <1>1 DEF Begin, Fresh, NewLoop, NewReview, NoVerdict, Judged, Reviewed, Control,
           ReadsOnce
    <2>6. (SuccessHolds /\ Refused)'
        BY <1>1 DEF Begin, Fresh, NewLoop, NewReview, NoVerdict, SuccessHolds,
           SuccessWasJudged, WorkBehindSuccess, Success, Refused, Reviewed, Judged, Worked,
           Control, WriterRead
    <2> QED BY <2>1, <2>2, <2>3, <2>4, <2>5, <2>6
<1>2. CASE Invoke
    <2>1. (Bounded /\ Control)'  BY <1>2 DEF Invoke, Bounded, Control
    <2>2. (EndsOnce /\ Worked)'  BY <1>2 DEF Invoke, EndsOnce, Worked, Control
    <2>3. ReadsOnce'  BY <1>2 DEF Invoke, ReadsOnce, Control
    <2>4. (WriterRead /\ ReaderRead)'
        BY <1>2 DEF Invoke, WriterRead, ReaderRead, Control, ReadsOnce
    <2>5. Judged'  BY <1>2 DEF Invoke, Judged, Reviewed, Control, ReadsOnce
    <2>6. (SuccessHolds /\ Refused)'
        BY <1>2 DEF Invoke, SuccessHolds, SuccessWasJudged, WorkBehindSuccess, Success,
           Refused, Reviewed, Judged, Worked, Control, WriterRead
    <2> QED BY <2>1, <2>2, <2>3, <2>4, <2>5, <2>6
<1>3. CASE Build
    <2>1. (Bounded /\ Control)'  BY <1>3 DEF Build, Bounded, Control
    <2>2. (EndsOnce /\ Worked)'  BY <1>3 DEF Build, EndsOnce, Worked, Control
    <2>3. ReadsOnce'  BY <1>3 DEF Build, ReadsOnce, Control
    <2>4. (WriterRead /\ ReaderRead)'
        BY <1>3 DEF Build, WriterRead, ReaderRead, Control, ReadsOnce
    <2>5. Judged'  BY <1>3 DEF Build, Judged, Reviewed, Control, ReadsOnce
    <2>6. (SuccessHolds /\ Refused)'
        BY <1>3 DEF Build, SuccessHolds, SuccessWasJudged, WorkBehindSuccess, Success,
           Refused, Reviewed, Judged, Worked, Control, WriterRead
    <2> QED BY <2>1, <2>2, <2>3, <2>4, <2>5, <2>6
<1>4. CASE TaskStart
    <2>1. (Bounded /\ Control)'  BY <1>4 DEF TaskStart, Bounded, Control
    <2>2. (EndsOnce /\ Worked)'  BY <1>4 DEF TaskStart, EndsOnce, Worked, Control
    <2>3. ReadsOnce'  BY <1>4 DEF TaskStart, ReadsOnce, Control
    <2>4. (WriterRead /\ ReaderRead)'
        BY <1>4 DEF TaskStart, WriterRead, ReaderRead, Control, ReadsOnce
    <2>5. Judged'  BY <1>4 DEF TaskStart, Judged, Reviewed, Control, ReadsOnce
    <2>6. (SuccessHolds /\ Refused)'
        BY <1>4 DEF TaskStart, SuccessHolds, SuccessWasJudged, WorkBehindSuccess, Success,
           Refused, Reviewed, Judged, Worked, Control, WriterRead
    <2> QED BY <2>1, <2>2, <2>3, <2>4, <2>5, <2>6
<1>5. CASE StepStart
    <2>1. (Bounded /\ Control)'  BY <1>5 DEF StepStart, Bounded, Control
    <2>2. (EndsOnce /\ Worked)'  BY <1>5 DEF StepStart, EndsOnce, Worked, Control
    <2>3. ReadsOnce'  BY <1>5 DEF StepStart, ReadsOnce, Control
    <2>4. (WriterRead /\ ReaderRead)'
        BY <1>5 DEF StepStart, WriterRead, ReaderRead, Control, ReadsOnce
    <2>5. Judged'  BY <1>5 DEF StepStart, Judged, Reviewed, Control, ReadsOnce
    <2>6. (SuccessHolds /\ Refused)'
        BY <1>5 DEF StepStart, SuccessHolds, SuccessWasJudged, WorkBehindSuccess, Success,
           Refused, Reviewed, Judged, Worked, Control, WriterRead
    <2> QED BY <2>1, <2>2, <2>3, <2>4, <2>5, <2>6
<1>6. CASE BeforeModel
    <2>1. (Bounded /\ Control)'  BY <1>6 DEF BeforeModel, Bounded, Control
    <2>2. (EndsOnce /\ Worked)'  BY <1>6 DEF BeforeModel, EndsOnce, Worked, Control
    <2>3. ReadsOnce'  BY <1>6 DEF BeforeModel, ReadsOnce, Control
    <2>4. (WriterRead /\ ReaderRead)'
        BY <1>6 DEF BeforeModel, WriterRead, ReaderRead, Control, ReadsOnce
    <2>5. Judged'  BY <1>6 DEF BeforeModel, Judged, Reviewed, Control, ReadsOnce
    <2>6. (SuccessHolds /\ Refused)'
        BY <1>6 DEF BeforeModel, SuccessHolds, SuccessWasJudged, WorkBehindSuccess, Success,
           Refused, Reviewed, Judged, Worked, Control, WriterRead
    <2> QED BY <2>1, <2>2, <2>3, <2>4, <2>5, <2>6
<1>7. CASE Model
    <2>1. (Bounded /\ Control)'  BY <1>7 DEF Model, Repair, Bounded, Control
    <2>2. (EndsOnce /\ Worked)'  BY <1>7 DEF Model, Repair, EndsOnce, Worked, Control
    <2>3. ReadsOnce'  BY <1>7 DEF Model, Repair, ReadsOnce, Control
    <2>4. (WriterRead /\ ReaderRead)'
        BY <1>7 DEF Model, Repair, WriterRead, ReaderRead, Control, ReadsOnce
    <2>5. Judged'  BY <1>7 DEF Model, Repair, Judged, Reviewed, Control, ReadsOnce
    <2>6. (SuccessHolds /\ Refused)'
        BY <1>7 DEF Model, Repair, SuccessHolds, SuccessWasJudged, WorkBehindSuccess,
           Success, Refused, Reviewed, Judged, Worked, Control, WriterRead
    <2> QED BY <2>1, <2>2, <2>3, <2>4, <2>5, <2>6
<1>8. CASE CallSkipped
    <2>1. (Bounded /\ Control)'  BY <1>8 DEF CallSkipped, Answered, Bounded, Control
    <2>2. (EndsOnce /\ Worked)'
        BY <1>8 DEF CallSkipped, Answered, EndsOnce, Worked, Control
    <2>3. ReadsOnce'  BY <1>8 DEF CallSkipped, Answered, ReadsOnce, Control
    <2>4. (WriterRead /\ ReaderRead)'
        BY <1>8 DEF CallSkipped, Answered, WriterRead, ReaderRead, Control, ReadsOnce
    <2>5. Judged'  BY <1>8 DEF CallSkipped, Answered, Judged, Reviewed, Control, ReadsOnce
    <2>6. (SuccessHolds /\ Refused)'
        BY <1>8 DEF CallSkipped, Answered, SuccessHolds, SuccessWasJudged,
           WorkBehindSuccess, Success, Refused, Reviewed, Judged, Worked, Control,
           WriterRead
    <2> QED BY <2>1, <2>2, <2>3, <2>4, <2>5, <2>6
<1>9. CASE CallRuns
    <2>1. (Bounded /\ Control)'  BY <1>9 DEF CallRuns, Answered, Bounded, Control
    <2>2. (EndsOnce /\ Worked)'  BY <1>9 DEF CallRuns, Answered, EndsOnce, Worked, Control
    <2>3. ReadsOnce'  BY <1>9 DEF CallRuns, Answered, ReadsOnce, Control
    <2>4. (WriterRead /\ ReaderRead)'
        BY <1>9 DEF CallRuns, Answered, WriterRead, ReaderRead, Control, ReadsOnce
    <2>5. Judged'  BY <1>9 DEF CallRuns, Answered, Judged, Reviewed, Control, ReadsOnce
    <2>6. (SuccessHolds /\ Refused)'
        BY <1>9 DEF CallRuns, Answered, SuccessHolds, SuccessWasJudged, WorkBehindSuccess,
           Success, Refused, Reviewed, Judged, Worked, Control, WriterRead
    <2> QED BY <2>1, <2>2, <2>3, <2>4, <2>5, <2>6
<1>10. CASE StepEnd
    <2>1. (Bounded /\ Control)'  BY <1>10 DEF StepEnd, Bounded, Control
    <2>2. (EndsOnce /\ Worked)'  BY <1>10 DEF StepEnd, EndsOnce, Worked, Control
    <2>3. ReadsOnce'  BY <1>10 DEF StepEnd, ReadsOnce, Control
    <2>4. (WriterRead /\ ReaderRead)'
        BY <1>10 DEF StepEnd, WriterRead, ReaderRead, Control, ReadsOnce
    <2>5. Judged'  BY <1>10 DEF StepEnd, Judged, Reviewed, Control, ReadsOnce
    <2>6. (SuccessHolds /\ Refused)'
        BY <1>10 DEF StepEnd, SuccessHolds, SuccessWasJudged, WorkBehindSuccess, Success,
           Refused, Reviewed, Judged, Worked, Control, WriterRead
    <2> QED BY <2>1, <2>2, <2>3, <2>4, <2>5, <2>6
<1>11. CASE TaskEnd
    <2>1. (Bounded /\ Control)'  BY <1>11 DEF TaskEnd, Bounded, Control
    <2>2. (EndsOnce /\ Worked)'  BY <1>11 DEF TaskEnd, EndsOnce, Worked, Control
    <2>3. ReadsOnce'  BY <1>11 DEF TaskEnd, ReadsOnce, Control
    <2>4. (WriterRead /\ ReaderRead)'
        BY <1>11 DEF TaskEnd, WriterRead, ReaderRead, Control, ReadsOnce
    <2>5. Judged'  BY <1>11 DEF TaskEnd, Judged, Reviewed, Control, ReadsOnce
    <2>6. (SuccessHolds /\ Refused)'
        BY <1>11 DEF TaskEnd, SuccessHolds, SuccessWasJudged, WorkBehindSuccess, Success,
           Refused, Reviewed, Judged, Worked, Control, WriterRead
    <2> QED BY <2>1, <2>2, <2>3, <2>4, <2>5, <2>6
<1>12. CASE AfterLoop
    <2>1. (Bounded /\ Control)'  BY <1>12 DEF AfterLoop, Bounded, Control
    <2>2. (EndsOnce /\ Worked)'  BY <1>12 DEF AfterLoop, EndsOnce, Worked, Control
    <2>3. ReadsOnce'  BY <1>12 DEF AfterLoop, ReadsOnce, Control
    <2>4. (WriterRead /\ ReaderRead)'
        BY <1>12 DEF AfterLoop, WriterRead, ReaderRead, Control, ReadsOnce
    <2>5. Judged'  BY <1>12 DEF AfterLoop, Judged, Reviewed, Control, ReadsOnce
    <2>6. (SuccessHolds /\ Refused)'
        BY <1>12 DEF AfterLoop, SuccessHolds, SuccessWasJudged, WorkBehindSuccess, Success,
           Refused, Reviewed, Judged, Worked, Control, WriterRead
    <2> QED BY <2>1, <2>2, <2>3, <2>4, <2>5, <2>6
<1>13. CASE LoopDone
    <2>1. (Bounded /\ Control)'  BY <1>13 DEF LoopDone, Bounded, Control
    <2>2. (EndsOnce /\ Worked)'  BY <1>13 DEF LoopDone, EndsOnce, Worked, Control
    <2>3. ReadsOnce'  BY <1>13 DEF LoopDone, ReadsOnce, Control
    <2>4. (WriterRead /\ ReaderRead)'
        BY <1>13 DEF LoopDone, WriterRead, ReaderRead, Control, ReadsOnce
    <2>5. Judged'  BY <1>13 DEF LoopDone, Judged, Reviewed, Control, ReadsOnce
    <2>6. (SuccessHolds /\ Refused)'
        BY <1>13 DEF LoopDone, SuccessHolds, SuccessWasJudged, WorkBehindSuccess, Success,
           Refused, Reviewed, Judged, Worked, Control, WriterRead
    <2> QED BY <2>1, <2>2, <2>3, <2>4, <2>5, <2>6
<1>14. CASE Caught
    <2>1. (Bounded /\ Control)'  BY <1>14 DEF Caught, Bounded, Control
    <2>2. (EndsOnce /\ Worked)'  BY <1>14 DEF Caught, EndsOnce, Worked, Control
    <2>3. ReadsOnce'  BY <1>14 DEF Caught, ReadsOnce, Control
    <2>4. (WriterRead /\ ReaderRead)'
        BY <1>14 DEF Caught, WriterRead, ReaderRead, Control, ReadsOnce
    <2>5. Judged'  BY <1>14 DEF Caught, Judged, Reviewed, Control, ReadsOnce
    <2>6. (SuccessHolds /\ Refused)'
        BY <1>14 DEF Caught, SuccessHolds, SuccessWasJudged, WorkBehindSuccess, Success,
           Refused, Reviewed, Judged, Worked, Control, WriterRead
    <2> QED BY <2>1, <2>2, <2>3, <2>4, <2>5, <2>6
<1>15. CASE Bookkeeping
    <2>1. (Bounded /\ Control)'  BY <1>15 DEF Bookkeeping, Bounded, Control
    <2>2. (EndsOnce /\ Worked)'  BY <1>15 DEF Bookkeeping, EndsOnce, Worked, Control
    <2>3. ReadsOnce'  BY <1>15 DEF Bookkeeping, ReadsOnce, Control
    <2>4. (WriterRead /\ ReaderRead)'
        BY <1>15 DEF Bookkeeping, WriterRead, ReaderRead, Control, ReadsOnce
    <2>5. Judged'  BY <1>15 DEF Bookkeeping, Judged, Reviewed, Control, ReadsOnce
    <2>6. (SuccessHolds /\ Refused)'
        BY <1>15 DEF Bookkeeping, SuccessHolds, SuccessWasJudged, WorkBehindSuccess,
           Success, Refused, Reviewed, Judged, Worked, Control, WriterRead
    <2> QED BY <2>1, <2>2, <2>3, <2>4, <2>5, <2>6
<1>16. CASE Guard
    <2>1. (Bounded /\ Control)'  BY <1>16 DEF Guard, Bounded, Control
    <2>2. (EndsOnce /\ Worked)'  BY <1>16 DEF Guard, EndsOnce, Worked, Control
    <2>3. ReadsOnce'  BY <1>16 DEF Guard, ReadsOnce, Control
    <2>4. (WriterRead /\ ReaderRead)'
        BY <1>16 DEF Guard, WriterRead, ReaderRead, Control, ReadsOnce
    <2>5. Judged'
        <3>1. ~node.writer /\ ~review.begun /\ back \in {"caught", "answered"}
            BY <1>16 DEF Guard, Control, ReadsOnce
        <3>2. at' \in {"ending", "judge"} /\ (at' = "judge" => tree = opened \/ verdict'.attributed)
            <4>1. CASE ReadThrows("other") \/ ReadThrows("judged")
                BY <3>1, <4>1
            <4>2. CASE ReadReturns /\ (tree = opened \/ verdict'.attributed)
                BY <1>16, <3>1, <4>2, GuardEnds
            <4>3. \/ ReadThrows("other") \/ ReadThrows("judged")
                  \/ ReadReturns /\ (tree = opened \/ verdict'.attributed)
                BY <1>16, GuardEnds
            <4> QED BY <4>1, <4>2, <4>3
        <3> QED BY <1>16, <3>1, <3>2 DEF Guard, Judged
    <2>6. (SuccessHolds /\ Refused)'
        BY <1>16 DEF Guard, SuccessHolds, SuccessWasJudged, WorkBehindSuccess, Success,
           Refused, Reviewed, Judged, Worked, Control, WriterRead
    <2> QED BY <2>1, <2>2, <2>3, <2>4, <2>5, <2>6
<1>17. CASE ReadDiff
    <2>1. (Bounded /\ Control)'  BY <1>17 DEF ReadDiff, Bounded, Control
    <2>2. (EndsOnce /\ Worked)'  BY <1>17 DEF ReadDiff, EndsOnce, Worked, Control
    <2>3. ReadsOnce'  BY <1>17 DEF ReadDiff, ReadsOnce, Control
    <2>4. (WriterRead /\ ReaderRead)'
        BY <1>17 DEF ReadDiff, WriterRead, ReaderRead, Control, ReadsOnce
    <2>5. Judged'  BY <1>17 DEF ReadDiff, Judged, Reviewed, Control, ReadsOnce
    <2>6. (SuccessHolds /\ Refused)'
        BY <1>17 DEF ReadDiff, SuccessHolds, SuccessWasJudged, WorkBehindSuccess, Success,
           Refused, Reviewed, Judged, Worked, Control, WriterRead
    <2> QED BY <2>1, <2>2, <2>3, <2>4, <2>5, <2>6
<1>18. CASE SecurityReview
    <2>1. (Bounded /\ Control)'  BY <1>18 DEF SecurityReview, Bounded, Control
    <2>2. (EndsOnce /\ Worked)'  BY <1>18 DEF SecurityReview, EndsOnce, Worked, Control
    <2>3. ReadsOnce'  BY <1>18 DEF SecurityReview, ReadsOnce, Control
    <2>4. (WriterRead /\ ReaderRead)'
        BY <1>18 DEF SecurityReview, WriterRead, ReaderRead, Control, ReadsOnce
    <2>5. Judged'  BY <1>18 DEF SecurityReview, Judged, Reviewed, Control, ReadsOnce
    <2>6. (SuccessHolds /\ Refused)'
        BY <1>18 DEF SecurityReview, SuccessHolds, SuccessWasJudged, WorkBehindSuccess,
           Success, Refused, Reviewed, Judged, Worked, Control, WriterRead
    <2> QED BY <2>1, <2>2, <2>3, <2>4, <2>5, <2>6
<1>19. CASE AskHuman
    <2>1. (Bounded /\ Control)'  BY <1>19 DEF AskHuman, Bounded, Control
    <2>2. (EndsOnce /\ Worked)'  BY <1>19 DEF AskHuman, EndsOnce, Worked, Control
    <2>3. ReadsOnce'  BY <1>19 DEF AskHuman, ReadsOnce, Control
    <2>4. (WriterRead /\ ReaderRead)'
        BY <1>19 DEF AskHuman, WriterRead, ReaderRead, Control, ReadsOnce
    <2>5. Judged'  BY <1>19 DEF AskHuman, Judged, Reviewed, Control, ReadsOnce
    <2>6. (SuccessHolds /\ Refused)'
        BY <1>19 DEF AskHuman, SuccessHolds, SuccessWasJudged, WorkBehindSuccess, Success,
           Refused, Reviewed, Judged, Worked, Control, WriterRead
    <2> QED BY <2>1, <2>2, <2>3, <2>4, <2>5, <2>6
<1>20. CASE Judge
    <2>1. (Bounded /\ Control)'  BY <1>20 DEF Judge, Succeed, Bounded, Control
    <2>2. (EndsOnce /\ Worked)'  BY <1>20 DEF Judge, Succeed, EndsOnce, Worked, Control
    <2>3. ReadsOnce'  BY <1>20 DEF Judge, Succeed, ReadsOnce, Control
    <2>4. (WriterRead /\ ReaderRead)'
        BY <1>20 DEF Judge, Succeed, WriterRead, ReaderRead, Control, ReadsOnce
    <2>5. Judged'  BY <1>20 DEF Judge, Succeed, Judged, Reviewed, Control, ReadsOnce
    <2>6. SuccessHolds'
        <3>1. SuccessWasJudged'
            BY <1>20 DEF Judge, Succeed, SuccessWasJudged, Success, Judged, Reviewed, WriterRead,
               Control
        <3>2. ASSUME result' = "succeeded", node.expectsChange PROVE tree # Start
            <4>1. shortfall = None /\ answered /\ ~NoChange
                BY <1>20, <3>2 DEF Judge, Succeed, Control, Worked
            <4>2. node.writer /\ review.seen = tree
                BY <1>20, <3>2 DEF Judge, Judged, Reviewed, WriterRead
            <4> QED BY <3>2, <4>1, <4>2 DEF NoChange
        <3>3. ASSUME result' = "succeeded", node.tier = "in-process", ~node.expectsChange,
                     node.expectsCalls
              PROVE tally.worked
            <4>1. shortfall = None /\ answered /\ ~NoWork
                BY <1>20, <3>3 DEF Judge, Succeed, Control, Worked
            <4>2. calls.now # calls.before
                BY <3>3, <4>1 DEF NoWork
            <4> QED BY <4>2 DEF Worked
        <3> QED BY <1>20, <3>1, <3>2, <3>3 DEF Judge, SuccessHolds, WorkBehindSuccess
    <2>7. Refused'  BY <1>20 DEF Judge, Succeed, Refused, Success
    <2> QED BY <2>1, <2>2, <2>3, <2>4, <2>5, <2>6, <2>7
<1>21. CASE Ending
    <2>1. (Bounded /\ Control)'  BY <1>21 DEF Ending, Retried, Bounded, Control
    <2>2. (EndsOnce /\ Worked)'  BY <1>21 DEF Ending, Retried, EndsOnce, Worked, Control
    <2>3. ReadsOnce'  BY <1>21 DEF Ending, Retried, ReadsOnce, Control
    <2>4. (WriterRead /\ ReaderRead)'
        BY <1>21 DEF Ending, Retried, WriterRead, ReaderRead, Control, ReadsOnce
    <2>5. Judged'  BY <1>21 DEF Ending, Retried, Judged, Reviewed, Control, ReadsOnce
    <2>6. (SuccessHolds /\ Refused)'
        BY <1>21 DEF Ending, Retried, SuccessHolds, SuccessWasJudged, WorkBehindSuccess,
           Success, Refused, Reviewed, Judged, Worked, Control, WriterRead
    <2> QED BY <2>1, <2>2, <2>3, <2>4, <2>5, <2>6
<1>22. CASE Retry
    <2>1. (Bounded /\ Control)'  BY <1>22 DEF Retry, Bounded, Control
    <2>2. (EndsOnce /\ Worked)'  BY <1>22 DEF Retry, EndsOnce, Worked, Control
    <2>3. ReadsOnce'  BY <1>22 DEF Retry, ReadsOnce, Control
    <2>4. (WriterRead /\ ReaderRead)'
        BY <1>22 DEF Retry, WriterRead, ReaderRead, Control, ReadsOnce
    <2>5. Judged'  BY <1>22 DEF Retry, Judged, Reviewed, Control, ReadsOnce
    <2>6. (SuccessHolds /\ Refused)'
        BY <1>22 DEF Retry, SuccessHolds, SuccessWasJudged, WorkBehindSuccess, Success,
           Refused, Reviewed, Judged, Worked, Control, WriterRead
    <2> QED BY <2>1, <2>2, <2>3, <2>4, <2>5, <2>6
<1>23. ASSUME NEW d, Decided(d) PROVE IInv'
    <2>1. (Bounded /\ Control)'  BY <1>23 DEF Decided, Refuses, Bounded, Control
    <2>2. (EndsOnce /\ Worked)'  BY <1>23 DEF Decided, Refuses, EndsOnce, Worked, Control
    <2>3. ReadsOnce'  BY <1>23 DEF Decided, Refuses, ReadsOnce, Control
    <2>4. (WriterRead /\ ReaderRead)'
        BY <1>23 DEF Decided, Refuses, WriterRead, ReaderRead, Control, ReadsOnce
    <2>5. Judged'  BY <1>23 DEF Decided, Refuses, Judged, Reviewed, Control, ReadsOnce
    <2>6. (SuccessHolds /\ Refused)'
        BY <1>23 DEF Decided, Refuses, SuccessHolds, SuccessWasJudged, WorkBehindSuccess,
           Success, Refused, Reviewed, Judged, Worked, Control, WriterRead
    <2> QED BY <2>1, <2>2, <2>3, <2>4, <2>5, <2>6
<1> QED BY <1>1, <1>2, <1>3, <1>4, <1>5, <1>6, <1>7, <1>8, <1>9, <1>10, <1>11, <1>12, <1>13, <1>14,
   <1>15, <1>16, <1>17, <1>18, <1>19, <1>20, <1>21, <1>22, <1>23 DEF Next, Program, Loop,
   Review, ReviewerAnswers, ReviewTimeout

\* So it holds of every attempt of every node.
LEMMA Invariant == Spec => []IInv
<1>1. IInv /\ UNCHANGED vars => IInv'
    BY DEF vars, IInv, TypeOK, Bounded, Control, EndsOnce, ReadsOnce, WriterRead, ReaderRead,
           Judged, Reviewed, SuccessHolds, SuccessWasJudged, WorkBehindSuccess, Success,
           Worked, Refused, Over
<1> QED BY <1>1, Initially, Inductive, PTL DEF Spec

--------------------------------------------------------------------------------
(***************************************************************************)
(* The theorems                                                            *)
(***************************************************************************)

\* Every variable keeps to its type: no counter of attempts, turns or repairs passes the
\* bound that withRetry, the turn loop and the repair loop put on it.
THEOREM TypeCorrect == Spec => []TypeOK
BY Invariant, PTL DEF IInv

\* However an attempt ends, its processors have observed the end of the loop once, and what
\* it left in the tree has been read once, but on the two ways that the property names.
THEOREM AttemptIsReadOnce == Spec => []ReadOncePerAttempt
<1>1. IInv => ReadOncePerAttempt
    BY DEF IInv, ReadOncePerAttempt, EndsOnce, ReadsOnce, WriterRead, ReaderRead, Over, Unended,
           InLoop, TypeOK
<1> QED BY <1>1, Invariant, PTL

\* A node that succeeds has left nothing unjudged, and has done what it owes.
THEOREM SuccessIsJudgedWork == Spec => []SuccessHolds
BY Invariant, PTL DEF IInv

\* A refusal is the end of the node, whichever judge refused and however it came out.
THEOREM RefusalIsFinal == Spec => []RefusalStands
<1>1. IInv => RefusalStands
    BY DEF IInv, RefusalStands, Refused
<1> QED BY <1>1, Invariant, PTL

================================================================================

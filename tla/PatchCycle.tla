---------------------------- MODULE PatchCycle ----------------------------
(* Calls of the file tools through the gate and past it, and the two loops   *)
(* that patch, test and roll back (ToolLoop.runPatchTestCycle and            *)
(* PatchTestCycle.run), in a tree that others may change while a call waits  *)
(* for its approval.                                                         *)
EXTENDS FileTools

CONSTANTS
    Trees, Calls, Diffs, Meddling,   \* trees to start from, calls, diffs to cycle, what others do
    MaxIterations, MaxAttempts, MaxErrors,
    Breakers,     \* what earlier calls of the same ToolLoop left on its breaker
    Nothing

\* What is in a tree is in a directory; a name is in one section of a diff.
Grows(t) == \A p \in Path : t[p] # "none" => Inside(t, p)
Named(s) == {s.old, s.new} \ {Nowhere}
OneSectionAName(d) ==
    /\ \A s \in Elements(d.sections) : Named(s) # {} /\ Named(s) \subseteq Path /\ {s.from, s.to} \subseteq Content
    /\ \A r, s \in Elements(d.sections) : r = s \/ Named(r) \cap Named(s) = {}

ASSUME PatchAssumption ==
    /\ Path \subseteq Seq(STRING) \ {<<>>, <<"..">>}
    /\ Content \cap {"none", "dir"} = {} /\ DOMAIN LinkTo \cap (Content \cup {"none", "dir"}) = {}
    /\ Trees \subseteq Tree /\ \A t \in Trees : Grows(t)
    /\ \A d \in Diffs : OneSectionAName(d)
    /\ \A c \in Calls :
          /\ {"stage", "end", "approved"} \cap DOMAIN c = {} /\ {"tool", "input"} \subseteq DOMAIN c
          /\ c.tool \in {"patch.apply", "fs.write", "fs.delete"} \cup Readers
          /\ c.tool = "patch.apply" =>
               /\ {"diff", "dryRun"} \subseteq DOMAIN c
               /\ OneSectionAName(c.diff) /\ DeclaredFromGit(c.diff) # Nothing

VARIABLES
    tree,
    call,         \* the call under way or the last one
    meddled,      \* whether somebody else has changed the tree (bound: once)
    cycle,        \* the loop: where it is, which of the two, its diff and iteration
    breaker,      \* CircuitBreaker: attempts and errors
    stack,        \* RollbackManager.stack: how many checkpoints of the one HEAD
    onBranch,     \* the worktree is on the run's branch
    straggler,    \* a timed-out test run: none, alive, or it has written
    start,        \* what HEAD holds
    tested        \* history: the tree the last test run ended on

toolVars == <<call, meddled>>
cycleVars == <<cycle, breaker, stack, onBranch, straggler, start, tested>>
patchVars == <<tree, toolVars, cycleVars>>

NoCall == [tool |-> "none", stage |-> "none", end |-> "none", approved |-> Nothing]
Over == {"idle", "succeeded", "failed", "threw"}

CycleInit ==
    /\ tree \in Trees /\ start = tree
    /\ call = NoCall /\ meddled = FALSE
    /\ cycle \in {[pc |-> "idle", loop |-> l, diff |-> d, i |-> 1] : l \in {"tool", "pair"}, d \in Diffs}
    /\ breaker \in Breakers /\ stack = 0
    /\ onBranch = TRUE /\ straggler = "none" /\ tested = Nothing

-----------------------------------------------------------------------------
(* One call: executeToolGated, and the tool itself.                          *)

\* toolInputProblem: a tool's own check looks at the required fields alone.
InputProblem(input, requiredOnly) == input = "missing" \/ (input = "extra" /\ ~ requiredOnly)

Declares(t, c) ==
    CASE c.tool = "patch.apply" -> PatchDeclares(t, c.diff)
      [] c.tool \in {"fs.write", "fs.delete"} -> ~ NamesGitDir(c.path)
      [] c.tool \in Readers -> TRUE

DeclaredPaths(c) == IF c.tool = "patch.apply" THEN DeclaredFromGit(c.diff) ELSE {c.path}

Execute(t, c) ==
    IF InputProblem(c.input, TRUE) THEN {CallOutcome(t, "failed")}
    ELSE CASE c.tool = "patch.apply" -> Patch(t, c.diff, c.approved, c.dryRun)
           [] c.tool = "fs.write" -> {Write(t, c.path, c.content, c.createDirs)}
           [] c.tool = "fs.delete" -> {Delete(t, c.path, c.recursive)}
           [] c.tool \in Readers -> {Read(t, c.tool, c.path)}

With(c, f) == [x \in DOMAIN c \cup DOMAIN f |-> IF x \in DOMAIN c THEN c[x] ELSE f[x]]
Ended(c, end) == With(c, [stage |-> "over", end |-> end, approved |-> Nothing])
Asked(c) == With(c, [stage |-> "asked", end |-> "none", approved |-> DeclaredPaths(c)])

\* Up to the policy's answer and that of whoever it asks.
BeginCall(c) ==
    \/ call' = Ended(c, IF InputProblem(c.input, FALSE) THEN "failed" ELSE "refused")
    \/ ~ InputProblem(c.input, FALSE) /\ Declares(tree, c) /\ call' = Asked(c)

AgentCalls(c) ==
    /\ call = NoCall /\ cycle.pc = "idle" /\ c.gated
    /\ BeginCall(c) /\ UNCHANGED <<tree, meddled, cycleVars>>

\* The approved call runs.
Run ==
    /\ call.stage = "asked"
    /\ \E o \in Execute(tree, call) :
         tree' = o.tree /\ call' = [call EXCEPT !.stage = "over", !.end = o.end]
    /\ UNCHANGED <<meddled, cycleVars>>

\* A caller that holds the tool itself.
CallsDirectly(c) ==
    /\ call = NoCall /\ cycle.pc = "idle" /\ ~ c.gated
    /\ \E o \in Execute(tree, Ended(c, "none")) :
         tree' = o.tree /\ call' = Ended(c, o.end)
    /\ UNCHANGED <<meddled, cycleVars>>

SomeoneElse(t) ==
    /\ call.stage = "asked" /\ ~ meddled /\ meddled' = TRUE
    /\ tree' = [p \in Path |-> IF p \in DOMAIN t THEN t[p] ELSE tree[p]]
    /\ UNCHANGED <<call, cycleVars>>

-----------------------------------------------------------------------------
(* The loops. Both try the same patch again.                                 *)

To(pc) == cycle' = [cycle EXCEPT !.pc = pc]
PatchCall == [tool |-> "patch.apply", diff |-> cycle.diff, dryRun |-> FALSE,
              input |-> "good", gated |-> TRUE]

Checkpoint ==
    /\ cycle.pc = "checkpoint" \/ (cycle.pc = "idle" /\ call = NoCall)
    /\ IF onBranch THEN stack' = stack + 1 /\ To("patch") ELSE UNCHANGED stack /\ To("threw")
    /\ UNCHANGED <<tree, toolVars, breaker, onBranch, straggler, start, tested>>

Trips == breaker.attempts >= MaxAttempts \/ breaker.errors >= MaxErrors
Attempted == [breaker EXCEPT !.attempts = @ + 1]
Erred == [breaker EXCEPT !.errors = @ + 1]

\* CircuitBreaker.check throws before the call; nothing is rolled back.
BreakerTrips ==
    /\ cycle.pc \in {"patch", "test"} /\ Trips /\ To("threw")
    /\ UNCHANGED <<tree, toolVars, breaker, stack, onBranch, straggler, start, tested>>

Patches ==
    /\ cycle.pc = "patch" /\ ~ Trips /\ breaker' = Attempted
    /\ BeginCall(PatchCall) /\ To("patching")
    /\ UNCHANGED <<tree, meddled, stack, onBranch, straggler, start, tested>>

\* Wrong: the exit code of the patch is not looked at.
PatchedAnyway ==
    /\ cycle.pc = "patching" /\ call.stage = "over"
    /\ To(IF call.end = "refused" THEN "threw" ELSE "test") /\ UNCHANGED breaker
    /\ UNCHANGED <<tree, toolVars, stack, onBranch, straggler, start, tested>>

\* A refusal is thrown and ends the loop; a failed patch is rolled back.
Patched ==
    /\ cycle.pc = "patching" /\ call.stage = "over"
    /\ To(CASE call.end = "ok" -> "test" [] call.end = "failed" -> "rollback" [] call.end = "refused" -> "threw")
    /\ breaker' = IF call.end = "failed" THEN Erred ELSE breaker
    /\ UNCHANGED <<tree, toolVars, stack, onBranch, straggler, start, tested>>

\* test.run answers 124 at its timer, whether or not the runner has died.
Tests(end) ==
    /\ cycle.pc = "test" /\ ~ Trips
    /\ breaker' = [attempts |-> breaker.attempts + 1, errors |-> breaker.errors + IF end \in {"fail", "timeout"} THEN 1 ELSE 0]
    /\ tested' = IF end = "pass" THEN tree ELSE Nothing
    /\ straggler' = IF end = "timeout" /\ straggler = "none" THEN "alive" ELSE straggler
    /\ To(CASE end = "pass" -> "succeeded" [] end \in {"fail", "timeout"} -> "rollback" [] end = "refused" -> "threw")
    /\ UNCHANGED <<tree, toolVars, stack, onBranch, start>>

\* A call that could not be recorded: caught by ToolLoop alone.
RecordFails ==
    /\ \/ cycle.pc = "patching" /\ call.stage = "over" /\ call.end # "refused" /\ UNCHANGED breaker
       \/ cycle.pc = "test" /\ ~ Trips /\ breaker' = Attempted
    /\ To(IF cycle.loop = "tool" THEN "caught" ELSE "threw")
    /\ UNCHANGED <<tree, toolVars, stack, onBranch, straggler, start, tested>>

\* git reset --hard: what HEAD holds is put back, and what git does not know stays.
Reset(t) ==
    LET tracked == {p \in Path : start[p] \notin {"none", "dir"} /\ ~ Escapes(p) /\ ~ NamesGitDir(p)} IN
    [p \in Path |-> IF p \in tracked THEN start[p]
                    ELSE IF \E q \in tracked : p \in Above(q) THEN "dir"
                    ELSE IF \E q \in tracked : q \in Above(p) THEN "none" ELSE t[p]]

\* PatchTestCycle gives a patch that does not apply one attempt.
GivesUp == cycle.i = MaxIterations \/ (cycle.loop = "pair" /\ call.end = "failed")
TryAgain ==
    IF GivesUp THEN To("failed") ELSE cycle' = [cycle EXCEPT !.pc = "checkpoint", !.i = @ + 1]

\* Wrong: the checkpoint is dropped and the tree left.
RollbackTrimsOnly ==
    /\ cycle.pc = "rollback"
    /\ stack' = 1 /\ UNCHANGED tree
    /\ TryAgain
    /\ UNCHANGED <<toolVars, breaker, onBranch, straggler, start, tested>>

\* rollbackTo trims the stack to the first of the equal checkpoints.
Rollback ==
    /\ cycle.pc = "rollback"
    /\ IF ~ onBranch THEN To(IF cycle.loop = "tool" THEN "caught" ELSE "threw") /\ UNCHANGED <<tree, stack>>
       ELSE /\ tree' = Reset(tree) /\ stack' = 1
            /\ TryAgain
    /\ UNCHANGED <<toolVars, breaker, onBranch, straggler, start, tested>>

RollbackToLast ==
    /\ cycle.pc = "caught"
    /\ IF stack > 0 /\ ~ onBranch THEN To("threw") /\ UNCHANGED <<tree, stack>>
       ELSE /\ IF stack > 0 THEN tree' = Reset(tree) /\ stack' = stack - 1 ELSE UNCHANGED <<tree, stack>>
            /\ TryAgain
    /\ UNCHANGED <<toolVars, breaker, onBranch, straggler, start, tested>>

\* A runner that outlived its timer writes, whatever the loop is at.
Straggles ==
    /\ straggler = "alive" /\ straggler' = "wrote"
    /\ \E p \in Path :
         /\ IsFile(start[p]) /\ Inside(tree, p) /\ tree[p] # "dir"
         /\ tree' = [tree EXCEPT ![p] = CHOOSE c \in Content : c # start[p]]
    /\ UNCHANGED <<toolVars, cycle, breaker, stack, onBranch, start, tested>>

\* An agent's git moves the worktree off the run's branch.
LeavesBranch ==
    /\ cycle.pc \notin Over /\ onBranch /\ onBranch' = FALSE
    /\ UNCHANGED <<tree, toolVars, cycle, breaker, stack, straggler, start, tested>>

-----------------------------------------------------------------------------
CycleNext ==
    \/ \E c \in Calls : AgentCalls(c) \/ CallsDirectly(c)
    \/ Run \/ \E t \in Meddling : SomeoneElse(t)
    \/ Checkpoint \/ BreakerTrips \/ Patches \/ Patched
    \/ \E end \in {"pass", "fail", "timeout", "refused"} : Tests(end)
    \/ RecordFails \/ Rollback \/ RollbackToLast \/ Straggles \/ LeavesBranch

CycleSpec == CycleInit /\ [][CycleNext]_patchVars
-----------------------------------------------------------------------------
Changed == {p \in Path : tree'[p] # tree[p]}
Acts == call'.stage = "over" /\ call.stage # "over"
Writes == Acts /\ call'.tool \in {"fs.write", "fs.delete"}

(* No call changes git's own data or a file outside the root, whatever its   *)
(* path is called, whatever links lead there and whatever became of them     *)
(* while the call waited, but for a repository that goes with the directory  *)
(* it is in; and a write or a delete lands on the file its path leads to:    *)
(* that is what resolveInside has to work out before anything is there,      *)
(* through links to what is missing and links to links (fs.ts writablePath;  *)
(* patch.ts; paths.ts realpathThrough).                                      *)
BehindRelative(t, p) ==
    BehindLink(t, p) /\ LET k == Lstat(t, p) IN IsLink(k) /\ LinkTo[k].up # Absolute
GoesWithItsDirectory(p) ==
    call'.tool = "fs.delete" /\ \E a \in Above(p) \cap Changed : ~ NamesGitDir(a) /\ tree'[a] = "none"
StaysInside == \A p \in Changed : ~ Escapes(p) /\ (NamesGitDir(p) => GoesWithItsDirectory(p))
WritesLand ==
    [][/\ Acts => StaysInside
       /\ Writes /\ call'.end = "ok" /\ ~ BehindRelative(tree, call'.path) =>
            LET q == Opens(tree, call'.path) IN
            /\ Changed \subseteq {q} \cup Above(q) \cup {p \in Path : q \in Above(p)}
            /\ tree'[q] = IF call'.tool = "fs.write" THEN call'.content ELSE "none"]_patchVars

(* A patch reported as applied is there in full, and the paths that were     *)
(* approved are all it changed, apart from directories it made or emptied;   *)
(* one that was refused or failed wrote nothing, unless it creates a file    *)
(* where a directory is, or a file beneath another that it creates, which    *)
(* git finds out half way.                                                   *)
AllOrNothing ==
    [][Acts /\ call'.tool = "patch.apply" =>
         IF call'.end = "ok" /\ ~ call'.dryRun
         THEN /\ \A s \in Elements(call'.diff.sections) :
                   /\ s.new # Nowhere => tree'[s.new] = s.to
                   /\ s.old \notin {Nowhere, s.new} => ~ IsFile(tree'[s.old])
              /\ \A p \in Changed : p \in DeclaredFromGit(call'.diff) \/ "dir" \in {tree[p], tree'[p]}
              /\ Changed # {} => call.stage = "asked"
         ELSE \/ Changed = {}
              \/ \E p, q \in Creations(call'.diff) : At(tree, p) = "dir" \/ p \in Above(q)]_patchVars

(* A loop that reports success reports it of a tree in which the tests       *)
(* passed with the whole patch in it, unless a runner that outlived its      *)
(* timer has written meanwhile.                                              *)
SuccessTested ==
    cycle.pc = "succeeded" =>
      \/ straggler = "wrote"
      \/ /\ tree = tested
         /\ \A s \in Elements(cycle.diff.sections) : s.new # Nowhere => tree[s.new] = s.to

(* A loop that gives up leaves what it found, but for the files its patch    *)
(* created: git reset --hard does not know them, and nothing else removes    *)
(* them (RollbackManager.resetHard). The next attempt then fails on them.    *)
CycleUndone ==
    cycle.pc = "failed" /\ straggler # "wrote" /\ ~ meddled =>
      \A p \in Path : tree[p] # start[p] =>
        start[p] \in {"none", "dir"} /\ \E q \in Creations(cycle.diff) : p \in Above(q) \cup {q}
=============================================================================

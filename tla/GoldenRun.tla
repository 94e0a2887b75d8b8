----------------------------- MODULE GoldenRun -----------------------------
(* `maf goldens run`: a corpus of tasks, each tried several times by one     *)
(* harness in a directory of the suite's own. An attempt works on a copy of  *)
(* the task's fixture, its calls pass the policy, the change it leaves is    *)
(* measured and then judged by the task's verifiers. The suite is attested,  *)
(* scored and stored, and its result is compared with another.               *)
EXTENDS PolicyEngine, Pipeline

CONSTANTS
    Suites,    \* what a suite is run with: corpus, bundle, policy, agent, caseInsensitive, attempts
    Calls,     \* the calls a model may make
    Others,    \* the results another suite may have stored
    MaxTurns,  \* maxToolIterations
    Nothing

\* A suite's policy, corpus, verifiers and scripts are lists; --attempts is a whole number.
Lists(s) ==
    /\ s.corpus \in Seq(ToSet(s.corpus)) /\ s.policy \in Seq(ToSet(s.policy))
    /\ s.attempts \in Int /\ s.caseInsensitive \in BOOLEAN
    /\ \A i \in DOMAIN s.policy : s.policy[i].priority \in Int /\ s.policy[i].action \in {"Allow", "Escalate", "Deny"}
    /\ \A t \in DOMAIN s.corpus :
          LET g == s.corpus[t] IN
          /\ g.verifiers \in Seq(ToSet(g.verifiers))
          /\ \A k \in DOMAIN g.verifiers : g.verifiers[k].kind \in {"test-script", "diff-match", "security-gate", "llm-judge"}
          /\ s.agent = "scripted" => g.script \in Seq(Calls)

ASSUME SuitesAssumption ==
    /\ \A s \in Suites : Lists(s)
    /\ Nothing \notin Calls /\ (\A c \in Calls : DOMAIN c = {"tool", "paths", "role"}) /\ MaxTurns \in Nat

VARIABLES
    pc, suite,
    task, taken,  \* the task at hand, and the turns of its attempt
    call,         \* the call at the gate, or Nothing
    graph,        \* what the suite's graph holds: the tools that were invoked, and "Failure"
    counts,       \* the policy's verdicts
    decided,      \* history: the attempt's calls and their verdicts
    tree,         \* what differs from the fixture in the working directory
    left,         \* history: what the agent left of it
    diff,         \* the change as it was measured
    outcomes,     \* the verifiers' verdicts so far
    results,      \* per task, its attempts
    dir, stack,   \* the suite's directory; its stack: "none", "open" or "closed"
    staged,       \* the bundle in that directory
    project,      \* what the project's .maf gets: bundle, score, result
    threw,        \* the suite failed
    faulted       \* history: something failed that need not have (bound: once)

attemptVars == <<taken, call, decided, tree, left, diff, outcomes>>
suiteVars == <<dir, stack, staged, project, threw>>
goldenVars == <<pc, suite, task, attemptVars, graph, counts, results, suiteVars, faulted>>

NoBundle == [status |-> "none"]
NoProject == [bundle |-> NoBundle, score |-> Nothing, result |-> Nothing]

GoldenInit ==
    /\ pc = "start" /\ suite = Nothing /\ task = 1 /\ taken = 0 /\ call = Nothing /\ graph = {} /\ counts = NoCounts
    /\ decided = {} /\ tree = {} /\ left = {} /\ diff = {} /\ outcomes = <<>> /\ results = <<>>
    /\ dir = FALSE /\ stack = "none" /\ staged = NoBundle /\ project = NoProject /\ threw = FALSE /\ faulted = FALSE

Scripted == suite.agent = "scripted"
Rules == LoadRules(suite.policy)
Task == suite.corpus[task]

Fault == ~ faulted /\ faulted' = TRUE

-----------------------------------------------------------------------------
(* The corpus and its digest                                                 *)

\* assertGoldenTask, its fields summed up in three
GoldenTask(t) == t.wellFormed /\ t.verifiers # <<>> /\ t.provenance \in {"spec", "production-trace", "human-decision"}

AssertGoldenCorpus(corpus) ==
    /\ \A i \in DOMAIN corpus : GoldenTask(corpus[i])
    /\ \A i, j \in DOMAIN corpus : corpus[i].id = corpus[j].id => i = j

\* Every task, fixture file and rubric: what is measured against.
CorpusSha(corpus) == [tasks |-> corpus, rubrics |-> UNION {{t.verifiers[i].kind : i \in DOMAIN t.verifiers} : t \in ToSet(corpus)}]

\* loadScriptedTasks, ScriptedAdapter: a script for each task, and no prompt twice.
ScriptsLoad(corpus) ==
    AssertGoldenCorpus(corpus) /\ \A i, j \in DOMAIN corpus : corpus[i].prompt = corpus[j].prompt => i = j

-----------------------------------------------------------------------------
(* The harness, and the suite's directory and stack                          *)

HarnessRefs == [ref : {"plain", "legacy", "file", "named"}, found : BOOLEAN, current : BOOLEAN, defaults : 0..2, packaged : 0..2]

\* resolveGoldensHarness: what was named; else CURRENT, the one committed default, the one shipped.
ResolveGoldensHarness(h) ==
    IF h.ref # "plain" \/ h.current THEN h.found
    ELSE IF h.defaults = 0 THEN h.packaged = 1 ELSE h.defaults = 1

Begin ==
    /\ pc = "start"
    /\ \E s \in Suites, h \in HarnessRefs :
          LET starts == ResolveGoldensHarness(h) /\ (s.agent = "scripted" => ScriptsLoad(s.corpus)) IN
          /\ suite' = s /\ results' = [t \in DOMAIN s.corpus |-> <<>>]
          /\ pc' = (IF starts THEN "stage" ELSE "failed") /\ threw' = ~ starts /\ dir' = starts
    /\ UNCHANGED <<task, attemptVars, graph, counts, stack, staged, project, faulted>>

\* stagePromptFiles, buildRunStack: a policy or a prompt that cannot be had.
Stage ==
    /\ pc = "stage"
    /\ \/ stack' = "open" /\ pc' = "corpus" /\ UNCHANGED <<threw, faulted>>
       \/ Fault /\ stack' \in {"none", "closed"} /\ pc' = "remove" /\ threw' = TRUE
    /\ UNCHANGED <<suite, task, attemptVars, graph, counts, results, dir, staged, project>>

\* loadCorpus, computeCorpusSha: a corpus that is none, a file that cannot be read.
LoadCorpus ==
    /\ pc = "corpus"
    /\ \/ AssertGoldenCorpus(suite.corpus) /\ pc' = "attempt" /\ UNCHANGED <<threw, faulted>>
       \/ pc' = "close" /\ threw' = TRUE /\ IF AssertGoldenCorpus(suite.corpus) THEN Fault ELSE UNCHANGED faulted
    /\ UNCHANGED <<suite, task, attemptVars, graph, counts, results, dir, stack, staged, project>>

-----------------------------------------------------------------------------
(* An attempt                                                                *)

NoAttempt == taken' = 0 /\ call' = Nothing /\ decided' = {} /\ tree' = {} /\ left' = {} /\ diff' = {} /\ outcomes' = <<>>

\* runAttempt's result, and the next of the task's attempts or the next task.
EndAttempt(result) ==
    /\ results' = [results EXCEPT ![task] = Append(@, result)]
    /\ task' = IF Len(results[task]) + 1 = suite.attempts THEN task + 1 ELSE task
    /\ pc' = "attempt" /\ NoAttempt

Errored == EndAttempt([passed |-> FALSE, error |-> TRUE, left |-> {}, outcomes |-> <<>>])

\* runTask's loop: a number below one is none.
Tries == IF suite.attempts > 0 THEN suite.attempts ELSE 0

TriesLeft == Tries > 0 /\ task <= Len(suite.corpus)

\* mkdtemp comes before runAttempt's try: where it fails the suite ends, and not the attempt alone.
NoDirectory ==
    /\ pc = "attempt" /\ TriesLeft
    /\ Fault /\ threw' = TRUE /\ pc' = "close"
    /\ UNCHANGED <<suite, task, attemptVars, graph, counts, results, dir, stack, staged, project>>

\* A copy of the fixture, and a repository over it.
BeginAttempt ==
    /\ pc = "attempt" /\ TriesLeft
    /\ \/ pc' = "dispatch" /\ UNCHANGED <<task, results, attemptVars, faulted>>
       \/ Fault /\ Errored
    /\ UNCHANGED <<suite, graph, counts, suiteVars>>

\* Mutant of Emptied: what earlier attempts left in the graph stays.
Kept(g) == g

\* MATCH (n:MemoryNode) DETACH DELETE n
Emptied(g) == {}

\* dispatchTask: the role is one of the harness's, and its processors build.
Dispatch ==
    /\ pc = "dispatch"
    /\ \/ /\ graph' = Emptied(graph)
          /\ UNCHANGED faulted
          /\ IF Task.role # "unknown" /\ Builds(suite.bundle)
             THEN pc' = "turn" /\ UNCHANGED <<task, results, attemptVars>>
             ELSE Errored
       \/ Fault /\ Errored /\ UNCHANGED graph
    /\ UNCHANGED <<suite, counts, suiteVars>>

RoleTools(role) == IF role = "coder" THEN {"fs.write", "patch.apply", "fs.read"} ELSE {"fs.read"}

\* sendTurn: a script's next step; a model's any. No step is the end.
Steps == IF ~ Scripted THEN Calls \union {Nothing}
         ELSE IF taken < Len(Task.script) THEN {Task.script[taken + 1]} ELSE {Nothing}

\* dispatchTool: before_tool's processors let the call through; the role must have the tool.
Turn ==
    /\ pc = "turn" /\ taken < MaxTurns
    /\ \E c \in Steps \ {Nothing} :
          IF c.tool \in RoleTools(Task.role)
          THEN call' = [c EXCEPT !.role = Task.role] /\ pc' = "gate" /\ UNCHANGED taken
          ELSE taken' = taken + 1 /\ UNCHANGED <<call, pc>>
    /\ UNCHANGED <<suite, task, decided, tree, left, diff, outcomes, graph, counts, results, suiteVars, faulted>>

\* Where the file system puts what is written to a path.
Lands(p, caseInsensitive) == IF caseInsensitive THEN [p EXCEPT !.spelt = "same"] ELSE p

\* What the graph says to each pass of the policy; it may fail either.
Answers ==
    LET holds == IF call.tool \in graph THEN "match" ELSE "nomatch"
        asks == \E i \in DOMAIN Rules : Rules[i].memory # {} /\ BindPolicyTemplate(Rules[i].memory)
    IN  {<<holds, holds>>} \union (IF asks /\ ~ faulted THEN {<<"error", holds>>, <<holds, "error">>} ELSE {})

\* executeToolGated under the headless gate: what is not allowed does not run. Either is recorded.
GateCall ==
    /\ pc = "gate"
    /\ \E answers \in Answers :
          LET verdict == Decide(Rules, call, suite.caseInsensitive, answers) IN
          /\ counts' = Tally(counts, verdict)
          /\ \/ /\ decided' = decided \union {[call |-> call, verdict |-> verdict]}
                /\ tree' = IF verdict = "Allow" /\ call.tool # "fs.read" THEN tree \union {Lands(p, suite.caseInsensitive) : p \in call.paths} ELSE tree
                /\ graph' = graph \union {call.tool}
                /\ faulted' = (faulted \/ "error" \in ToSet(answers))
                /\ pc' = "turn" /\ taken' = taken + 1 /\ call' = Nothing
                /\ UNCHANGED <<task, results, left, diff, outcomes>>
             \/ Fault /\ "error" \notin ToSet(answers) /\ Errored /\ UNCHANGED graph   \* it cannot be recorded
    /\ UNCHANGED <<suite, suiteVars>>

\* The end of the loop: a writer must have changed something, a reader have called a tool, and a
\* writer's change is reviewed. A model may also end without an answer, or be refused; a refusal is
\* remembered.
AgentEnds ==
    /\ pc = "turn" /\ (Nothing \in Steps \/ taken = MaxTurns)
    /\ LET writes == Task.role = "coder"
           worked == IF writes THEN tree # {} ELSE \E d \in decided : d.verdict = "Allow" IN
       \/ /\ taken < MaxTurns /\ worked
          /\ left' = tree /\ pc' = "measure"
          /\ UNCHANGED <<task, results, taken, call, decided, tree, diff, outcomes, graph>>
       \/ (~ Scripted \/ taken = MaxTurns \/ ~ worked) /\ Errored /\ UNCHANGED graph
       \/ ~ Scripted /\ writes /\ tree # {} /\ Errored /\ graph' = graph \union {"Failure"}
    /\ UNCHANGED <<suite, counts, suiteVars, faulted>>

-----------------------------------------------------------------------------
(* Judging it                                                                *)

Untouched(change, files) == \A p \in change : p.spelt = "same" => p.file \notin files

\* The change is taken before any verifier runs, and so is the look at the protected files.
Measure ==
    /\ pc = "measure"
    /\ \/ /\ diff' = tree /\ pc' = "verify" /\ UNCHANGED <<task, results, taken, call, decided, tree, left, faulted>>
          /\ outcomes' = IF Task.mustNotModify = {} THEN <<>> ELSE <<Untouched(tree, Task.mustNotModify)>>
       \/ Fault /\ Errored
    /\ UNCHANGED <<suite, graph, counts, suiteVars>>

Files(change) == {p.file : p \in change}

SEVERITY_ORDER == [none |-> 0, low |-> 1, medium |-> 2, high |-> 3, critical |-> 4]
SeverityAtMost(worst, max) == SEVERITY_ORDER[worst] <= SEVERITY_ORDER[max]

\* securityScore: the worst finding; no change has none, and the scripted reviewer finds none.
Worst(change) == IF Scripted \/ change = {} THEN {"none"} ELSE DOMAIN SEVERITY_ORDER

\* The judge's answers: only a boolean "passed" that is true passes. The scripted judge passes nothing.
JudgeAnswers == IF Scripted THEN {"fail"} ELSE {"pass", "fail", "no-boolean", "unparseable", "exit"}

\* Mutant of Subject: the change as it is when the verifier gets to it.
SubjectNow(measured, now) == now

\* What diff-match and the security gate are given.
Subject(measured, now) == measured

\* runVerifier: the verdicts it may come to. A test runs in the tree itself.
Verdicts(v) ==
    LET change == Subject(diff, tree) IN
    CASE v.kind = "test-script"   -> {v.needs \subseteq Files(tree)}
      [] v.kind = "diff-match"    -> {v.mustContain \subseteq Files(change) /\ v.mustNotContain \intersect Files(change) = {}}
      [] v.kind = "security-gate" -> {SeverityAtMost(w, v.maxSeverity) : w \in Worst(change)}
      [] v.kind = "llm-judge"     -> {a = "pass" : a \in JudgeAnswers}

Asked == Len(outcomes) - (IF Task.mustNotModify = {} THEN 0 ELSE 1)

Verify ==
    /\ pc = "verify" /\ Asked < Len(Task.verifiers)
    /\ LET v == Task.verifiers[Asked + 1] IN
       \/ /\ \E passed \in Verdicts(v) : outcomes' = Append(outcomes, passed)
          /\ tree' = IF v.kind = "test-script" THEN tree \union v.leaves ELSE tree
          /\ UNCHANGED <<pc, task, results, taken, call, decided, left, diff, faulted>>
       \/ v.kind \in {"security-gate", "llm-judge"} /\ Fault /\ Errored
    /\ UNCHANGED <<suite, graph, counts, suiteVars>>

Judged ==
    /\ pc = "verify" /\ Asked = Len(Task.verifiers)
    /\ EndAttempt([passed |-> FALSE \notin ToSet(outcomes), error |-> FALSE, left |-> left, outcomes |-> outcomes])
    /\ UNCHANGED <<suite, graph, counts, suiteVars, faulted>>

-----------------------------------------------------------------------------
(* The suite's result, its bundle and its score                              *)

Some(attempts, Is(_)) == \E i \in DOMAIN attempts : Is(attempts[i])
Solved == {suite.corpus[t].id : t \in {t \in DOMAIN results : Some(results[t], LAMBDA a : a.passed)}}

\* Mutant of GoldenRunStatus: a task that was solved is forgiven its errors.
StatusOfUnsolved ==
    IF \E t \in DOMAIN results : Some(results[t], LAMBDA a : a.error) /\ ~ Some(results[t], LAMBDA a : a.passed)
    THEN "Failed" ELSE "Succeeded"

GoldenRunStatus == IF \E t \in DOMAIN results : Some(results[t], LAMBDA a : a.error) THEN "Failed" ELSE "Succeeded"

Result ==
    [corpusSha |-> CorpusSha(suite.corpus), adapter |-> suite.agent, attempts |-> suite.attempts, solved |-> Solved]

Attest ==
    /\ pc = "attempt" /\ ~ TriesLeft
    /\ \/ staged' = [status |-> GoldenRunStatus, solved |-> Solved, policy |-> InForce(Rules, counts)] /\ UNCHANGED <<threw, faulted>>
       \/ Fault /\ threw' = TRUE /\ UNCHANGED staged
    /\ pc' = "close"
    /\ UNCHANGED <<suite, task, attemptVars, graph, counts, results, dir, stack, project>>

\* finally: stack.close()
Close ==
    /\ pc = "close"
    /\ stack' = "closed" /\ pc' = IF threw THEN "remove" ELSE "copy"
    /\ UNCHANGED <<suite, task, attemptVars, graph, counts, results, dir, staged, project, threw, faulted>>

CopyBundle ==
    /\ pc = "copy"
    /\ \/ project' = [project EXCEPT !.bundle = staged] /\ UNCHANGED <<threw, faulted>>
       \/ Fault /\ threw' = TRUE /\ UNCHANGED project
    /\ pc' = "remove"
    /\ UNCHANGED <<suite, task, attemptVars, graph, counts, results, dir, stack, staged>>

\* finally: a directory that cannot be removed is only warned of.
RemoveDir ==
    /\ pc = "remove"
    /\ \/ dir' = FALSE /\ UNCHANGED faulted
       \/ Fault /\ UNCHANGED dir
    /\ pc' = IF threw THEN "failed" ELSE "score"
    /\ UNCHANGED <<suite, task, attemptVars, graph, counts, results, stack, staged, project, threw>>

\* ScoreRecorder.record: a node of the project's graph. (No Run node has this run's id.)
Score ==
    /\ pc = "score"
    /\ \/ project' = [project EXCEPT !.score = Solved] /\ pc' = "write" /\ UNCHANGED <<threw, faulted>>
       \/ Fault /\ threw' = TRUE /\ pc' = "failed" /\ UNCHANGED project
    /\ UNCHANGED <<suite, task, attemptVars, graph, counts, results, dir, stack, staged>>

WriteResult ==
    /\ pc = "write"
    /\ \/ project' = [project EXCEPT !.result = Result] /\ pc' = "done" /\ UNCHANGED <<threw, faulted>>
       \/ Fault /\ threw' = TRUE /\ pc' = "failed" /\ UNCHANGED project
    /\ UNCHANGED <<suite, task, attemptVars, graph, counts, results, dir, stack, staged>>

-----------------------------------------------------------------------------
(* goldens compare                                                           *)

Incomparable(a, b) ==
    \/ Nothing \in {a.corpusSha, b.corpusSha} \/ a.corpusSha # b.corpusSha
    \/ a.adapter # b.adapter \/ a.attempts # b.attempts

SeesawDecision(baseline, candidate) ==
    IF baseline.solved \ candidate.solved # {} THEN "reject"
    ELSE IF candidate.solved = baseline.solved THEN "no-change" ELSE "ship"

\* A name must lead to one result file, and that must be a result.
Compare(baseline, candidate) ==
    IF ~ (baseline.reads /\ candidate.reads) THEN "unreadable"
    ELSE IF Incomparable(baseline.result, candidate.result) THEN "incomparable"
    ELSE SeesawDecision(baseline.result, candidate.result)

Compares ==
    /\ pc = "done"
    /\ \E other \in Others, reads \in BOOLEAN :
          LET mine == [reads |-> reads, result |-> project.result]
          IN  pc' \in {Compare(other, mine), Compare(mine, other)}
    /\ UNCHANGED <<suite, task, attemptVars, graph, counts, results, suiteVars, faulted>>

GoldenNext ==
    \/ Begin \/ Stage \/ LoadCorpus \/ NoDirectory \/ BeginAttempt \/ Dispatch \/ Turn \/ GateCall \/ AgentEnds
    \/ Measure \/ Verify \/ Judged \/ Attest \/ Close \/ CopyBundle \/ RemoveDir \/ Score \/ WriteResult \/ Compares

GoldenSpec == GoldenInit /\ [][GoldenNext]_goldenVars

-----------------------------------------------------------------------------
(* What a rule is meant to do, without the passes: it names a path as the    *)
(* file system compares them, and it holds unless a rule before it decides.  *)

Names(rule, p) == \E g \in rule.glob : g.file = p.file /\ (g.spelt = p.spelt \/ suite.caseInsensitive)
About(rule, c) ==
    /\ rule.tools = {} \/ c.tool \in rule.tools
    /\ rule.roles = {} \/ c.role \in rule.roles
    /\ rule.glob # {} /\ rule.allowed = {} /\ rule.memory = {}

\* A rule that comes before rule i concerns the call as it is spelt, and has one of these actions.
Preceded(i, c, actions) ==
    \E j \in DOMAIN suite.policy :
        Before(suite.policy, j, i) /\ suite.policy[j].action \in actions /\ Concerns(suite.policy[j], c, FALSE)

\* A call that touches a file a rule refuses, under any spelling the file system takes for that file, is
\* not allowed unless a rule that comes first allows the very spelling; and where a Deny rule names the
\* spelling itself and no rule before it does, the verdict is Deny: no other spelling of some rule before it
\* makes it a question a person may answer (PolicyEngine.ts:171-188).
RefusalsHold ==
    \A d \in decided : \A i \in DOMAIN suite.policy :
        LET rule == suite.policy[i] IN
        About(rule, d.call) =>
            /\ (rule.action # "Allow" /\ \E p \in d.call.paths : Names(rule, p)) =>
                  d.verdict # "Allow" \/ Preceded(i, d.call, {"Allow"})
            /\ (rule.action = "Deny" /\ \E p \in d.call.paths : p \in rule.glob) =>
                  d.verdict = "Deny" \/ Preceded(i, d.call, {"Allow", "Escalate", "Deny"})

\* The attempts of a task are measurements of one thing: with the deterministic adapter, and nothing failing,
\* they come out the same, because no attempt finds what an earlier one left behind (goldens.ts:158-162, D-14).
AttemptsAlike ==
    suite # Nothing /\ Scripted /\ ~ faulted =>
        \A t \in DOMAIN results : \A i, j \in DOMAIN results[t] : results[t][i] = results[t][j]

PassedOnItsWork(a, g) ==
    LET protected == Len(a.outcomes) - Len(g.verifiers) IN
    a.passed <=>
        /\ \A p \in a.left : p.spelt = "same" => p.file \notin g.mustNotModify
        /\ \A k \in DOMAIN g.verifiers :
              IF g.verifiers[k].kind = "diff-match"
              THEN g.verifiers[k].mustContain \subseteq Files(a.left) /\ g.verifiers[k].mustNotContain \intersect Files(a.left) = {}
              ELSE a.outcomes[protected + k]

\* An attempt that was judged passed exactly when its verifiers and the protected files pass what the agent
\* left, whatever the verifiers themselves write into the working directory before or after; of a script, the
\* gate and the judge what they said is taken as it was recorded (GoldenRunner.ts:143-154).
VerdictIsOfTheWork ==
    \A t \in DOMAIN results : \A i \in DOMAIN results[t] :
        ~ results[t][i].error => PassedOnItsWork(results[t][i], suite.corpus[t])

\* What a suite leaves in the project is whole: a result or a score only beside its bundle, with every attempt
\* of every task, and the bundle says of them what happened: Failed if any of them came to no verdict, whatever
\* the other attempts of its task did, and every verdict of the policy. A suite that ends at an attempt that has
\* no directory leaves nothing, and no bundle says of it that it failed (goldens.ts:31-41, 210-233;
\* GoldenRunner.ts:133).
FailureAttested ==
    LET b == project.bundle IN
    /\ b = NoBundle \/ (\E t \in DOMAIN results : Len(results[t]) # Tries) => project = NoProject
    /\ b # NoBundle =>
        /\ b.status = "Failed" <=> \E t \in DOMAIN results : \E i \in DOMAIN results[t] : results[t][i].error
        /\ b.policy.counts = counts /\ stack = "closed"
    /\ project.result # Nothing => project.result.solved = b.solved
=============================================================================

# A formal model of MAF, the multi-agent framework

TLA+ modules of the parts of this repository whose correctness depends on order, on
what fails, or on cases too many to test: the plan scheduler, the writer lock and its
ledger, the bookkeeping that says which writer answers for a change a reader was running
beside, the gated path of a tool call, the attempts of one node, the harness store that
several processes share, the loop that evolves harnesses, the memory of a session, the
file tools and the loops that patch and test, `maf run` from its first check to its exit
with the worktree and the database it leaves, and `maf goldens run` with its policy and
its processors. TLC checks the modules on small instances; TLAPS proves the safety
properties of the scheduler, of the gated call, of the store, of the evolution loop and
of the database handle for every instance. Line numbers are those of the files under
`packages/`; `src/` is the repository's root.

## 1. Inventory

The program is a set of TypeScript packages run by one Node.js process. Code
between two `await`s runs alone; every `await` is a point at which any other
pending continuation may run. Other processes share the disk with it: agent CLIs
it spawns, `git`, other invocations of `maf`.

| Package | State it keeps | Operations | What makes it hard | What it must hold to |
|---|---|---|---|---|
| `dag-runner` | a status per node, the waiting set, the writer lock, deferred writers, the ledger of holds | dispatch, execute, retry, record a failure, release; validate a plan | releases run in microtasks after the verdict; writers share one tree; rings; a recorder that never answers | one writer at a time; nothing runnable is left behind; a verdict is final; the run ends |
| `roles` (`RoleDispatcher`) | per run: start commits, gate trees, reviewed paths, who is gating, reader brackets | runNode for writers and readers, post-coder gates, the reader change guard | each git command is an await; a reader runs beside writers; a retry clears what a guard is using | a change is excused only if some gate reads it |
| `blackboard` | entries, waiters, snapshots | set, waitFor, snapshot, restore | waiters race timers; two producers of one key | a key has one producer; a waiter is woken or timed out |
| `transcript`, `lcm`, `lcm-adapter` | entries in memory, messages and summaries in SQLite, a flush queue | append, compact, assemble a context, expand a summary, flush | compaction is awaited while entries arrive; ids of two kinds | nothing is dropped unsummarized; the recent tail stays raw |
| `approval-gate` | pending requests, ids seen, the terminal's queue | request, answer, time out, withdraw | one promise, four ways to settle it | one outcome and one record per request; an approval binds to its hash |
| `tool-loop` | turn and repair counters, breaker counters, checkpoints | gated execution of a call, agent turns, patch and test | several gates in a row, each awaited; counters at limits | no call runs without its verdicts; every executed call is recorded |
| `git-ops` | review requests, worktrees, checkpoints | review, create and finish a worktree, roll back | timers race reviewers; resets in a shared tree | one verdict per review; a worktree's work is merged or kept |
| `policy-engine` | policies in order, a tally | evaluate a call | graph queries fail; a second pass for a file system that folds case | the first match decides; no spelling gets past a refusal; an error is never an allow |
| `harness-config` | version files, index, `CURRENT` on disk | write, point, adopt, set current | several processes; a crash between renames | `CURRENT` names a complete version; an update of the index is lost only to a concurrent rewrite or a failed reading |
| `evolver` | rounds, baseline, best | digest, plan, screen, evaluate, gate, ship | rounds build on shipped results; partial failures | a shipped harness solves what its parent solved |
| `eval-harness` | a suite's directory, graph, attempts, scores | load a corpus, attempt, measure, verify, judge, score, compare | attempts share a graph and a policy engine; verifiers write into the tree that is judged | attempts measure one thing; a verdict is of the agent's work |
| `memory-graph` | the handle, queries in flight | query, close | close during a query | the handle is released once, after the last query |
| `attestation` | records, the bundle | record, finalize, verify | records after finalize | the bundle covers the calls made |
| `processors` | an ordered list | run an event through the list | soft ordering cycles; edits in place | every processor runs once, in order; the contract of an event holds |
| `planning-agent`, `prompt-injector` | none | plan, inject context | one retried model call; a token budget | plans validate; the budget is met |
| `adapters` | a child process or a request | one turn, with timeout and output cap | a child that ignores its signal | every turn ends |
| `tools`, `types` | the working tree on disk | write, delete, apply a patch, stage, commit, reset, run tests; confine a path | links, also to what is not there; the tree changes while a call waits for its approval | nothing outside the root or in `.git` is touched; a patch lands whole or not at all |
| `cli` | the wiring of one command, the settings files | run, goldens, evolve, harness, init, attest | any step may fail, and the ones before it must be taken back; a settings file changes while it is read | nothing is used after it is closed; a policy that exists is not skipped; the exit tells the truth |

How they interact. `cli` builds the graph, the dispatcher and the runner, and
calls `DagRunner.run(plan)`. The runner calls `RoleDispatcher.runNode` for each
node as its executor, reads inputs from the blackboard and writes outputs to it,
and hands out the writer lock; `isWriterForLock` says which nodes need it. The
dispatcher asks the runner's ledger which writers held the lock during a reader's
turn. An in-process node runs `InProcessAgentLoop`, whose tool calls go through
`gatedExec` (policy, approval, execution, record); a cli-tier node runs an agent
CLI that works in the tree by itself. Failures go to the recorder, which writes
the memory graph; the planner reads it in a later run.

## 2. Modules

| Module | Models |
|---|---|
| `DagRunner` | `dag-runner`'s `DagRunner.run` and `executeNode`, `NodeStateMachine`, `withRetry`, `recordFailure`, and `BlackboardStore.waitFor`/`set` as the runner uses them |
| `PlanContract` | what a scheduler promises its caller; no code of its own |
| `MCDagRunner` | plans for TLC |
| `DagRunner_proofs` | theorems about `DagRunner` and `WriterLockLedger` |
| `WriterLockLedger` | `createWriterLockLedger`, with the readers that ask it |
| `GatedCall` | `executeToolGated`, `ApprovalGate`, its terminal and headless providers, `Attestor.record` and the record of approvals |
| `MCGatedCall` | calls for TLC |
| `GatedCall_proofs` | theorems about `GatedCall`, `PatchCycle` and `FileTools` |
| `NodeAttempt` | one node's attempts: `RoleDispatcher.runNode` and `runInProcess`, `InProcessAgentLoop`, `ProcessorPipeline.run`, the gates after a writer, `ReviewGate`, `withRetry` |
| `MCNodeAttempt` | nodes for TLC |
| `NodeAttempt_proofs` | theorems about `NodeAttempt` |
| `HarnessStore` | `harness-config`'s `HarnessStore` and the commands that use it: `run`, `harness set-current`, `harness import`, and what `evolve` ships |
| `MCHarnessStore` | a small store for TLC |
| `HarnessStore_proofs` | theorems about `HarnessStore` |
| `Evolver` | `evolve`, `applyEdit`, `gateEvaluate`, `seesawDecision`, and the callbacks `cli` gives them |
| `MCEvolver` | a harness and its edits for TLC |
| `Evolver_proofs` | theorems about `Evolver`, `GoldenRun` and `PolicyEngine` |
| `TreeGuard` | `RoleDispatcher.runNode`'s tree bookkeeping, `runPostCoderGates`, `readerChangeGuard`, under the runner's lock |
| `MCTreeGuard` | which nodes a plan has |
| `TreeGuard_proofs` | theorems about `TreeGuard` |
| `LcmSession` | `TranscriptLogger`, `CompressionAgent`, `LcmStore`, `LcmEngine`, `LlmMap`, `SessionMerger`, `BlackboardToLcmAdapter` |
| `MCLcmSession` | symmetry for TLC |
| `LcmSession_proofs` | theorems about `LcmSession` |
| `FileTools` | `paths.ts`, the `fs.*` tools, `patch.apply` and what `git apply` does for it, over a tree with links |
| `PatchCycle` | the file tools through `executeToolGated` and past it; `ToolLoop`, `PatchTestCycle`, `CircuitBreaker`, `RollbackManager`, the test runner |
| `MCPatchCycle` | trees, diffs and calls for TLC |
| `Worktrees` | `WorktreeManager`, `BranchIsolator`, the `git.*` tools, and the git they run |
| `GraphHandle` | `KuzuDriver` and the statements and calls of `MemoryGraph` |
| `ModelCall` | one model call: `withRetry`, an adapter's `invoke`, `ProcessSpawner` or a request |
| `Attestation` | the signing and the verification of a bundle |
| `SettingsFiles` | `PolicyLoader`, `ConfigLoader`, `RoleRegistry`: what a settings file must say, and how it is looked for |
| `RunCommand` | `runTask`: the five modules above composed, in the order of `maf run` |
| `MCRunCommand` | layouts, settings and queries for TLC, and the properties of the composition |
| `RunCommand_proofs` | theorems about `RunCommand` and the modules it composes |
| `PolicyEngine` | the rules, the matchers, the two passes, the tally |
| `Pipeline` | the processors: their order, one pass of a hook, the contract checks, the default four |
| `GoldenRun` | `maf goldens run` and `compare`: `runGoldenSuite`, `GoldenRunner`, the verifiers, the scripted adapter, with `PolicyEngine` and `Pipeline` |
| `MCGoldenRun` | suites, policies and processors for TLC, and the property of the processors |

### DagRunner

`plan` is the validated `dag`. `status` is `NodeStateMachine`'s status; of its
values only those the runner assigns occur (`Claimed` is passed through within one
step, `Skipped` is never assigned). `stage[n]` is the `await` at which node `n`'s
`executeNode` stands. `running` is the waiting set, `runningWriters` the lock,
`deferredWriters` the nodes passed over because of it, `open`/`closed` the ledger's
holds. `board[k]` is the producer of key `k`.

One turn of `while (true)` up to its `await` is `Dispatch` or `Idle`. The inner loop
that picks candidates by `findIndex` is the set `Dispatched`, written without the
loop: the candidates in plan order until the limit. `Release` is the `finally` of
`entry.promise`. It precedes the continuation of `Promise.race` in the microtask
queue, which the module's `loop' = "scan"` at a release stands for. `executeNode` is
cut at its awaits: `InputsArrive` and `InputTimeout` end `waitFor`; `AttemptAnswers`,
`AttemptRetries`, `AttemptFails` are the executor's three kinds of answer;
`BackoffEnds` and `RecordingEnds` end the two timers. The values an executor returns
are abstracted to which output slots are truthy, since that decides what `set` writes
and where it conflicts.

### WriterLockLedger

Holds are intervals of readings of a clock that may repeat a reading
(`performance.now()` has finite resolution). A reader reads the clock when its turn
opens and when it closes, and asks later. `ranBeside` is a history variable: who
held the lock during each turn, by order of events and not by the clock.

### TreeGuard

The tree is a content per path, and `head` the tree of `HEAD`. A tree id
(`snapshotTree`) is the tree itself: ids are equal exactly when trees are. Each git
command has a step of its own at the moment it looks at the tree (`StartTree`,
`EndTree`, `GateTree`, `GateDiff`, `GatePaths`, `Answer`, `Baseline`), because agents
and tools may change the tree between two of them. `at` is where a node's code
stands; `bracket` and `result` are a reader's; `base`, `gating`, `evidence` and
`snapshot` are the maps the dispatcher keeps for writers. `diffRead`, `treeRead` and
`hidden` are history: what the gates were shown, and what was committed out of their
sight. `Edit` and `Commit` stand for agents, and are external.

### GatedCall

`stage[c]` is the `await` at which call `c`'s `executeToolGated` stands: at the
policy, at the gate, in the tool, in the write of its record to the graph. Nodes run
beside each other over one gate, one terminal and one attestor, so the calls
interleave. What a promise's settlement starts is one step with it: `ReadLine`,
`TerminalEnds`, `Timeout` and `Headless` each end with `Outcome`, that is
`waitForAnswer`'s race, `judge`, `settle` and what `executeToolGated` does next up to
its next `await`. `queue` and `prompt` are the chain of promises `turns`: the clock of
a request starts when it is shown. `inbox` is what was typed and not read; a paused
stream keeps it for the next prompt. `ask[c]` is what `approvalRequestHash` would
answer now: the input is frozen, but the array of declared paths is the tool's own,
and `AskChanges` is somebody who kept it. `None` for it is an ask that cannot be
hashed. Hashes and confirmation codes are taken as injective; an `Indeterminate`
verdict refuses as a `Deny` does and is one. `shown` is history.

### NodeAttempt

One node, from its first attempt to its verdict. `at` is the await at which its code
stands; there is no interleaving, and what is hard is the number of ways out.
`Catcher` says who catches what is thrown at a stage and `Onward` where a caller goes
on, so that each action only says what can happen at its own. A hook of the pipeline
ends in one event, in none, in an interrupt or in an error; what a processor writes
into an event is data, and the loop's tests on it are choices of the model
(`Model`, `StepEnd`). `node` is the node with its role, its harness and the gates of
its run, chosen once. A diff is empty exactly when the tree is what it was at the
node's start commit, and `verdict`, `tally` and `refusedAt` are history.

### HarnessStore

`stored`, `index` and `current` are the version files, `index.json` and `CURRENT`. Each
file is replaced by a rename, so a read sees one version of it or the next; `at[p]` is
the file command `p` touches next, and every step of a command is one read or one
rename. `job[p].ix` is the index that `pointId` has read and not yet written back. A
harness is its sha, and `IdOf` is a function because the sha covers the id. `Killed`
ends a command anywhere. The roles file is edited at any time: a run that mints it mints
any of the `Legacy` harnesses. `alone`, `steady`, `saved` and `torn` are history: whether
another command has run beside this one, whether `CURRENT` has been an operator's choice
since it began, what was last saved under each id, and which ids a `pointId` wrote back
from an index it had read before another command changed them, or could not read. Every
reading of the index may fail (`IndexReads`): `readIndex` answers a file it cannot read or
parse with an empty index. Version files and `CURRENT` changed by hand are left out: the
store recomputes the sha of a version and refuses one that does not match.

### Evolver

One round is one pass of the loop in `evolve`, cut at its awaits. A harness has an id (the
round that made it), each role's tools and prompt, its processors and its review
requirement; models, budgets and recall are not read by the gate or by a property. A
golden result is the set of tasks solved, and the corpus answers any set at any time:
measurements of one harness may differ. The critic's and the planner's answers are any
of those that parse, and the failures to. `Throws` is what no `try` catches, among it
`applyEdit` on a role the harness does not have (`NoSuchRole`, loop.ts:207). `Ship` is
`onShip`, whose two writes are `BeginShip` and what follows it in `HarnessStore`.
`first`, `proven` and `passed` are history.

### LcmSession

A message is its row, and its id its place: `created_at` orders rows as they were
inserted. A statement of SQLite is synchronous; what is awaited is the summarizer, the log
file and the turns between two messages of a batch, and at each of these anything else may
run. Every message is one token, so a budget is a count. `Summarize` is `insertSummary` in
its transaction: the links are foreign keys, and one id that is no message refuses all of
them (`Linkable`). `job[c]` is a call that assembles a context or maps over the session,
`pass` the two compactions of one agent. A process compacts by calls or by an agent
(`compactor`), as it is built with one or the other. `Mode` gives each caller the mode it
asks for a context in: `Dolt` adds cues for what was summarized, `Upward`, the default and
the only one a command wires, adds none. `gone` and `overlapped` are history.

### FileTools and PatchCycle

A path is a sequence of names below the root, and `<<"..", x>>` is outside it; a tree
gives each path nothing, a directory, a content or a link. `Opened` is the system's
resolution of a path, external; `RealpathThrough` is the code's, which has to say where
a name would lead that is not there yet, and the properties compare the two. A diff is
its sections, each with an old and a new path, and is what git reads in it: `--numstat`
and `--summary` are `Described` and `Declarable`, `git apply --check` and `git apply`
are `Checks` and `GitApplies`. A creation or a deletion is one to `--summary` only by
its mode line (`Created`, `Deleted`); a `"bare"` section has none, which `git apply`
takes for what it is. A file that is to be created where a directory is (`Stuck`), or
beneath another that the diff creates (`Apart`), git finds out half way, with part of
the diff written. A name is in one section of a diff (`OneSectionAName`), as `git diff`
writes them; what git makes of a diff that names a file twice is not modelled.

`call` is one call of a tool, `BeginCall` its way to the gate, `Run` its execution after the
answer, and `SomeoneElse` changes the tree between the two. `cycle` is one of the two loops
(`ToolLoop.runPatchTestCycle` and `PatchTestCycle.run`, which differ in what they catch and
when they give up). `Reset` is `git reset --hard` with the commit the loop started on:
files git does not know stay. `straggler` is a test run that outlived its timer.

### RunCommand, Worktrees, GraphHandle, ModelCall, Attestation, SettingsFiles

`pc` is the await at which `runTask` stands, and each of its steps may throw into
`finally` (`Finally`), which hands the worktree over and closes the stores. `hand` is
the settings file a loader is at, with what it was found to hold and what was taken of
it: a read that finds nothing is followed by a look at the name, and `SomeoneEdits` may
come between. `Worktrees` has the user's checkout (its branch, and which branch its HEAD
is on), the run's branch and a task's, each a history of commits, and the worktree:
where its HEAD is, its index, its files, and its `.git` link. With the link gone git
climbs to the user's repository, with the link rewritten it finds the user's repository
at the same top; every operation says what it would then work on (`HeadName`, `HEAD`,
`Index`, `Move`), so that a check left out shows as a move of the user's branch or HEAD.
A check of the code is in the guard as the code makes it: `assertInWorktree` and
`assertOnRunBranch` compare the top and the branch (`InWorktree`, `OnRunBranch`), the
git tools the repository too (`GitToolServes`). What git itself refuses is there as
well, a branch that another checkout holds (`HeldElsewhere`) and a checkout over
uncommitted work (`CanCheckOut`). A `git worktree add` that fails may have made its
branch (`AddFails`). `GraphHandle` is the driver's count of native work in flight,
`ModelCall` the planner's call. What becomes of a bundle on disk is not a step:
`VerifiedIsSigned` looks at every edit and every foreign bundle when the bundle is
written. Two hashes and two names are the diffs of a run.

### PolicyEngine, Pipeline, GoldenRun

A path is a file and the case it is spelt in, and a glob a set of these; a file system
either folds case or does not. What the graph answers to a rule's query is a choice per
pass, and it may fail. An event is its hook, its read-only part and its open part, of which
`before_model`'s is the history; a processor is what it makes of the object it is handed
and what it yields, the object or a copy, because the checks go by object (`Own`).
`GoldenRun` follows `runGoldenSuite` from the harness it resolves to the file it writes: an
attempt's calls pass `Decide`, change the tree where the file system puts them, and are
remembered by the graph that the policy asks; then the change is measured and each
verifier has its verdict, a test by running in the tree. The agent is the scripted one or a
model that may make any call. `Fault` is any one step failing; one that cannot make the
directory of an attempt (`NoDirectory`) is outside the attempt's `try` and ends the suite.

## 3. Runs

| Run | Question | Bounds |
|---|---|---|
| `scheduler` | are writers serialized, does the runner implement `PlanContract`, and does every run end | 4 nodes, 2 keys, limit 3, five plans |
| `ledger` | does the ledger name exactly the writers that overlapped, in order | 3 writers, 1 reader, a clock of five readings |
| `tree_guard` | can a run succeed with a change no gate read | 2 writers with a retry each and a reader that may write, or 1 writer, a reader and a cli reader; 1 path, 2 contents, 1 edit each |
| `gated_call` | is what runs permitted, what is approved what was shown, and every call on record once; is every escalation answered | 3 calls: two identical, two under one id; 1 typed line; 1 ask changed at a time |
| `node_attempt` | however an attempt ends: is the end observed and the change read once, is a success judged and done, is a refusal final, does the node end | every role, gate and bundle (197 nodes); 2 attempts, 2 turns, 1 repair, 1 call a turn |
| `harness_store` | does every name resolve, is what a killed command left repaired, are updates of the index kept | 2 commands at a time, in any number one after another; 4 harnesses under 2 ids |
| `evolver` | is anything solved ever given up, is what ships what was examined | 3 rounds, patience 2, 3 tasks of which one is judged by a model only, 13 manifests |
| `evolver_unapproved` | is an unapproved edit of a safety-adjacent role kept from evaluation (no) | as `evolver` |
| `session` | is anything forgotten that was not summarized, or marked that cannot be had back; is history compacted from its old end; is anything written twice; does a context reach what it leaves out | 2 entries, 1 key, 2 flushers, 2 callers, 4 messages, 3 summaries, a tail of 1, chunks of 2, 2 cues, a caller of each mode |
| `patch_cycle` | do writes stay inside and land where they lead, do patches land whole, does a loop end tested or undone | 43 trees of 14 paths with links up to 2 deep, 19 diffs, 4 of them in the loops, 1 change by somebody else; 2 iterations, 4 attempts, 2 errors, 3 and 1 of them perhaps spent |
| `run_command` | is the user's branch left alone, is an offer whole, is a refusal clean, is the exit true, is a settings file skipped, is a bundle valid exactly as signed, is the database released | 3 layouts, 1 commit by the agent, 1 move of the user's, 1 change of each settings file, 2 statements, 1 query, 2 attempts of the planner's call |
| `goldens` | do refusals hold under any spelling, are attempts alike, is a verdict of the work, is what is stored whole and true; does the pipeline keep its contract and its order | nine kinds of suite of 1 or 2 tasks and 1 or 2 attempts, 3 turns, 6 policies, 2 kinds of file system, 1 fault; every pair of 105 processors, every list of three for the order, every bundle of up to four of the default ones |

The plans of `MCDagRunner` are the shapes that matter to the lock and the loop: two
independent writers, one of which retries; a diamond whose middle the lock orders; a
ring; a writer that waits, lock in hand, for what a blocked writer would produce; and
colliding outputs. Four nodes and a limit of three leave room for two writers, a
reader beside them and one node waiting for a slot. In the ledger three readings
suffice for a tie at each end of an interval and a reading strictly within. In
`tree_guard`, one path is enough because every rule treats paths one at a time except
the set comparison, and that is refuted or kept by one path being in or out; a second
writer is what lets the lock pass on while a reader asks.

In `gated_call` one typed line is enough to be typed for one prompt and read by the
next, to answer a prompt whose ask has changed, and to race a timeout.

In `node_attempt`, two attempts are what it takes for one to inherit from another, two
turns for a loop to fail after a call of an earlier turn ran, and one repair for repairs
to be spent. Calls of a turn are made one after another, so a second call of a turn adds
nothing a second turn does not.

In `harness_store`, two texts of the roles file are what it takes for a mint to differ
from what is stored, and two harnesses under one other id, one of them committed, for an
import to be refused and for a save to move an id. Two commands suffice for a lost
update; a third adds another reader of the same files. In `evolver`, three rounds are
what it takes to ship, fail and ship again, or to ship and then lose patience; the
manifests have one edit for each way through the gate, a role that does not exist, a
target that is no longer in the corpus and no target at all.

The properties are each preceded by a comment that says what they are about.
`WritersSerialized` is the scheduler's; `ImplementsContract` maps it to `PlanContract`,
which also says that verdicts stand, that the limit holds and that nothing startable is
abandoned. `AnswerTrue` is the ledger's: nobody is missing, the order is right, and what
is extra is extra by a tie. For the tree guard the claim one would want, that a
successful run leaves no change that no gate read, is false for the code (section 5);
`ReadUnlessOutOfSight` says exactly when it fails: the path was committed out of a
gate's sight, or a reader changed it and put it back.

`NamesResolve`, `LoneCommandTakesEffect` and `NamesKept` are the store's: what holds of
the files at every moment, that nothing a killed command leaves needs repair by hand,
and exactly which updates can be lost. The claim one would want in place of the last,
that none is, is false: `index.json` is read, changed and renamed over without a lock,
and one that cannot be read counts as empty. `torn` names both ways (section 5).
`NothingUnsolved` is about many rounds, where the code's checks are each about one.

`NothingLost` joins what a summarizer may mark to what an agent may forget;
`OldestFirst` and the second half of `NothingLost` except two passes of one agent side
by side, for which the code does lose entries (section 5). `ContextReaches` says of a
context what `assembleContext` can hold to, in each mode: not that its tail is fresh,
which is false, but that what it leaves out is newer than the tail would be, or is under
a summary. In `Dolt` that is one the context carries a cue for, unless the cues ran out;
in `Upward` the context carries none, and the history is in the store only. `WritesLand`
compares the code's resolution of a path with the system's in every tree; it excepts a
relative link behind another link, for which they differ, and even there says that
nothing outside the root is touched, and nothing in `.git` but for a repository that
goes with the directory it is in (`StaysInside`). `CycleUndone` says what a loop that
gives up may leave: the files its patch created. `OfferIsWhole`, `UserUntouched` and
`RefusedLeavesNothing` are the promise of `WorktreeManager`. `UserUntouched` is about
the user's branch without exception; the branch the user's checkout is on may change in
one way, by `BranchIsolator` behind a rewritten link. `RefusedLeavesNothing` excepts a
`git worktree add` that failed: it may leave its branch, at the base, with none of the
run's work. `EndsReleased` is the liveness property of the command: it exits, and by
then or after the last query the database is freed, unless a child that was signalled
never closes (`ChildHangs`), which the code allows. `FailureAttested` is about suites
that got through their attempts: one that ends before stores nothing and attests
nothing. `AttemptsAlike` is what a pinned corpus is for, and `VerdictIsOfTheWork` what
keeps a test's log out of the change that is judged.

In `session`, four messages are a tail and a chunk with one to spare on either side, and
a compacted session that is compacted again; three summaries are what two callers and a
compaction make of it. In `patch_cycle`, two links suffice for one behind the other, and
two iterations for the second to find what the first left. In `run_command`, the user's
move is the removal of the project from a repository whose top is above it, since that
is what the steps of `createForRun` look at twice; it may fall anywhere before the base
is read, after which the run reads the user's branch through a rewritten link only. The
user's index is taken as clean: behind such a link it is the user's own uncommitted work
that git would look at besides. In `goldens`, two attempts are what it takes to be
alike, two tasks for one to leave something to the next, and three turns for a call, its
other spelling, and the end.

Deadlock is checked except in the scheduler's runs, where `run()` returns and nothing
follows, in the ledger's, which stops at the last reading of its clock, in `gated_call`,
where every call has ended, in `node_attempt`, where the node has, in `evolver`, where
the evolution has, in `session`, whose bounds on rows end it, in `patch_cycle`, where a
loop or a call is over, in `run_command`, where the command has exited, and in `goldens`,
where the suite has ended.

### Fairness

`FairSpec` of `DagRunner` assumes weak fairness of the loop's own turn, of releases
and of timers (microtasks and timers of the event loop run), and of an executor's
answer: every executor bounds its own turn, a CLI by its process timeout, an
in-process loop by its turn budget. It does not assume that the recorder answers nor
that a blackboard key is ever produced: `RecordingEnds` and `InputTimeout` are the
timers'. The answer of an executor is where this is more than the code does: a cli node's
child that ignores the signal sent at its timeout never closes, and `RunReturns` does not
hold of a plan with such a node (see `RunCommand` below).

`FairSpec` of `GatedCall` assumes that the next prompt is shown when the terminal is
free (a microtask), that the gate's timer fires, and that the headless provider's two
calls to the file system answer. Nobody is assumed to type.

`FairSpec` of `NodeAttempt` assumes that the node's own code goes on: a backend, a
model and a tool answer or time out, and the review's timer fires. Of a cli backend this
has the same limit: a child that ignores its signal. The reviewer is not assumed to answer.

`Fairness` of `RunCommand` assumes that the command goes on when it can, that native
queries answer and what is waiting for the schema goes on, and that the planner's call
times out and is retried. It does not assume that a child closes, signalled or not: a
child is sent SIGTERM once, and one that ignores it holds the run for ever
(`ProcessSpawner.ts:93`), which is what `EndsReleased` excepts. That the
plan's own run ends is taken from `DagRunner` (`RunReturns`), with what is assumed there
of an executor.

## 4. What is proved

`DagRunner_proofs`, for any number of nodes, any keys, any limit and any set of plans:

* `OneWriter`: `WritersSerialized`, the safety invariant of `scheduler`;
* `Refinement`: `Spec => Contract!Spec`, the run's `ImplementsContract`;
* `TypeCorrect`, `WaitingSet` (the set the loop races is what has not settled),
  `NoneAbandoned` (when the loop has returned nothing startable is left), `LedgerFaithful`
  (the ledger agrees with the lock) and the action property `VerdictsFinal`. What these say
  is checked by TLC as parts of the contract, and stated by itself only here;
* `LedgerTellsTheTruth`: `AnswerTrue`, the invariant of `ledger`, for any writers, readers and
  readings of the clock.

`GatedCall_proofs`, for any calls, ids, hashes and number of lines: `PermittedOnly`,
`ApprovalsAsShown` and `Complete`, the three invariants of `gated_call`, with
`TypeCorrect` and `OneDecision` (an escalated call that left the gate has one decision,
and nobody is asked twice under one id). And, for any trees, paths, links, diffs, calls
and limits: `SuccessIsTested`, `FailureIsUndone` and `PatchAllOrNothing`, three of the
four properties of `patch_cycle`, with `CallsStayInside`, the first half of the fourth:
what no call ever changes, whatever links lead there.

The scheduler's assumptions are `NodesAssumption`, `LimitAssumption` and
`PlansAssumption`, which `validateDag` establishes before anything is dispatched.
Nothing is assumed of the dependencies: rings and self-dependencies are plans like any
other, as in the code.

The scheduler's inductive invariant `IInv` is the conjunction of the type invariant with

* `StatusAgrees`: a node's status follows from its stage, and the other way round
  (why `Release` never meets a node without a verdict);
* `ViewsAgree`: the waiting set, the lock and the open holds are all functions of the
  stages: without it the properties say nothing of what the next scan will read;
* `WritersSerialized`, and `HoldsEnded`: a closed hold is a released writer, once;
* `Limit` and `AwaitsSomething`: what makes a race winnable;
* `DependenciesHeld`: a node beyond `Unclaimed` had its dependencies succeed;
* `Over`: when the loop has returned nothing is ready and nothing runs.

`Dispatched` needs a counting argument: of a finite set of nodes with fewer than
`Free` before each, at most `Free` are taken (`FirstFew`, by the last node taken,
`LastNode`). That is a lemma about sets of numbers, proved once.

The ledger's invariant `LedgerInv` adds to the answers what makes the next one true:
times are in order and one hold at most is open (`HoldsTimed`, `TurnsTimed`), whoever
ran beside a turn has a hold that the answer will find (`BesideHeld`), and a hold that
overlaps the turn by more than one reading is of one who ran beside it (`HeldBeside`).
The answer is a selection from the closed holds; `PlacesListed` numbers the places of a
finite set in their order, and from it follows that the selection lists them once each.

The gated call's `IInv` adds to the type invariant

* `CallOK` of each call: what has been bound, decided, recorded and done by the stage
  it stands at (`ByStage`, `Recorded`, `Decided`);
* `OneRequest`: a bound request's id is in `seen`, and no other call's;
* `Prompts`: the prompt and the queued calls are at the gate, each once, and only the
  prompt of these has been shown;
* `Lines`: a code can be typed only once its prompt was shown, so a line that would
  approve the present prompt was typed under it. This is what `ApprovedAsShown` needs
  of the past, and why the code is made of the id as well as of the hash.

Its assumptions (`AsksAssumption`) say what `None` is not. A step of a call that is
not at the gate leaves the shared state alone (`AloneKeeps`), and the four ends of a
wait share `OutcomeKeepsCalls`.

Of the patch cycle the lemmas about what git writes come first. What is let through and
passes `--check` (`Checked`) names what is there: `ChangesFiles` says that what a
section changes or deletes is a file in a directory, since anything else either
`refuseSymlinkTargets` or git's check has refused; `ParentIsDir` the same of what is
above a new name. From these follow what a whole application leaves (`AppliedWhole`),
that any part of one is made of declared names and directories (`AppliedWithin`,
`AppliedInside`), and that git stops half way only for the two reasons `AllOrNothing`
names (`HalfWay`). `PatchEnds` then lists how a call ends, and `PatchAllOrNothing` is
that list for every step that ends a call; it needs no invariant but that a call is a
call (`CallKnown`). `CallsStayInside` is the same for every tool: what `fs.write` and
`fs.delete` change is the path that `writablePath` judged, what is above it or beneath
it (`WrittenInside`, `DeletedInside`), a patch changes what `AppliedInside` says, and a
reader nothing. It holds whatever the resolution of that path computes.

The invariant of the loop, `CycleInv`, has three parts. `Cycling`: a call waits only
where one was made, the loop's own is its patch, and a checkpoint is on the stack
wherever a rollback may look for one. `Landing`: at the test the whole patch is in the
tree. `Undoing`: what a reset would not give back is the patch's own creations.
`CycleUndone` alone is not inductive, because it speaks of the end only: while the loop
runs, HEAD's files may be in any state, and what must be kept is that every path a reset
leaves alone (`Loose`: none of HEAD's files, nor above or beneath one) is as it was or
kin to a creation. `UndoableApplied` keeps that through any part of any patch, and
`UndoneByReset` turns it into `Undone`. `PatchAssumption` says of the constants that
paths are sequences of names, that no content is called "none" or "dir", that what is in
a tree to start from is in a directory, that a call is of a tool there is, and that a
diff is one section a name.

`HarnessStore_proofs`, for any processes, harnesses, ids and committed or imported
files: `Resolving`, `UpdatesKept` and `Repairing`, the three properties of
`harness_store`, with `TypeCorrect` and `ChoicesStand` (a run under a standing choice
runs it). `FilesOK` is the invariant of the files: what is indexed is stored, under its
own id, and so is what an index read earlier says (`Resolves`), and a command past its
save holds a stored harness (`CommandOK`). A reading of the index that fails reads
nothing, which resolves as well as any. On it rest three more, each inductive with it:
`SteadyOK` (a standing choice is what `CURRENT` is, and a run under one does not get to
move it), `NamesKept` itself, and `LoneOK` (what a command has to itself by the file it
touches next). What one command does leaves what is known of the others alone
(`OthersKeep`), which is why the number of processes does not matter. The assumptions
(`IdsAssumption`, `FilesAssumption`) say that `None` is no harness, and that no legacy
harness is evolved.

`Evolver_proofs`, for any harness, corpus, gate parameters, planner, rounds and patience:
`NoRegression` and `ExaminedShips`, the two invariants of `evolver`, with `TypeCorrect`,
`SurfaceStays` (the review requirement and the safety-adjacent roles stay through any
number of ships) and `ReportIsTrue`. `IInv` says what a round has by the await it stands at
(`RoundOK`: above all that what is being shipped passed the gate against this base and this
baseline) and where the counters stand (`CountersOK`). `GateShips` is the lemma about the
gate: when it answers ship, the child solves what its parent did and inherits its surface
(`Inherits`); the theorems are that lemma through any number of rounds. `ReportIsTrue`
counts the ships on record by one lemma about appending to a sequence (`OneMoreRound`).

The same module proves four of the five invariants of `goldens`, for any suites,
policies, scripts, verifiers, processors, turns and calls: `Refusing`,
`VerdictsOfTheWork`, `MeasuredAlike` and `FailuresAttested`. All four rest on
`TriedInOrder`, which says how far the suite is by the task at hand and the attempts on
record. `FailuresAttested` needs `Stored` (what has been put in the project so far, step
by step, and that a bundle said Failed only if a fault was met; a suite that ends
between its attempts, or at one that has no directory, has staged no bundle), and
`VerdictsOfTheWork` needs `Judging`: up to a verifier's turn its verdicts are of the
change as it was measured, not of the tree the tests have written into. `MeasuredAlike`
says that a scripted attempt's result is a function of the suite and the task;
`Expected` is that function in closed form (which calls of the script the role may make,
what the policy says to each given what the graph has by then, what they write, what
each verifier says), and `Determined` that an attempt, wherever it stands, is on its way
there. No operator counts or folds in it: what the first `n` calls did is a set indexed
by `1 .. n`, and one lemma each says what one more call adds (`OneMoreCall`,
`SkippedCall`, `OneMoreVerifier`). `SuitesAssumption` says that corpus, policy,
verifiers and scripts are lists and `--attempts` a whole number; a negative one is no
attempt.

`NodeAttempt_proofs`, for any nodes, contents, attempts, turns, repairs and calls: the
three invariants of `node_attempt` as `AttemptIsReadOnce`, `SuccessIsJudgedWork` and
`RefusalIsFinal`, with `TypeCorrect`. None of the three is inductive: each speaks of the
end of an attempt or of the node, and what the end finds was laid down stages before.
`IInv` says it stage by stage: which stages a caller can come back to (`Control`), how
often the end has been observed and the change read so far (`EndsOnce`, `ReadsOnce`,
`WriterRead`, `ReaderRead`), what has been judged of the tree as it now is (`Judged`),
which calls stand behind a success (`Worked`), and that a node that was refused is on its
way to the end (`Refused`). One leaf per action and part, since a handler disturbs few of
them. The assumptions are those of the code's constructor: the bounds are positive, and
only a writer is expected to change anything (`RoleRegistry`).

`TreeGuard_proofs`, for any writers, readers, paths, contents, numbers of edits and
retries: `ExcusedWasRead` and `NoChangeUnread`, the two invariants of `tree_guard`, with
`TypeCorrect`. The argument for `NoChangeUnread` runs along three trees. As long as no
node has failed, every path of the last commit (`HeadCleared`), of every baseline
(`BaseCleared`) and of the working tree (`TreeCleared`) is as it was, was read by a gate
on that content, was committed out of sight or put back by a reader, or somebody is named
who has yet to look at it: a writer before its diff, or a reader that is still in its turn
or holds the path in its bracket. A gate's diff clears the tree because its baseline is
clear (`DiffClears`). For rule (b), `ReadFor` keeps what the reader captured at the moment
it captured it: the gate tree it compares, not the one the writer's retry may meanwhile
have put in its place. `Locked`, `Equipped`, `Counted` and `ToGate` tie the writers to the
lock and to what they have in hand. Section 5 says why the property needs its exceptions.

`LcmSession_proofs`, for any entries, keys, flushers, callers, chunk size, tail and number
of cues: `SummariesLoseNothing`, `HistoryFromItsOldEnd`, `NothingTwice` and
`ContextsReachAll`, the four invariants of `session`, with `TypeCorrect`. `IInv` adds to
them that the links of summaries are to messages and summaries that are there (`Linked`),
that what an append holds is not yet written (`Transcript`), that queue, batches, rows and
losses are apart (`Board`), that the chunks a call has left are in the order of history
and cover what its context leaves out (`Jobs`), and that what an agent was fed and has not
summarized is the young end of the session, with the passes under way at its front
(`AgentOK`). Two things carry the proof. `Grows` is what no statement of the store undoes
(rows stay, marks expand to at least what they did), so that what a caller read before an
await still means something after it. And since the agent counts what it was fed while the
store numbers its rows, the two are related by ranks in a finite set, for which the
counting lemmas at the head of the module stand (`PlacesTaken`, `PlacesCut`, `RankTaken`).

`RunCommand_proofs` is about `maf run` as a whole, for any layouts, settings, queries,
schema, commits, retries and diffs. `OfferedWhole`, `RefusalLeavesNothing` and
`ExitIsTruth` rest on one invariant: `GitOK` types the repository and says that HEAD is
on a branch that is there, and `RunOK` what the command has by where it stands (no
worktree before it is added, nothing left behind a refusal but the base of a failed `git
worktree add`, an attested outcome, a hand-over that put the work on its branch:
`HandOver`). `UserStands` is the action property `UserUntouched`: `AgentKeepsGit` goes
through what an agent, its git tools and its commands can do to a worktree whose link
and HEAD they may have broken, and `FinishKeepsGit` through the hand-over. `GitOK` says
why a move of HEAD never is one of the user's branch: git work that moves it runs in the
run's own repository or on the run's branch, whichever checkout has that out; and by
`UserKept` the checkout of the user leaves its branch by `BranchIsolator` only.
`ValidIsSigned` is the action property `VerifiedIsSigned`: the lemmas `JudgeParts`,
`StatementValid` and `FlatValid` say when a bundle of each form is valid,
`SubjectsMatch` that the subjects and the digests of a statement agree whatever was
recorded, and `JudgedRight` joins them for every edit. `SettingsStand`
(`NothingSkipped`) says of the loaders that whatever is edited between their two looks
at a name, a default stands for what was not there and a document for all it says;
`AllRulesRead` is its lemma about a policy's list of rules. `FreedWhenIdle`
(`ReleasedWhenIdle`) needs besides that nothing is under way before the database is
opened (`IdleOutside`).

What these assume besides: `None` is no tree, node, history, worktree, bundle or name of a
failure (`KindsAssumption`, `NoneAssumption`, `NoNameAssumption`, `NoBundleAssumption`); a
layout and a policy have their parts (`LayoutsAssumption`, `PoliciesAssumption`); sizes
and limits are numbers, positive where the code would loop on zero (`SessionAssumption`,
`BoundsAssumption`). TLC evaluates each.

Only model-checked: liveness (`RunReturns`, `EscalationAnswered`, `NodeEnds`,
`EndsReleased`), which is beyond the prover, as `ENABLED` is. The second half of
`WritesLand`, that a write lands where its path leads: it compares two resolutions of a
path, each a recursive function through links, and what such a function computes is an
induction the prover cannot do; `CallsStayInside` is the half that needs none.
`PipelineKept`, because a pass through the processors is a fold.

## 5. Findings

| Run | What the code does | Where a comment says otherwise |
|---|---|---|
| `evolver_unapproved` | a revised manifest is evaluated whatever role it edits, without approval | `loop.ts:45` |

The rest was seen while modelling and has no run. Where a property had to be stated around
one of these, it is named.

**The scheduler and the tree.** `run()` can return while a failure is being recorded, when
another node was in flight as it failed (`DagRunner.ts:184`, against 42). What an agent
committed and then took out of the tree is in no diff (`RoleDispatcher.ts:1288`, against
656-658), and a reader that puts a writer's change aside while its gate reads, and restores
it, has equal snapshot ids and is not asked about (`RoleDispatcher.ts:1011`): the two
exceptions of `ReadUnlessOutOfSight`. Rule (a) names the writer that holds the lock when the
reader asks, also for a change that an earlier writer, since released, made and committed,
so the named writer's diff is without it (`RoleDispatcher.ts:1187`, against 1079-1080). The
gate snapshots the tree and reads the diff it judges a git command later; a change undone in
between is in the recorded tree, which rule (b) excuses, and was never judged
(`RoleDispatcher.ts:1288`, against 1284-1285). A retry of the named writer, begun while rule
(b) awaits git, clears the gate tree that the record of the attribution should name
(`RoleDispatcher.ts:1062`). A writer whose attempt fails before its try block holds the lock
until its failure is recorded, and rule (a) names it although no gate of it will run
(`RoleDispatcher.ts:1020`).

**A node.** An in-process reader whose loop reports failure skips the change guard, and its
diff is not recorded (`RoleDispatcher.ts:786-790`, against its own comment). A cli backend's
change is read by nobody when the transcript or the LCM fails between its answer and the
review (`RoleDispatcher.ts:796`, against 743-745). An in-process loop that runs out of turns
reports one step more than it took (`InProcessAgentLoop.ts:199`). A pinned temperature never
reaches a turn of an in-process node: the dispatcher pins it on the request
(`RoleDispatcher.ts:45`, 743), and the loop builds requests of its own
(`InProcessAgentLoop.ts:294-306`). `specToDag` keeps a plan's `edges`, and the runner reads
`node.dependencies` only.

**The store and evolution.** `adoptLegacy` reads `CURRENT` before it decides to move it:
an operator's `set-current`, or an evolve's ship, that falls between the two is undone
(`store.ts:74-76`, against 61-62). With `approveSensitive` an edit of a safety-adjacent
role is evaluated, and still answered `needs-approval` by the gate (`gate.ts:78`), so it
cannot ship. Instructions are screened by the gate after the corpus was run under them
(`loop.ts:222`, against `gate.ts:69`). A critic that asks for a second revision is taken
to have passed (`loop.ts:199`). A baseline is found in the memory graph by the harness's
sha alone: one that names a task no longer in the corpus rejects every candidate until
another is measured (`loop.ts:89`). A failed reading of the index lets the next save
write one that has its own name alone (`store.ts:269`), the second way of `torn`; and an
import whose check of the bound id is such a reading repoints an id that is bound to
other content (`harness.ts:121`, against 114-116).

**A session.** The tail `assembleContext` shows is the oldest of the messages, where the
comment says fresh (`LcmStore.ts:109`, against `LcmEngine.ts:65`): `ContextReaches` is
stated for what it does. With the mode that is wired (`ConfigLoader.ts:50`,
`wiring.ts:121`) a context carries no cue, so what was summarized reaches no prompt
(`LcmEngine.ts:67`). `getUncompacted` counts every message for its limit and then takes
the unsummarized ones, so a second compaction eats into the tail that was to stay
(`LcmStore.ts:141-142`); of the ghost cues the oldest are kept. The transcript says its
entries and the LCM's messages have the same ids (`TranscriptLogger.ts:75`); they do
not, so every compaction an agent attempts is refused by a foreign key, and the refusal
is swallowed. If it were not, two passes of one agent side by side would drop entries
that neither summarized (`CompressionAgent.ts:53`): the exception of `NothingLost`.

**Files and patches.** A relative link behind another link is resolved from its name and
not from where that leads (`paths.ts:123-125`); what is then judged is another place
inside the root, and `WritesLand` shows that nothing outside it is reached. A recursive
`fs.delete` looks at the path it is given and not beneath it, so a repository nested in
a directory goes with it, where the refusal says that the tools never delete git's own
data (`fs.ts:56-57`); the worktree's own `.git`, which is what that sentence is about,
is in no such directory. A patch that removes a directory's last file and then needs the
directory, or that creates a file and another beneath it, is refused half way, with half
written (`patch.ts:662-665`, which says so). A rollback leaves the files a patch
created, and the next attempt at the same patch fails on them. An open breaker, or a
refused call, ends a loop with its patch in place, since only other failures roll back;
a test run that outlived its timer may write after the rollback. `ToolLoop` goes from
`Retrying` to `Testing`, which `LoopState`'s table of valid transitions forbids.

**`maf run`.** A child that ignores the one SIGTERM of its timeout keeps its call, and
the run, for as long as it likes (`ProcessSpawner.ts:93`, against `ConfigLoader.ts:13`,
"`timeouts` bound the planner's call"): the exception of `EndsReleased`. Behind a `.git`
link rewritten to the user's repository `assertInWorktree` passes, since it compares the
top and not the repository, and a checkout of `BranchIsolator`, which no command
constructs, moves the HEAD of the user's checkout (`WorktreeManager.ts:94`,
`BranchIsolator.ts:65`, against `BranchIsolator.ts:23` and `WorktreeManager.ts:79-80`):
the exception of `UserUntouched`. `git worktree add -b` makes the branch before the
checkout, and nothing takes it away when the checkout fails
(`WorktreeManager.ts:176-180`): the exception of `RefusedLeavesNothing`.
`assertOnRunBranch` passes behind a link rewritten to the user's repository when the
user's checkout has the run's branch out, and `finish` then commits there. `finish`
counts the commits after the base: an agent that reset its branch to an ancestor has
none, and its hand-over is a `no-change` (`WorktreeManager.ts:230-232`). In a repository
that tracks its runtime state and ignores it too, `git add` refuses the exclusion and
every hand-over of a success throws. A child killed at its output cap that exits with 0
has succeeded, with what it said cut short (`ProcessSpawner.ts:72-79`). `worktree
remove` deletes every branch `maf/<run>-*`, also of another run whose id begins alike,
unless it is checked out; and git removes no worktree whose link is broken.

**Policies, processors, goldens.** A working directory that cannot be made ends the
suite and not its attempt (`GoldenRunner.ts:133`): nothing is stored, and no bundle says
that it failed. A rule with a query asks the graph about the first declared path only
(`evaluateCypher`). `checkUnmodified` takes a symbolic link for unchanged when there was
one before. A suite's result file is named by harness and adapter, so a second
measurement replaces the first. The pipeline's error for a cycle of soft orderings
cannot be reached. `maf` builds the default processors only
(`createDefaultProcessorRegistry`), so what `PipelineKept` says of any processor is a
promise of the exported library.

**Unused classes.** Nothing under `packages/*/src` constructs `CompressionAgent`,
`LlmMap`, `AgenticMap`, `SessionMerger`, `FlushOnSnapshot`, `ToolLoop`,
`PatchTestCycle`, `RollbackManager`, `BranchIsolator`, `LoopStateManager`, `RunMerger`,
`ViolationHandler` or `BlackboardSqlitePersistence`. Those that are modelled are
modelled as a caller of the package would use them.

## 6. Plan

What could be added, in this order:

1. Proofs. `PipelineKept`, with a pass of the pipeline as steps instead of a fold; of
   `WritesLand`, that a write lands where its path leads. A `TypeOK` of `RunCommand` as one
   formula, in place of `GitOK`'s parts.
2. The tree guard: an invariant in place of `PutBack`, the exception that
   `ReadUnlessOutOfSight` makes.
3. `GoldenRun` under `Evolver`, in place of the corpus that answers any set.

### Not modelled

* Blackboard snapshots and their persistence in SQLite: only `FlushOnSnapshot` takes one,
  and no command constructs it.
* `DagParser`'s reading of a plan; a plan is what `validateDag` let through.
* `prompt-injector`, the wording of prompts, and the formats (JSON, YAML, Cypher, provider
  payloads): text, without state. Hashes and signatures are taken as injective.
* `AgenticMap`, `RunMerger`, `ViolationHandler`: loops over calls that are modelled elsewhere.
* `maf init`, the in-process demo and the terminal's layout: one pass over files.

What the models leave out of what they do model: a run in the user's own directory
(`--no-worktree`) has no worktree to protect, so an agent's edits there are not steps; an
agent's processes are assumed gone when its turn ends; the breaker's window of an hour and
its token budget are not counted, only its errors; an adapter stands for its model too; a
golden task runs on the in-process tier, the cli tier having no calls to judge; and files
under `.maf` changed by hand while a command runs are left out, but for the settings.

----------------------------- MODULE Worktrees -----------------------------
(* The worktree of one run: WorktreeManager creates, finishes and removes    *)
(* it, BranchIsolator moves between the run's branches, the git tools serve  *)
(* the agent, and commands the agent runs may do anything inside it. A       *)
(* commit is its history, a sequence of [tree, by]; a tree gives each path a *)
(* content. A second branch of another run stands in the same repository.    *)
EXTENDS Integers, Sequences, FiniteSets, SequencesExt

CONSTANTS
    Contents,      \* what a run may write, a deletion among them: contents other than the base's "old"
    Layouts,       \* where the project is and what of MAF's runtime state is tracked or ignored
    MaxCommits,    \* bound: commits the agent makes
    None

VARIABLES
    user,      \* the user's checkout: tip of its own branch, the branch it has checked out, moves made
    branches,  \* the branches of the run: "run" and "task", a history or None
    wt,        \* the worktree, or None before it is created
    ignored,   \* a .gitignore covers MAF's runtime state
    prefixed,  \* the project is a directory below the repository's top
    base,      \* RunWorktree.baseCommit, or None
    others     \* branches of another run: "live" checked out by its worktree, "left" not

gitVars == <<user, branches, wt, ignored, prefixed, base, others>>

Paths == {"work", "runtime"}
Absent == "absent"
Trees == [Paths -> Contents \union {"old", Absent}]
Entry(tree, by) == [tree |-> tree, by |-> by]
TreeOf(commit) == Last(commit).tree

ASSUME LayoutsAssumption ==
    Layouts \subseteq [prefixed : BOOLEAN, ignored : BOOLEAN, runtime : Contents \union {"old", Absent}]

\* A branch's history, and the worktree: its HEAD, its .git link, its files and its index.
Entries == [tree : Trees, by : {"user", "run"}]
Histories == Seq(Entries) \ {<<>>}
WorktreeStates ==
    [head : {"run", "task", "detached"}, at : Histories, link : {"ok", "gone", "rewritten"},
     files : Trees, index : Trees]

\* None is told from a history and from a worktree.
ASSUME NoneAssumption == None \notin Histories /\ None \notin WorktreeStates

HasFiles(commit) == \E p \in Paths : TreeOf(commit)[p] # Absent

\* `git rev-list --count from..to`, without its reading of merges: there are none.
Ahead(from, to) == Len(to) - Len(LongestCommonPrefix({from, to}))

GitInit ==
    /\ \E l \in Layouts :
          /\ LET tree == [work |-> "old", runtime |-> l.runtime]
             IN  user = [tip |-> <<Entry(tree, "user"), Entry(tree, "user")>>, head |-> "own", moves |-> 0]
          /\ ignored = l.ignored /\ prefixed = l.prefixed
    /\ branches = [b \in {"run", "task"} |-> None]
    /\ wt = None /\ base = None /\ others = {"live", "left"}

-----------------------------------------------------------------------------
(* What git finds from the worktree's directory. The link is "ok", "gone"    *)
(* (git climbs to the user's checkout, which holds .maf/worktrees) or        *)
(* "rewritten" to the user's .git: the same top, with the HEAD and the index *)
(* of the user's checkout. (Bound: the user's index is taken as clean.)      *)

Exists == wt # None
RunsRepository == wt.link = "ok"
TopIsWorktree == wt.link # "gone"

HeadName == IF RunsRepository THEN wt.head ELSE user.head
HEAD == IF HeadName = "own" THEN user.tip ELSE IF HeadName = "detached" THEN wt.at ELSE branches[HeadName]
Index == IF RunsRepository THEN wt.index ELSE TreeOf(HEAD)

\* The branch the other checkout holds: git neither checks it out here nor deletes it.
HeldElsewhere == IF RunsRepository THEN user.head ELSE wt.head

\* assertInWorktree, then assertOnRunBranch: the top is the worktree and HEAD is the run's branch.
\* Which repository answers is not looked at.
InWorktree == Exists /\ TopIsWorktree
OnRunBranch == InWorktree /\ HeadName = "run"

\* RepositoryRoots.bind, before the agent acts: the new worktree's top and its git directory.
Learned == [top |-> "worktree", gitDir |-> "run's"]

\* identity: what git finds now. A ceiling keeps it from climbing out when the link is gone.
Identity ==
    [top |-> IF TopIsWorktree THEN "worktree" ELSE None, gitDir |-> IF RunsRepository THEN "run's" ELSE "user's"]

\* Mutant of GitToolServes: the git directory is not compared.
SameTop == Exists /\ Identity.top = Learned.top

\* git() of the tools
GitToolServes == Exists /\ Identity = Learned

\* HEAD, of whatever repository git works on from here, comes to be at `commit`.
Move(commit, index, files) ==
    /\ user' = IF HeadName = "own" THEN [user EXCEPT !.tip = commit] ELSE user
    /\ branches' = [b \in {"run", "task"} |-> IF b = HeadName THEN commit ELSE branches[b]]
    /\ wt' = [wt EXCEPT !.at = IF HeadName = "detached" THEN commit ELSE @,
                       !.index = IF RunsRepository THEN index ELSE @, !.files = files]

-----------------------------------------------------------------------------
(* createForRun, in its steps.                                               *)

\* checkForRun: a new branch name, a free directory, and committed files where the project is.
CheckForRun ==
    /\ branches["run"] = None /\ ~ Exists
    /\ prefixed => HasFiles(user.tip)

ReadBase == base' = user.tip

NewWorktree(commit) == [head |-> "run", at |-> commit, link |-> "ok",
                        files |-> TreeOf(commit), index |-> TreeOf(commit)]

\* `git worktree add -b maf/<runId> <path> <base>`
AddWorktree ==
    /\ branches' = [branches EXCEPT !["run"] = base]
    /\ wt' = NewWorktree(base)

\* It makes the branch before the checkout, and takes away the directory it made, unless it is
\* killed. Nothing undoes a failed one.
AddFails ==
    \/ UNCHANGED <<branches, wt>>
    \/ branches' = [branches EXCEPT !["run"] = base] /\ wt' \in {None, NewWorktree(base)}

DirectoryMissing == prefixed /\ ~ HasFiles(base)

\* Mutant of UndoCreate: the branch is forgotten.
UndoKeepsBranch(done) == wt' = None /\ UNCHANGED branches

\* `git worktree remove --force`, then `git branch -D`; either may fail.
UndoCreate(done) ==
    IF done THEN wt' = None /\ branches' = [branches EXCEPT !["run"] = None]
    ELSE wt' \in {wt, None} /\ UNCHANGED branches

-----------------------------------------------------------------------------
(* The agent. Its file tools write below the worktree; its git tools stage,  *)
(* commit and reset there; a command it runs is not MAF's to restrain.       *)

Edit == \E p \in Paths, c \in Contents :
    /\ Exists /\ wt.files[p] # c
    /\ wt' = [wt EXCEPT !.files[p] = c]
    /\ UNCHANGED <<user, branches>>

\* git.add: an ignored path that is not tracked is refused.
GitAddTool == \E p \in Paths :
    /\ GitToolServes
    /\ p = "runtime" /\ ignored => wt.index[p] # Absent
    /\ wt' = [wt EXCEPT !.index[p] = wt.files[p]]
    /\ UNCHANGED <<user, branches>>

\* MaxCommits is over all branches of the run.
ByRun(commit) == commit # None /\ Last(commit).by = "run"
Commits == Cardinality({b \in {"run", "task"} : ByRun(branches[b])} \union {h \in {"detached"} : ByRun(wt.at)})

GitCommitTool ==
    /\ GitToolServes
    /\ Commits < MaxCommits
    /\ wt.index # TreeOf(HEAD)
    /\ Move(Append(HEAD, Entry(wt.index, "run")), wt.index, wt.files)

\* git.reset to an ancestor: soft moves the branch alone, hard the index and the tracked files too.
HardFiles(tree) == [p \in Paths |-> IF tree[p] # Absent \/ wt.index[p] # Absent THEN tree[p] ELSE wt.files[p]]

GitResetTool == \E back \in 0..1, hard \in BOOLEAN :
    /\ GitToolServes
    /\ back < Len(HEAD)
    /\ LET to == SubSeq(HEAD, 1, Len(HEAD) - back) IN
          IF hard THEN Move(to, TreeOf(to), HardFiles(TreeOf(to))) ELSE Move(to, wt.index, wt.files)

\* A command deletes the .git link, points it at the user's repository, or detaches HEAD.
Tamper ==
    /\ Exists /\ RunsRepository
    /\ \/ \E link \in {"gone", "rewritten"} : wt' = [wt EXCEPT !.link = link]
       \/ wt.head # "detached" /\ wt' = [wt EXCEPT !.head = "detached", !.at = HEAD]
    /\ UNCHANGED <<user, branches>>

-----------------------------------------------------------------------------
(* BranchIsolator: a branch of the task, from the worktree's base.           *)

\* git checkout carries uncommitted work along where both trees agree, and else wants it clean.
CanCheckOut(name, to) ==
    /\ name # HeldElsewhere
    /\ \A p \in Paths : TreeOf(HEAD)[p] = to[p] \/ (Index[p] = TreeOf(HEAD)[p] /\ wt.files[p] = Index[p])

\* It is the checkout git finds whose HEAD and index move, and the worktree's files either way.
Carried(tree, to) == [p \in Paths |-> IF TreeOf(HEAD)[p] = to[p] THEN tree[p] ELSE to[p]]
CheckOut(name, to) ==
    /\ user' = IF RunsRepository THEN user ELSE [user EXCEPT !.head = name]
    /\ wt' = IF RunsRepository
             THEN [wt EXCEPT !.head = name, !.at = base, !.index = Carried(@, to), !.files = Carried(@, to)]
             ELSE [wt EXCEPT !.files = Carried(@, to)]

CreateBranch ==
    /\ InWorktree
    /\ branches["task"] = None /\ CanCheckOut("task", TreeOf(base))
    /\ CheckOut("task", TreeOf(base))
    /\ branches' = [branches EXCEPT !["task"] = base]

SwitchTo == \E name \in {"run", "task"} :
    /\ InWorktree
    /\ branches[name] # None /\ HeadName # name /\ CanCheckOut(name, TreeOf(branches[name]))
    /\ CheckOut(name, TreeOf(branches[name]))
    /\ UNCHANGED branches

\* Unforced, git keeps a branch HEAD does not hold, and that failure is swallowed.
DeleteBranch == \E force \in BOOLEAN :
    /\ InWorktree
    /\ branches["task"] # None /\ "task" \notin {HeadName, HeldElsewhere}
    /\ force \/ IsPrefix(branches["task"], HEAD)
    /\ branches' = [branches EXCEPT !["task"] = None]
    /\ UNCHANGED <<user, wt>>

AgentActs ==
    /\ Edit \/ GitAddTool \/ GitCommitTool \/ GitResetTool \/ Tamper \/ CreateBranch \/ SwitchTo \/ DeleteBranch
    /\ UNCHANGED <<ignored, prefixed, base, others>>

-----------------------------------------------------------------------------
(* finish: the run's uncommitted work joins its branch, and the branch is    *)
(* offered unless it is at its base or brings in runtime state.              *)

\* `git add -A` with runtimeStateExcludes: an exclusion that a .gitignore covers is left out, as
\* git refuses it; check-ignore does not report a tracked path, so there the exclusion stays.
Excluded == ~ ignored \/ Index["runtime"] # Absent
AddRefused == ignored /\ Excluded
AddAll == [Index EXCEPT !["work"] = wt.files["work"]]

Leftovers == AddAll # TreeOf(HEAD)
Committed == IF Leftovers THEN Append(HEAD, Entry(AddAll, "run")) ELSE HEAD

BringsRuntimeState(commit) == TreeOf(commit)["runtime"] # TreeOf(base)["runtime"]

\* Mutant of Verdict: what the branch brings in is not looked at.
VerdictUnchecked(commit) == IF Ahead(base, commit) = 0 THEN "no-change" ELSE "merge"

Verdict(commit) ==
    IF Ahead(base, commit) = 0 THEN "no-change"
    ELSE IF BringsRuntimeState(commit) THEN "refused" ELSE "merge"

\* What finish(success) ends with: a verdict, or "threw" when HEAD is not the run's or git failed.
FinishSuccess(kind) ==
    IF ~ OnRunBranch \/ AddRefused
    THEN kind = "threw" /\ UNCHANGED <<user, wt, branches>>
    ELSE \/ kind = Verdict(Committed) /\ Move(Committed, AddAll, wt.files)
         \/ /\ kind = "threw"        \* git failed: before the add, before the commit, or after it
            /\ \/ UNCHANGED <<user, wt, branches>>
               \/ \E commit \in {HEAD, Committed} : Move(commit, AddAll, wt.files)

\* remove, on request: the worktree, the run's branches, and every maf/<runId>-* that no worktree
\* has checked out, which is also the shape of another run's branch. git removes no worktree whose
\* link is broken; the error is passed on and nothing has changed.
CheckedOutElsewhere == {"live"}

RemoveWorktree ==
    /\ Exists /\ TopIsWorktree /\ RunsRepository
    /\ wt' = None
    /\ others' = others \intersect CheckedOutElsewhere
    /\ branches' = [b \in {"run", "task"} |-> None]
    /\ UNCHANGED <<user, ignored, prefixed, base>>

-----------------------------------------------------------------------------
(* The user commits the removal of the project's files, which matters where   *)
(* the project is below the repository's top. (Bound: one move.)              *)

UserMoves ==
    /\ prefixed /\ user.moves < 1
    /\ user' = [user EXCEPT !.tip = Append(@, Entry([p \in Paths |-> Absent], "user")), !.moves = @ + 1]
    /\ UNCHANGED <<branches, wt, ignored, prefixed, base, others>>
=============================================================================

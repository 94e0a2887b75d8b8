------------------------- MODULE RunCommand_proofs -------------------------
(* The safety properties of `maf run`, for any layouts, contents, settings   *)
(* files, commits, queries and schema statements.                            *)
EXTENDS MCRunCommand, SequenceTheorems, FiniteSetTheorems, NaturalsInduction, WellFoundedInduction, TLAPS

-----------------------------------------------------------------------------
(* Histories and trees.                                                      *)

Branches == {"run", "task"}

\* The last commit of a history has a tree.
LEMMA TreeOfHistory == ASSUME NEW h \in Histories PROVE TreeOf(h) \in Trees
<1>1. h \in Seq(Entries) /\ Len(h) \in 1 .. Len(h)
  BY EmptySeq DEF Histories
<1>2. h[Len(h)] \in Entries
  BY <1>1, ElementOfSeq
<1> QED
  BY <1>2 DEF TreeOf, Last, Entries

\* A commit on a history is a history, and its tree is the committed one.
LEMMA CommitOnHistory ==
    ASSUME NEW h \in Histories, NEW tree \in Trees, NEW by \in {"user", "run"}
    PROVE  /\ Append(h, Entry(tree, by)) \in Histories
           /\ TreeOf(Append(h, Entry(tree, by))) = tree
<1> DEFINE e == Entry(tree, by)
<1>1. e \in Entries /\ e.tree = tree
  BY DEF Entries, Entry
<1>2. h \in Seq(Entries)
  BY DEF Histories
<1>3. /\ Append(h, e) \in Seq(Entries) /\ Append(h, e) # <<>>
      /\ Len(Append(h, e)) = Len(h) + 1 /\ Append(h, e)[Len(h) + 1] = e
  <2> HIDE DEF e
  <2> QED
    BY <1>1, <1>2, AppendProperties
<1> QED
  BY <1>1, <1>3 DEF TreeOf, Last, Histories

\* Going back, but not past the first commit, leaves a history.
LEMMA BackInHistory ==
    ASSUME NEW h \in Histories, NEW back \in 0..1, back < Len(h)
    PROVE  SubSeq(h, 1, Len(h) - back) \in Histories
<1>1. h \in Seq(Entries) /\ Len(h) \in Nat
  BY DEF Histories
<1>2. /\ SubSeq(h, 1, Len(h) - back) \in Seq(Entries)
      /\ Len(SubSeq(h, 1, Len(h) - back)) = Len(h) - back
  BY <1>1, SubSeqProperties
<1>3. Len(h) - back # 0
  BY <1>1
<1> QED
  BY <1>1, <1>2, <1>3, EmptySeq DEF Histories, Entries

-----------------------------------------------------------------------------
(* The repository.                                                           *)

\* The types of what git holds; a worktree has a base, and the branch it stands on exists. The
\* user's checkout is on a branch of the run only behind a rewritten link.
UserStates == [tip : Histories, head : {"own", "run", "task"}, moves : Nat]
GitOK ==
    /\ user \in UserStates
    /\ user.head # "own" => Exists /\ wt.link = "rewritten" /\ branches[user.head] # None
    /\ branches \in [Branches -> Histories \union {None}]
    /\ base \in Histories \union {None}
    /\ Exists =>
          /\ wt \in WorktreeStates /\ base # None
          /\ wt.head # "detached" => branches[wt.head] # None

\* The repository of a command that begins.
LEMMA GitBegins == GitInit => GitOK
<1> SUFFICES ASSUME GitInit PROVE GitOK
  OBVIOUS
<1>1. PICK l \in Layouts :
          LET tree == [work |-> "old", runtime |-> l.runtime]
          IN  user = [tip |-> <<Entry(tree, "user"), Entry(tree, "user")>>, head |-> "own", moves |-> 0]
  BY DEF GitInit
<1> DEFINE tree == [work |-> "old", runtime |-> l.runtime]
<1>2. tree \in Trees
  <2>1. l.runtime \in Contents \union {"old", Absent}
    BY LayoutsAssumption
  <2> QED
    BY <2>1 DEF Trees, Paths
<1>3. <<Entry(tree, "user"), Entry(tree, "user")>> \in Histories
  <2>1. Entry(tree, "user") \in Entries
    BY <1>2 DEF Entry, Entries
  <2> QED
    BY <2>1 DEF Histories
<1> QED
  BY <1>1, <1>3 DEF GitInit, GitOK, UserStates, Exists, Branches

\* HEAD, and the index, of whatever checkout git finds.
LEMMA HeadIsHistory ==
    ASSUME GitOK, Exists
    PROVE  HEAD \in Histories /\ Index \in Trees /\ HeadName \in {"own", "run", "task", "detached"}
<1>1. wt \in WorktreeStates /\ user \in UserStates /\ branches \in [Branches -> Histories \union {None}]
  BY DEF GitOK
<1>2. HeadName \in {"own", "run", "task", "detached"}
  BY <1>1 DEF HeadName, WorktreeStates, UserStates
<1>3. ASSUME HeadName = "own" PROVE HEAD \in Histories
  BY <1>1, <1>3 DEF HEAD, UserStates
<1>4. ASSUME HeadName = "detached" PROVE HEAD \in Histories
  BY <1>1, <1>4 DEF HEAD, WorktreeStates
<1>5. ASSUME HeadName \in Branches PROVE HEAD \in Histories
  <2>1. branches[HeadName] # None
    BY <1>1, <1>5 DEF GitOK, HeadName, Branches
  <2>2. HEAD = branches[HeadName]
    BY <1>5 DEF HEAD, Branches
  <2>3. branches[HeadName] \in Histories \union {None}
    BY <1>1, <1>5
  <2> QED
    BY <2>1, <2>2, <2>3
<1>6. HEAD \in Histories
  BY <1>2, <1>3, <1>4, <1>5 DEF Branches
<1> QED
  BY <1>1, <1>2, <1>6, TreeOfHistory DEF Index, WorktreeStates

\* A move of HEAD, unless it is the user's own branch, leaves that alone and keeps the types.
LEMMA MoveKeepsGit ==
    ASSUME GitOK, Exists, HeadName # "own", NEW commit \in Histories, NEW index \in Trees,
           NEW files \in Trees, Move(commit, index, files), UNCHANGED base
    PROVE  GitOK' /\ user' = user
<1>1. wt \in WorktreeStates /\ base # None /\ branches \in [Branches -> Histories \union {None}]
  BY DEF GitOK
<1>2. user' = user /\ branches' = [b \in Branches |-> IF b = HeadName THEN commit ELSE branches[b]]
  BY DEF Move, Branches
<1>3. wt' = [wt EXCEPT !.at = IF HeadName = "detached" THEN commit ELSE @,
                     !.index = IF RunsRepository THEN index ELSE @, !.files = files]
  BY DEF Move
<1>4. wt' \in WorktreeStates /\ wt'.head = wt.head /\ wt'.link = wt.link
  BY <1>1, <1>3 DEF WorktreeStates
<1>5. /\ branches' \in [Branches -> Histories \union {None}]
      /\ \A b \in Branches : branches[b] # None => branches'[b] # None
  BY <1>1, <1>2, NoneAssumption
<1>6. Exists'
  BY <1>4, NoneAssumption DEF Exists
<1> QED
  BY <1>1, <1>2, <1>4, <1>5, <1>6 DEF GitOK, UserStates, WorktreeStates, Branches

\* A step that leaves the user's branch where it is, and the user's checkout on its branch, unless
\* BranchIsolator moves it behind a rewritten link.
UserKept == user'.tip = user.tip /\ (user'.head # user.head => wt.link = "rewritten" /\ (CreateBranch \/ SwitchTo))

\* What the agent, its git tools, its commands and BranchIsolator do keeps the types and does
\* not touch the user's branch.
LEMMA AgentKeepsGit == GitOK /\ AgentActs => GitOK' /\ UserKept
<1> SUFFICES ASSUME GitOK, AgentActs PROVE GitOK' /\ UserKept
  BY DEF AgentActs
<1>u. user \in UserStates
  BY DEF GitOK
<1>0. UNCHANGED base
  BY DEF AgentActs
<1>e. Exists
  BY DEF AgentActs, Edit, GitAddTool, GitCommitTool, GitResetTool, Tamper, CreateBranch, SwitchTo, DeleteBranch,
         GitToolServes, InWorktree
<1>w. wt \in WorktreeStates /\ base \in Histories
  BY <1>e DEF GitOK
<1>1. CASE Edit
  <2>1. PICK p \in Paths, c \in Contents : wt' = [wt EXCEPT !.files[p] = c]
    BY <1>1 DEF Edit
  <2>2. wt' \in WorktreeStates /\ wt'.head = wt.head /\ wt'.link = wt.link
    BY <1>w, <2>1 DEF WorktreeStates, Trees
  <2> QED
    BY <1>0, <1>1, <1>e, <2>2, NoneAssumption DEF Edit, GitOK, Exists, UserKept
<1>2. CASE GitAddTool
  <2>1. PICK p \in Paths : wt' = [wt EXCEPT !.index[p] = wt.files[p]]
    BY <1>2 DEF GitAddTool
  <2>2. wt' \in WorktreeStates /\ wt'.head = wt.head /\ wt'.link = wt.link
    BY <1>w, <2>1 DEF WorktreeStates, Trees
  <2> QED
    BY <1>0, <1>2, <1>e, <2>2, NoneAssumption DEF GitAddTool, GitOK, Exists, UserKept
<1>3. CASE GitCommitTool
  <2>1. HeadName # "own"
    BY <1>w, <1>3 DEF GitCommitTool, GitToolServes, Identity, Learned, HeadName, WorktreeStates
  <2>2. Append(HEAD, Entry(wt.index, "run")) \in Histories
    BY <1>e, <1>w, HeadIsHistory, CommitOnHistory DEF WorktreeStates
  <2> QED
    BY <1>0, <1>3, <1>e, <1>w, <2>1, <2>2, MoveKeepsGit DEF GitCommitTool, WorktreeStates, UserKept
<1>4. CASE GitResetTool
  <2>1. HeadName # "own"
    BY <1>w, <1>4 DEF GitResetTool, GitToolServes, Identity, Learned, HeadName, WorktreeStates
  <2>2. PICK back \in 0..1, hard \in BOOLEAN :
            /\ back < Len(HEAD)
            /\ LET to == SubSeq(HEAD, 1, Len(HEAD) - back) IN
                  IF hard THEN Move(to, TreeOf(to), HardFiles(TreeOf(to))) ELSE Move(to, wt.index, wt.files)
    BY <1>4 DEF GitResetTool
  <2> DEFINE to == SubSeq(HEAD, 1, Len(HEAD) - back)
  <2>3. to \in Histories /\ TreeOf(to) \in Trees
    BY <1>e, <2>2, HeadIsHistory, BackInHistory, TreeOfHistory
  <2>4. HardFiles(TreeOf(to)) \in Trees
    <3> HIDE DEF to
    <3> QED
      BY <1>w, <2>3 DEF HardFiles, Trees, WorktreeStates
  <2>5. CASE hard
    <3>1. Move(to, TreeOf(to), HardFiles(TreeOf(to)))
      BY <2>2, <2>5
    <3> HIDE DEF to
    <3> QED
      BY <1>0, <1>e, <2>1, <2>3, <2>4, <3>1, MoveKeepsGit DEF UserKept
  <2>6. CASE ~ hard
    <3>1. Move(to, wt.index, wt.files)
      BY <2>2, <2>6
    <3> HIDE DEF to
    <3> QED
      BY <1>0, <1>e, <1>w, <2>1, <2>3, <3>1, MoveKeepsGit DEF WorktreeStates, UserKept
  <2> QED
    BY <2>5, <2>6
<1>5. CASE Tamper
  <2>1. HEAD \in Histories
    BY <1>e, HeadIsHistory
  <2>2. wt' \in WorktreeStates /\ (wt'.head = wt.head \/ wt'.head = "detached") /\ wt.link = "ok"
    BY <1>5, <1>w, <2>1 DEF Tamper, RunsRepository, WorktreeStates
  <2>3. user.head = "own" /\ UNCHANGED <<user, branches>>
    BY <1>5, <2>2 DEF Tamper, GitOK
  <2> QED
    BY <1>0, <1>e, <2>2, <2>3 DEF GitOK, Exists, UserKept
<1>6. ASSUME NEW name \in Branches, NEW to \in Trees, CheckOut(name, to), InWorktree
      PROVE  /\ wt' \in WorktreeStates /\ wt'.link = wt.link /\ user' \in UserStates /\ user'.tip = user.tip
             /\ \/ user' = user /\ wt'.head = name /\ wt.link = "ok"
                \/ wt'.head = wt.head /\ user'.head = name /\ wt.link = "rewritten"
  <2>1. wt.link \in {"ok", "rewritten"}
    BY <1>6, <1>w DEF InWorktree, TopIsWorktree, WorktreeStates
  <2>2. Carried(wt.index, to) \in Trees /\ Carried(wt.files, to) \in Trees
    BY <1>w DEF Carried, WorktreeStates, Trees
  <2>3. CASE wt.link = "ok"
    <3>1. user' = user /\ wt' = [wt EXCEPT !.head = name, !.at = base, !.index = Carried(@, to), !.files = Carried(@, to)]
      BY <1>6, <2>3 DEF CheckOut, RunsRepository
    <3> QED
      BY <1>w, <1>u, <2>2, <2>3, <3>1 DEF WorktreeStates, Branches
  <2>4. CASE wt.link = "rewritten"
    <3>1. user' = [user EXCEPT !.head = name] /\ wt' = [wt EXCEPT !.files = Carried(@, to)]
      BY <1>6, <2>4 DEF CheckOut, RunsRepository
    <3> QED
      BY <1>w, <1>u, <2>2, <2>4, <3>1 DEF WorktreeStates, UserStates, Branches
  <2> QED
    BY <2>1, <2>3, <2>4
<1>7. CASE CreateBranch
  <2>1. CheckOut("task", TreeOf(base)) /\ InWorktree /\ branches' = [branches EXCEPT !["task"] = base]
    BY <1>7 DEF CreateBranch
  <2>2. TreeOf(base) \in Trees /\ "task" \in Branches
    BY <1>w, TreeOfHistory DEF Branches
  <2>3. /\ wt' \in WorktreeStates /\ wt'.link = wt.link /\ user' \in UserStates /\ user'.tip = user.tip
        /\ \/ user' = user /\ wt'.head = "task" /\ wt.link = "ok"
           \/ wt'.head = wt.head /\ user'.head = "task" /\ wt.link = "rewritten"
    BY <1>6, <2>1, <2>2
  <2>4. /\ branches' \in [Branches -> Histories \union {None}] /\ branches'["task"] # None
        /\ \A b \in Branches : branches[b] # None => branches'[b] # None
    BY <1>w, <2>1, NoneAssumption DEF GitOK, Branches
  <2> QED
    BY <1>0, <1>7, <1>e, <1>w, <2>3, <2>4, NoneAssumption DEF GitOK, Exists, UserKept, UserStates, WorktreeStates, Branches
<1>8. CASE SwitchTo
  <2>1. PICK name \in Branches : branches[name] # None /\ CheckOut(name, TreeOf(branches[name])) /\ InWorktree
    BY <1>8 DEF SwitchTo, Branches
  <2>2. TreeOf(branches[name]) \in Trees
    BY <2>1, TreeOfHistory DEF GitOK
  <2>3. /\ wt' \in WorktreeStates /\ wt'.link = wt.link /\ user' \in UserStates /\ user'.tip = user.tip
        /\ \/ user' = user /\ wt'.head = name /\ wt.link = "ok"
           \/ wt'.head = wt.head /\ user'.head = name /\ wt.link = "rewritten"
    BY <1>6, <2>1, <2>2
  <2>4. UNCHANGED branches
    BY <1>8 DEF SwitchTo
  <2> QED
    BY <1>0, <1>8, <1>e, <1>w, <2>1, <2>3, <2>4, NoneAssumption DEF GitOK, Exists, UserKept, UserStates, WorktreeStates, Branches
<1>9. CASE DeleteBranch
  <2>1. branches' = [branches EXCEPT !["task"] = None] /\ UNCHANGED <<user, wt>>
    BY <1>9 DEF DeleteBranch
  <2>2. wt.head # "task" /\ user.head # "task"
    BY <1>9 DEF DeleteBranch, HeadName, HeldElsewhere
  <2> QED
    BY <1>0, <1>e, <1>w, <2>1, <2>2 DEF GitOK, Exists, UserKept, UserStates, WorktreeStates, Branches
<1> QED
  BY <1>1, <1>2, <1>3, <1>4, <1>5, <1>7, <1>8, <1>9 DEF AgentActs

-----------------------------------------------------------------------------
(* The hand-over of the worktree.                                            *)

\* What finish() would commit is a history whose tree holds the work left in the worktree.
LEMMA CommittedHoldsWork ==
    ASSUME GitOK, Exists
    PROVE  /\ Committed \in Histories /\ AddAll \in Trees
           /\ TreeOf(Committed)["work"] = wt.files["work"]
<1>1. wt \in WorktreeStates /\ HEAD \in Histories /\ Index \in Trees
  BY HeadIsHistory DEF GitOK
<1>2. AddAll \in Trees /\ AddAll["work"] = wt.files["work"]
  BY <1>1 DEF AddAll, WorktreeStates, Trees, Paths
<1>3. Committed \in Histories /\ TreeOf(Committed) = AddAll
  BY <1>1, <1>2, CommitOnHistory DEF Committed, Leftovers
<1> QED
  BY <1>2, <1>3

\* However the hand-over of a successful run ends, the user's branch stands where it stood.
LEMMA FinishKeepsGit ==
    ASSUME GitOK, NEW kind, FinishSuccess(kind), UNCHANGED base
    PROVE  GitOK' /\ user' = user
<1>1. CASE UNCHANGED <<user, wt, branches>>
  BY <1>1 DEF GitOK, Exists
<1>2. CASE OnRunBranch /\ \E commit \in {HEAD, Committed} : Move(commit, AddAll, wt.files)
  <2>1. HeadName # "own" /\ Exists
    BY <1>2 DEF OnRunBranch, InWorktree
  <2>2. {HEAD, Committed} \subseteq Histories /\ AddAll \in Trees /\ wt.files \in Trees
    BY <2>1, HeadIsHistory, CommittedHoldsWork DEF GitOK, WorktreeStates
  <2> QED
    BY <1>2, <2>1, <2>2, MoveKeepsGit
<1> QED
  BY <1>1, <1>2 DEF FinishSuccess

\* A hand-over that is neither refused nor broken off puts the work left in the worktree on the
\* run's branch, and offers the branch only when it is ahead and brings in no runtime state.
LEMMA HandOver ==
    ASSUME GitOK, NEW kind \in {"merge", "no-change"}, FinishSuccess(kind), UNCHANGED base
    PROVE  /\ branches'["run"] \in Histories /\ TreeOf(branches["run"])'["work"] = wt'.files["work"]
           /\ kind = "merge" => /\ ~ BringsRuntimeState(branches["run"])'
                                /\ Ahead(base, branches["run"])' # 0
<1>1. OnRunBranch /\ Exists /\ kind = Verdict(Committed) /\ Move(Committed, AddAll, wt.files)
  BY DEF FinishSuccess, OnRunBranch, InWorktree
<1>2. wt \in WorktreeStates /\ branches \in [Branches -> Histories \union {None}]
  BY <1>1 DEF GitOK
<1>3. /\ branches' = [b \in Branches |-> IF b = "run" THEN Committed ELSE branches[b]]
      /\ wt' = [wt EXCEPT !.at = @, !.index = IF RunsRepository THEN AddAll ELSE @, !.files = wt.files]
  BY <1>1 DEF OnRunBranch, Move, Branches
<1>4. branches'["run"] = Committed /\ wt'.files = wt.files
  BY <1>2, <1>3 DEF Branches, WorktreeStates
<1>5. Committed \in Histories /\ TreeOf(Committed)["work"] = wt.files["work"]
  BY <1>1, CommittedHoldsWork
<1>6. kind = "merge" => Ahead(base, Committed) # 0 /\ ~ BringsRuntimeState(Committed)
  BY <1>1 DEF Verdict
<1> QED
  BY <1>4, <1>5, <1>6 DEF BringsRuntimeState, Ahead, TreeOf

\* A set of naturals with a bound has a largest element.
LEMMA Largest ==
    ASSUME NEW N \in Nat, NEW S, S \subseteq 0..N, S # {}
    PROVE  \E n \in S : \A m \in S : m <= n
<1> DEFINE T == {N - n : n \in S}
<1>1. T \subseteq Nat /\ T # {}
  <2>1. \A n \in S : N - n \in Nat
    OBVIOUS
  <2> QED
    BY <2>1
<1>2. PICK t \in T : \A u \in T : ~ (<<u, t>> \in OpToRel(<, Nat))
  <2> HIDE DEF T
  <2> QED
    BY <1>1, NatLessThanWellFounded, WFMin
<1>3. PICK n \in S : t = N - n
  BY <1>2
<1>4. ASSUME NEW m \in S PROVE m <= n
  <2>1. N - m \in T /\ N - m \in Nat /\ t \in Nat
    BY <1>1, <1>2, <1>4
  <2>2. ~ (N - m < t)
    BY <1>2, <2>1 DEF OpToRel
  <2> QED
    BY <1>3, <2>2
<1> QED
  BY <1>4

\* A count of commits is never below zero: two histories have a longest common beginning, and
\* it is no longer than either.
LEMMA AheadIsCount == ASSUME NEW from \in Histories, NEW to \in Histories PROVE Ahead(from, to) \in Nat
<1> DEFINE C == CommonPrefixes({from, to})
           L == {Len(p) : p \in C}
<1>1. from \in Seq(Entries) /\ to \in Seq(Entries) /\ Len(to) \in Nat
  BY DEF Histories
<1>2. ASSUME NEW p \in C PROVE Len(p) \in 0..Len(to)
  <2>1. IsPrefix(p, to)
    BY DEF CommonPrefixes
  <2>2. \E s \in {from, to} : \E l \in 0..Len(s) : p = SubSeq(s, 1, l)
    BY DEF CommonPrefixes, Prefixes
  <2>3. PICK s \in Seq(Entries), l \in Nat : p = SubSeq(s, 1, l) /\ l <= Len(s)
    BY <1>1, <2>2
  <2>4. p \in Seq(Entries)
    BY <2>3, SubSeqProperties
  <2> QED
    BY <1>1, <2>1, <2>4 DEF IsPrefix
<1>3. <<>> \in C
  <2>1. <<>> = SubSeq(from, 1, 0)
    BY SubSeqEmpty
  <2>2. <<>> \in Prefixes(from)
    BY <1>1, <2>1 DEF Prefixes
  <2>3. ASSUME NEW t \in {from, to} PROVE IsPrefix(<<>>, t)
    BY <1>1, SubSeqEmpty, EmptySeq DEF IsPrefix
  <2> QED
    BY <2>2, <2>3 DEF CommonPrefixes
<1>4. \E p \in C : \A q \in C : Len(q) <= Len(p)
  <2>1. PICK n \in L : \A m \in L : m <= n
    <3>1. L \subseteq 0..Len(to) /\ L # {}
      BY <1>2, <1>3
    <3> HIDE DEF L
    <3> QED
      BY <1>1, <3>1, Largest
  <2> QED
    BY <2>1
<1>5. LongestCommonPrefix({from, to}) \in C
  BY <1>4 DEF LongestCommonPrefix
<1>6. Len(LongestCommonPrefix({from, to})) \in 0..Len(to)
  <2> HIDE DEF C
  <2> QED
    BY <1>2, <1>5
<1> QED
  BY <1>1, <1>6 DEF Ahead

-----------------------------------------------------------------------------
(* The inductive invariant of the command.                                   *)

Early == {"config", "config-read", "config-gone", "resolve", "roles", "roles-gone", "checks", "open", "policy",
          "policy-gone", "lcm", "create", "base", "add"}
Unplanned == Early \union {"verify", "wire", "plan", "dag"}
Ended == {"finish", "close", "exited"}
Refusals == {"prepare", "open", "policy", "lcm", "create"}
Verdicts == {"Succeeded", "Failed"}

\* Until it ends, the command has failed at nothing, attested nothing and handed over nothing;
\* a plan that ran has an outcome.
SoFar ==
    /\ pc \in Unplanned \union {"attest"} => thrown = None /\ bundle = None
    /\ pc \in Unplanned => outcome = None
    /\ pc = "attest" => outcome \in Verdicts
    /\ pc \notin {"close", "exited"} => fin # "merge"

\* There is no worktree before it is added, and what it is added from is then known.
NotYetAdded ==
    /\ pc \in Early => wt = None /\ branches["run"] = None
    /\ pc = "add" => base # None
    /\ pc = "verify" => Exists /\ wt.link = "ok"

\* A refusal has left nothing, and a worktree that could not be added at most its branch.
Refused ==
    /\ thrown \in Refusals => pc \in {"close", "exited"} /\ wt = None /\ branches["run"] = None
    /\ thrown = "add" => pc \in {"close", "exited"} /\ branches["run"] \in {None, base}

\* The bundle says what the plan came to; it is missing only where writing it failed.
Attested ==
    /\ bundle # None => outcome \in Verdicts /\ bundle.body.predicate.outcome = outcome
    /\ pc \in Ended =>
          /\ thrown = None => bundle # None /\ outcome = "Succeeded"
          /\ outcome # None /\ thrown # "attest" => bundle # None

\* What the run's branch holds once the worktree was handed over, as long as there is one.
WorkIsOnBranch == Exists => TreeOf(branches["run"])["work"] = wt.files["work"]
HandedOver == pc \in {"close", "exited"} /\ thrown = None /\ isolated => WorkIsOnBranch
Offered ==
    fin = "merge" =>
        /\ bundle # None /\ outcome = "Succeeded" /\ WorkIsOnBranch
        /\ Exists => ~ BringsRuntimeState(branches["run"]) /\ Ahead(base, branches["run"]) > 0

RunOK == SoFar /\ NotYetAdded /\ Refused /\ Attested /\ HandedOver /\ Offered
IInv == GitOK /\ RunOK

\* Before the command starts nothing has happened to a repository in order.
LEMMA Begins == Init => IInv
<1> SUFFICES ASSUME Init PROVE IInv
  OBVIOUS
<1>1. GitOK
  BY GitBegins DEF Init
<1>2. wt = None /\ branches["run"] = None
  BY DEF Init, GitInit
<1>3. RunOK
  BY <1>2, NoNameAssumption DEF Init, RunOK, SoFar, NotYetAdded, Refused, Attested, HandedOver, Offered, Unplanned,
     Ended, Refusals, WorkIsOnBranch, Exists
<1> QED
  BY <1>1, <1>3 DEF IInv

\* A step that leaves the repository, the plan and the bundle alone and goes from one place to
\* another, in the part of the command before the worktree.
EarlySteps == FindConfig \/ ReadConfig \/ ConfigGone \/ ResolveConfig \/ ReadRoles \/ RolesGone \/ Prepare \/ Open
                \/ LoadPolicy \/ PolicyGone \/ OpenLcm \/ CreateForRun
LEMMA EarlyStep ==
    ASSUME EarlySteps
    PROVE  /\ pc \in Early \ {"base", "add"} /\ UNCHANGED <<gitVars, isolated, outcome, bundle, fin>>
           /\ \/ pc' \in (Early \ {"add"}) \union {"wire"} /\ thrown' = thrown
              \/ pc' \in {"close", "exited"} /\ thrown' \in Refusals
<1> USE DEF Early, Refusals, Goto, Throw, laterVars
<1>1. CASE FindConfig \/ ReadConfig \/ ConfigGone \/ ResolveConfig
  BY <1>1 DEF FindConfig, ReadConfig, ConfigGone, ResolveConfig, Loads, LooksAgain
<1>2. CASE ReadRoles \/ RolesGone \/ Prepare
  BY <1>2 DEF ReadRoles, RolesGone, Prepare, Loads, LooksAgain
<1>3. CASE Open \/ LoadPolicy \/ PolicyGone
  BY <1>3 DEF Open, LoadPolicy, PolicyGone, Loads, LooksAgain
<1>4. CASE OpenLcm \/ CreateForRun
  BY <1>4 DEF OpenLcm, CreateForRun
<1> QED
  BY <1>1, <1>2, <1>3, <1>4 DEF EarlySteps

\* The part of the command before the worktree keeps the invariant.
LEMMA EarlyKeeps == IInv /\ EarlySteps => IInv'
<1> SUFFICES ASSUME IInv, EarlySteps PROVE IInv'
  OBVIOUS
<1>0. GitOK /\ RunOK
  BY DEF IInv
<1>1. pc \in Early \ {"base", "add"} /\ UNCHANGED <<gitVars, isolated, outcome, bundle, fin>>
  BY EarlyStep
<1>2. CASE pc' \in (Early \ {"add"}) \union {"wire"} /\ thrown' = thrown
  BY <1>0, <1>1, <1>2, NoNameAssumption
     DEF IInv, GitOK, Exists, gitVars, RunOK, SoFar, NotYetAdded, Refused, Attested, HandedOver, Offered, Early, Unplanned,
         Ended, Refusals
<1>3. CASE pc' \in {"close", "exited"} /\ thrown' \in Refusals
  BY <1>0, <1>1, <1>3, NoNameAssumption
     DEF IInv, GitOK, Exists, gitVars, RunOK, SoFar, NotYetAdded, Refused, Attested, HandedOver, Offered, Early, Unplanned,
         Ended, Refusals
<1> QED
  BY <1>2, <1>3, EarlyStep

\* The worktree is added from its base, or nothing is left of it.
LEMMA CreationKeeps == IInv /\ (ReadBaseCommit \/ Add \/ VerifyDirectory) => IInv'
<1> SUFFICES ASSUME IInv, ReadBaseCommit \/ Add \/ VerifyDirectory PROVE IInv'
  OBVIOUS
<1>0. GitOK /\ SoFar /\ NotYetAdded /\ Refused /\ Attested /\ HandedOver /\ Offered
  BY DEF IInv, RunOK
<1> USE NoneAssumption, NoNameAssumption
<1> USE DEF Goto, Throw, Early, Unplanned, Ended, Refusals
<1>1. CASE ReadBaseCommit
  <2>1. GitOK'
    BY <1>0, <1>1 DEF ReadBaseCommit, ReadBase, NotYetAdded, GitOK, UserStates, Exists
  <2>2. RunOK'
    BY <1>0, <1>1 DEF ReadBaseCommit, ReadBase, GitOK, UserStates, RunOK, SoFar, NotYetAdded, Refused, Attested, HandedOver, Offered
  <2> QED
    BY <2>1, <2>2 DEF IInv
<1>2. CASE Add
  <2>1. CASE AddWorktree
    <3>1. base \in Histories /\ TreeOf(base) \in Trees
      BY <1>0, <1>2, TreeOfHistory DEF Add, NotYetAdded, GitOK
    <3>2. wt' \in WorktreeStates /\ wt'.head = "run" /\ wt'.link = "ok" /\ branches' = [branches EXCEPT !["run"] = base]
      BY <2>1, <3>1 DEF AddWorktree, NewWorktree, WorktreeStates
    <3>3. GitOK'
      BY <1>0, <1>2, <3>1, <3>2 DEF Add, NotYetAdded, GitOK, Exists, Branches
    <3>4. RunOK'
      BY <1>0, <1>2, <2>1, <3>2 DEF Add, AddFails, Exists, RunOK, SoFar, NotYetAdded, Refused, Attested, HandedOver, Offered
    <3> QED
      BY <3>3, <3>4 DEF IInv
  <2>2. CASE AddFails /\ Throw("add", "close")
    <3>1. base \in Histories /\ TreeOf(base) \in Trees /\ ~ Exists
      BY <1>0, <1>2, TreeOfHistory DEF Add, NotYetAdded, GitOK, Exists
    <3>2. \/ UNCHANGED <<branches, wt>>
          \/ branches' = [branches EXCEPT !["run"] = base] /\ wt' \in {None, NewWorktree(base)}
      BY <2>2 DEF AddFails
    <3>3. NewWorktree(base) \in WorktreeStates /\ NewWorktree(base).head = "run"
      BY <3>1 DEF NewWorktree, WorktreeStates
    <3>4. user.head = "own" /\ UNCHANGED <<user, base>>
      BY <1>0, <1>2, <3>1 DEF Add, GitOK
    <3>5. GitOK'
      BY <1>0, <3>1, <3>2, <3>3, <3>4 DEF GitOK, Exists, Branches
    <3>6. branches'["run"] \in {None, base}
      BY <1>0, <1>2, <3>2 DEF Add, NotYetAdded, GitOK, Branches
    <3>7. RunOK'
      BY <1>0, <1>2, <2>2, <3>4, <3>6 DEF Add, RunOK, SoFar, NotYetAdded, Refused, Attested, HandedOver, Offered
    <3> QED
      BY <3>5, <3>7 DEF IInv
  <2> QED
    BY <1>2, <2>1, <2>2 DEF Add
<1>3. CASE VerifyDirectory
  <2>1. CASE DirectoryMissing
    <3>1. PICK done \in BOOLEAN : UndoCreate(done) /\ Throw(IF done THEN "create" ELSE "undo", "close")
      BY <1>3, <2>1 DEF VerifyDirectory
    <3>2. GitOK'
      BY <1>0, <1>3, <3>1 DEF VerifyDirectory, UndoCreate, NotYetAdded, GitOK, Exists, Branches
    <3>3. done => wt' = None /\ branches'["run"] = None
      BY <1>0, <3>1 DEF UndoCreate, GitOK, Branches
    <3>4. RunOK'
      BY <1>0, <1>3, <2>1, <3>1, <3>3
         DEF VerifyDirectory, RunOK, SoFar, NotYetAdded, Refused, Attested, HandedOver, Offered
    <3> QED
      BY <3>2, <3>4 DEF IInv
  <2>2. CASE ~ DirectoryMissing
    <3>1. GitOK'
      BY <1>0, <1>3, <2>2 DEF VerifyDirectory, GitOK, Exists
    <3>2. RunOK'
      BY <1>0, <1>3, <2>2 DEF VerifyDirectory, RunOK, SoFar, NotYetAdded, Refused, Attested, HandedOver, Offered
    <3> QED
      BY <3>1, <3>2 DEF IInv
  <2> QED
    BY <2>1, <2>2
<1> QED
  BY <1>1, <1>2, <1>3

\* The wiring, the planning, the plan's run and its attestation.
LEMMA PlanKeeps == IInv /\ (Wire \/ AskForPlan \/ PlanCallMoves \/ PlanDone \/ DagEnds \/ Attest) => IInv'
<1> SUFFICES ASSUME IInv, Wire \/ AskForPlan \/ PlanCallMoves \/ PlanDone \/ DagEnds \/ Attest PROVE IInv'
  OBVIOUS
<1>0. GitOK /\ SoFar /\ NotYetAdded /\ Refused /\ Attested /\ HandedOver /\ Offered
  BY DEF IInv, RunOK
<1>g. UNCHANGED gitVars
  BY DEF Wire, AskForPlan, PlanCallMoves, PlanDone, DagEnds, Attest
<1>t. GitOK'
  BY <1>0, <1>g DEF GitOK, Exists, gitVars
<1> USE <1>0, NoneAssumption, NoNameAssumption
<1> USE DEF gitVars, Goto, Throw, Finally, Early, Unplanned, Ended, Refusals, Verdicts
<1>1. CASE Wire
  BY <1>g, <1>t, <1>1 DEF Wire, IInv, RunOK, SoFar, NotYetAdded, Refused, Attested, HandedOver, Offered
<1>2. CASE AskForPlan \/ PlanCallMoves
  BY <1>g, <1>t, <1>2 DEF AskForPlan, PlanCallMoves, runVars, IInv, RunOK, SoFar, NotYetAdded, Refused, Attested,
     HandedOver, Offered, WorkIsOnBranch, Exists, BringsRuntimeState, Ahead, TreeOf
<1>3. CASE PlanDone
  BY <1>g, <1>t, <1>3 DEF PlanDone, IInv, RunOK, SoFar, NotYetAdded, Refused, Attested, HandedOver, Offered
<1>4. CASE DagEnds
  BY <1>g, <1>t, <1>4 DEF DagEnds, IInv, RunOK, SoFar, NotYetAdded, Refused, Attested, HandedOver, Offered
<1>5. CASE Attest
  <2>1. PICK secret \in {"own", None} :
            \/ /\ bundle' = Sign(RunStatement(Predicate(outcome, TRUE, DiffHashes, SigningKey(secret))), SigningKey(secret))
               /\ IF outcome = "Succeeded" THEN Goto(Finally) ELSE Throw("outcome", Finally)
            \/ Throw("attest", Finally) /\ UNCHANGED bundle
    BY <1>5 DEF Attest
  <2>2. CASE bundle' = Sign(RunStatement(Predicate(outcome, TRUE, DiffHashes, SigningKey(secret))), SigningKey(secret))
             /\ IF outcome = "Succeeded" THEN Goto(Finally) ELSE Throw("outcome", Finally)
    <3>1. outcome \in Verdicts /\ DiffHashes \in [Names -> {"sha", Unset}] /\ SigningKey(secret) \in Keys
      BY <1>5 DEF Attest, SoFar, DiffHashes, SigningKey, Keys
    <3>2. bundle' # None
      BY <2>2, <3>1, NoBundleAssumption
    <3>3. bundle'.body.predicate.outcome = outcome
      BY <2>2 DEF Sign, RunStatement, Predicate
    <3>4. pc = "attest" /\ UNCHANGED <<isolated, outcome, fin>>
      BY <1>5 DEF Attest
    <3>5. /\ pc' \in {"finish", "close"} /\ (isolated => pc' = "finish")
          /\ thrown' = IF outcome = "Succeeded" THEN None ELSE "outcome"
      BY <2>2, <3>4 DEF SoFar
    <3>6. RunOK'
      <4> HIDE <2>2
      <4> QED
        BY <1>g, <3>1, <3>2, <3>3, <3>4, <3>5
           DEF RunOK, SoFar, NotYetAdded, Refused, Attested, HandedOver, Offered
    <3> QED
      BY <1>t, <3>6 DEF IInv
  <2>3. CASE Throw("attest", Finally) /\ UNCHANGED bundle
    BY <1>g, <1>t, <1>5, <2>3 DEF Attest, IInv, RunOK, SoFar, NotYetAdded, Refused, Attested, HandedOver, Offered
  <2> QED
    BY <2>1, <2>2, <2>3
<1> QED
  BY <1>1, <1>2, <1>3, <1>4, <1>5

\* The end of the command: the hand-over of the worktree, and the closing of the stores.
LEMMA EndKeeps == IInv /\ (FinishWorktree \/ Close) => IInv'
<1> SUFFICES ASSUME IInv, FinishWorktree \/ Close PROVE IInv'
  OBVIOUS
<1>0. GitOK /\ SoFar /\ NotYetAdded /\ Refused /\ Attested /\ HandedOver /\ Offered
  BY DEF IInv, RunOK
<1> USE <1>0, NoneAssumption, NoNameAssumption
<1> USE DEF Goto, Throw, Early, Unplanned, Ended, Refusals, Verdicts
<1>1. CASE FinishWorktree
  <2>1. PICK kind \in {"merge", "no-change", "refused", "threw", "failure"} :
            /\ IF Succeeded THEN FinishSuccess(kind) ELSE kind = "failure" /\ UNCHANGED <<user, branches, wt>>
            /\ fin' = kind
            /\ IF RefusedHandOver(kind) THEN Throw("hand-over", "close") ELSE Goto("close")
    BY <1>1 DEF FinishWorktree
  <2>2. pc = "finish" /\ UNCHANGED <<base, isolated, outcome, bundle>>
    BY <1>1 DEF FinishWorktree
  <2>3. CASE ~ Succeeded
    <3>1. GitOK'
      BY <2>1, <2>2, <2>3 DEF GitOK, Exists
    <3>2. RunOK'
      BY <2>1, <2>2, <2>3 DEF Succeeded, RefusedHandOver, RunOK, SoFar, NotYetAdded, Refused, Attested, HandedOver, Offered
    <3> QED
      BY <3>1, <3>2 DEF IInv
  <2>4. CASE Succeeded
    <3>1. GitOK'
      BY <2>1, <2>2, <2>4, FinishKeepsGit
    <3>2. bundle # None /\ outcome = "Succeeded" /\ thrown = None
      BY <2>2, <2>4 DEF Succeeded, Attested
    <3>3. (SoFar /\ NotYetAdded /\ Refused /\ Attested)'
      BY <2>1, <2>2, <2>4, <3>2 DEF SoFar, NotYetAdded, Refused, Attested
    <3>4. kind # "failure"
      BY <2>1, <2>4 DEF FinishSuccess, Verdict
    <3>5. CASE kind \in {"refused", "threw"}
      <4>1. thrown' = "hand-over" /\ fin' # "merge"
        BY <2>1, <3>5 DEF RefusedHandOver
      <4> QED
        BY <3>1, <3>3, <4>1 DEF IInv, RunOK, HandedOver, Offered
    <3>6. CASE kind \in {"merge", "no-change"}
      <4>1. /\ branches'["run"] \in Histories /\ TreeOf(branches["run"])'["work"] = wt'.files["work"]
            /\ kind = "merge" => ~ BringsRuntimeState(branches["run"])' /\ Ahead(base, branches["run"])' # 0
        BY <2>1, <2>2, <2>4, <3>6, HandOver
      <4>2. Exists' => base' \in Histories
        BY <3>1 DEF GitOK
      <4>3. Exists' /\ kind = "merge" => Ahead(base', branches'["run"]) > 0
        BY <4>1, <4>2, AheadIsCount DEF Ahead
      <4> QED
        BY <2>1, <2>2, <3>1, <3>2, <3>3, <4>1, <4>3
           DEF IInv, RunOK, HandedOver, Offered, WorkIsOnBranch, TreeOf, BringsRuntimeState, Ahead
    <3> QED
      BY <3>4, <3>5, <3>6
  <2> QED
    BY <2>3, <2>4
<1>2. CASE Close
  <2>1. UNCHANGED <<gitVars, isolated, outcome, bundle, fin, thrown>> /\ pc = "close" /\ pc' = "exited"
    BY <1>2 DEF Close
  <2>2. GitOK'
    BY <2>1 DEF GitOK, Exists, gitVars
  <2>3. RunOK'
    BY <2>1 DEF gitVars, RunOK, SoFar, NotYetAdded, Refused, Attested, HandedOver, Offered, WorkIsOnBranch, Exists,
       TreeOf, BringsRuntimeState, Ahead
  <2> QED
    BY <2>2, <2>3 DEF IInv
<1> QED
  BY <1>1, <1>2

\* The agents in the worktree, the user beside it, and `maf worktree remove` afterwards.
LEMMA OthersKeep == IInv /\ (Agents \/ Meanwhile \/ Removed) => IInv'
<1> SUFFICES ASSUME IInv, Agents \/ Meanwhile \/ Removed PROVE IInv'
  OBVIOUS
<1>0. GitOK /\ SoFar /\ NotYetAdded /\ Refused /\ Attested /\ HandedOver /\ Offered
  BY DEF IInv, RunOK
<1> USE <1>0, NoneAssumption, NoNameAssumption
<1> USE DEF Early, Unplanned, Ended, Refusals
<1>r. UNCHANGED runVars
  BY DEF Agents, Meanwhile, Removed
<1>1. CASE Agents
  <2>1. GitOK'
    BY <1>1, AgentKeepsGit DEF Agents
  <2>2. pc = "dag" /\ thrown = None
    BY <1>1 DEF Agents, SoFar
  <2>3. RunOK'
    BY <1>r, <2>2 DEF runVars, RunOK, SoFar, NotYetAdded, Refused, Attested, HandedOver, Offered
  <2> QED
    BY <2>1, <2>3 DEF IInv
<1>2. CASE Meanwhile
  <2>1. user' \in UserStates /\ user'.head = user.head
    <3>1. [p \in Paths |-> Absent] \in Trees
      BY DEF Trees
    <3>2. Append(user.tip, Entry([p \in Paths |-> Absent], "user")) \in Histories
      BY <3>1, CommitOnHistory DEF GitOK, UserStates
    <3>3. user \in UserStates
      BY <1>0 DEF GitOK
    <3>4. user.moves + 1 \in Nat
      BY <3>3 DEF UserStates
    <3>5. PICK tip \in Histories, n \in Nat : user' = [user EXCEPT !.tip = tip, !.moves = n]
      BY <1>2, <3>2, <3>4 DEF Meanwhile, UserMoves
    <3> QED
      BY <3>3, <3>5 DEF UserStates
  <2>2. UNCHANGED <<branches, wt, base>> /\ pc \in Early
    BY <1>2 DEF Meanwhile, UserMoves
  <2>3. GitOK'
    BY <2>1, <2>2 DEF GitOK, Exists
  <2>4. RunOK'
    BY <1>r, <2>2 DEF runVars, RunOK, SoFar, NotYetAdded, Refused, Attested, HandedOver, Offered
  <2> QED
    BY <2>3, <2>4 DEF IInv
<1>3. CASE Removed
  <2>1. /\ wt' = None /\ branches' = [b \in Branches |-> None] /\ UNCHANGED <<user, base>> /\ pc = "exited"
        /\ user.head = "own"
    BY <1>3 DEF Removed, RemoveWorktree, RunsRepository, GitOK, Branches
  <2>2. GitOK'
    BY <2>1 DEF GitOK, Exists
  <2>3. RunOK'
    BY <1>r, <2>1 DEF runVars, RunOK, SoFar, NotYetAdded, Refused, Attested, HandedOver, Offered, WorkIsOnBranch, Exists,
       Branches
  <2> QED
    BY <2>2, <2>3 DEF IInv
<1> QED
  BY <1>1, <1>2, <1>3

\* What moves neither the repository nor runTask: native queries, somebody at a settings file.
LEMMA AsideKeeps == IInv /\ (GraphWorks \/ SomeoneEdits \/ UNCHANGED vars) => IInv'
<1> SUFFICES ASSUME IInv, GraphWorks \/ SomeoneEdits \/ UNCHANGED vars PROVE IInv'
  OBVIOUS
<1>1. UNCHANGED <<gitVars, runVars>>
  BY DEF GraphWorks, SomeoneEdits, vars
<1>2. GitOK'
  BY <1>1 DEF IInv, GitOK, Exists, gitVars
<1>3. WorkIsOnBranch' = WorkIsOnBranch
  BY <1>1 DEF gitVars, WorkIsOnBranch, Exists
<1>4. RunOK'
  BY <1>1, <1>3 DEF gitVars, runVars, IInv, RunOK, SoFar, NotYetAdded, Refused, Attested, HandedOver, Offered, Exists,
     BringsRuntimeState, Ahead
<1> QED
  BY <1>2, <1>4 DEF IInv

\* Every step keeps it, and so it holds of every run.
LEMMA Invariant == Spec => []IInv
<1>1. IInv /\ [Next]_vars => IInv'
  BY EarlyKeeps, CreationKeeps, PlanKeeps, EndKeeps, OthersKeep, AsideKeeps DEF Next, Command, EarlySteps
<1> QED
  BY <1>1, Begins, PTL DEF Spec

-----------------------------------------------------------------------------
(* What the command holds to.                                                *)

\* A merge is offered only for attested success, for a branch that holds all of the worktree's
\* work, none of MAF's runtime state, and a commit (WorktreeManager.finish).
THEOREM OfferedWhole == Spec => []OfferIsWhole
<1>1. IInv => OfferIsWhole
  BY DEF IInv, RunOK, Offered, OfferIsWhole, WorkIsOnBranch
<1> QED
  BY <1>1, Invariant, PTL

\* A refused run leaves neither worktree nor branch, and one whose worktree git could not add at
\* most the run's branch, at its base (run.ts, createForRun).
THEOREM RefusalLeavesNothing == Spec => []RefusedLeavesNothing
<1>1. IInv => RefusedLeavesNothing
  BY DEF IInv, RunOK, Refused, RefusedLeavesNothing, Refusals
<1> QED
  BY <1>1, Invariant, PTL

\* Exit 0 and the bundle say what the plan came to, and the work is on its branch (runTask).
THEOREM ExitIsTruth == Spec => []ExitTellsTruth
<1>1. IInv => ExitTellsTruth
  BY DEF IInv, RunOK, Attested, HandedOver, ExitTellsTruth, WorkIsOnBranch, Ended
<1> QED
  BY <1>1, Invariant, PTL

\* A step moves the user's branch only where the user does: MAF, its git tools and an agent's
\* commands leave it where it is, whatever became of the worktree's link and HEAD.
LEMMA UserMovesAlone == IInv /\ [Next]_vars => (user'.moves = user.moves => UserKept)
<1> SUFFICES ASSUME IInv, [Next]_vars PROVE user'.moves = user.moves => UserKept
  OBVIOUS
<1> USE DEF UserKept
<1>0. GitOK
  BY DEF IInv
<1>1. CASE EarlySteps
  BY <1>1, EarlyStep DEF gitVars
<1>2. CASE ReadBaseCommit \/ Add \/ VerifyDirectory
  BY <1>2 DEF ReadBaseCommit, Add, VerifyDirectory
<1>3. CASE Wire \/ AskForPlan \/ PlanDone \/ DagEnds \/ Attest \/ Close \/ PlanCallMoves
  BY <1>3 DEF Wire, AskForPlan, PlanDone, DagEnds, Attest, Close, PlanCallMoves, gitVars
<1>4. CASE FinishWorktree
  <2>1. CASE Succeeded
    BY <1>0, <1>4, <2>1, FinishKeepsGit DEF FinishWorktree
  <2>2. CASE ~ Succeeded
    BY <1>4, <2>2 DEF FinishWorktree
  <2> QED
    BY <2>1, <2>2
<1>5. CASE Agents
  BY <1>0, <1>5, AgentKeepsGit DEF Agents
<1>6. CASE Meanwhile
  <2>1. user.moves \in Nat /\ user'.moves = user.moves + 1
    BY <1>0, <1>6 DEF GitOK, UserStates, Meanwhile, UserMoves
  <2> QED
    BY <2>1
<1>7. CASE GraphWorks \/ SomeoneEdits \/ Removed \/ UNCHANGED vars
  BY <1>7 DEF GraphWorks, SomeoneEdits, Removed, RemoveWorktree, gitVars, vars
<1> QED
  BY <1>1, <1>2, <1>3, <1>4, <1>5, <1>6, <1>7 DEF Next, Command, EarlySteps

\* No step of the command or of its agents moves the user's branch, and only BranchIsolator, behind
\* a rewritten link, takes the user's checkout off it (WorktreeManager, BranchIsolator).
THEOREM UserStands == Spec => UserUntouched
<1>1. IInv /\ [Next]_vars =>
          [user'.moves = user.moves =>
              /\ user'.tip = user.tip
              /\ user'.head # user.head => wt.link = "rewritten" /\ (CreateBranch \/ SwitchTo)]_vars
  BY UserMovesAlone DEF UserKept
<1> QED
  BY <1>1, Invariant, PTL DEF Spec, UserUntouched

-----------------------------------------------------------------------------
(* The settings files.                                                       *)

SettingsNames == {"config", "roles", "policy"}
Docs == {NoDoc, BuiltInRoles} \union Configs \union RoleSets \union Policies

\* A file in a loader's hand: a default stands for what was not there, a document for all it says.
Fits(file) ==
    /\ file \in [name : SettingsNames \union {"none"}, state : FileStates, doc : Docs, wasAbsent : BOOLEAN,
                 changed : BOOLEAN, typed : BOOLEAN,
                 took : {"undecided", "defaults", "document", "harness", "none"}, loaded : Docs]
    /\ file.name # "none" /\ file.state = "absent" /\ file.took = "undecided" => file.wasAbsent
    /\ file.state = "text" => file.name \in SettingsNames /\ file.doc \in Documents(file.name)
    /\ file.name \in {"config", "roles"} => ~ file.typed
    /\ file.took = "defaults" => file.wasAbsent /\ ~ file.typed
    /\ file.took = "document" => file.loaded = file.doc

\* Which file the command has yet to decide on, by where it stands.
Undecided(file, stage) ==
    /\ stage \in {"config-read", "config-gone"} => file.name = "config" /\ file.took = "undecided"
    /\ stage = "roles-gone" => file.name = "roles" /\ file.took = "undecided"
    /\ stage = "policy-gone" => file.name = "policy" /\ file.took = "undecided"
LoadStages == {"config-read", "config-gone", "roles-gone", "policy-gone"}

HandOK == Fits(hand) /\ Undecided(hand, pc)

\* A file as a loader finds it: nothing is decided yet.
LEMMA FoundFits ==
    ASSUME NEW name \in SettingsNames, NEW typed \in BOOLEAN, name # "policy" => ~ typed, NEW file \in Hands(name, typed)
    PROVE  Fits(file) /\ file.name = name /\ file.took = "undecided"
<1>0. PICK state \in FileStates : \E doc \in Holds(state, name) : file = File(name, typed, state, doc)
  BY DEF Hands
<1>1. PICK doc \in Holds(state, name) : file = File(name, typed, state, doc)
  BY <1>0
<1>2. doc \in Docs /\ (state = "text" => doc \in Documents(name))
  BY <1>1 DEF Holds, Documents, Docs, SettingsNames
<1>3. file = [name |-> name, state |-> state, doc |-> doc, wasAbsent |-> (state = "absent"), changed |-> FALSE,
              typed |-> typed, took |-> "undecided", loaded |-> NoDoc]
  BY <1>1 DEF File, NoFile
<1>4. NoDoc \in Docs
  BY DEF Docs
<1> QED
  BY <1>2, <1>3, <1>4 DEF Fits, SettingsNames

\* When every rule reads, all of them are what is read, in their order (readRules).
LEMMA AllRulesRead ==
    ASSUME NEW rules, NEW R, rules \in Seq(R), \A i \in DOMAIN rules : ReadRule(rules[i])
    PROVE  ReadRules(rules) = rules
<1> DEFINE n == Len(rules)
           place(k) == CHOOSE i \in 1..n : Cardinality({j \in 1..n : j <= i}) = k
<1>1. n \in Nat /\ DOMAIN rules = 1..n /\ {i \in DOMAIN rules : ReadRule(rules[i])} = 1..n
  OBVIOUS
<1>2. Cardinality(1..n) = n
  BY SMTT(30), <1>1, FS_Interval
<1>3. ASSUME NEW i \in 1..n PROVE Cardinality({j \in 1..n : j <= i}) = i
  <2>1. {j \in 1..n : j <= i} = 1..i
    BY <1>1
  <2>2. Cardinality(1..i) = i
    BY FS_Interval
  <2> QED
    BY <2>1, <2>2
<1> HIDE DEF n
<1>4. ASSUME NEW k \in 1..n PROVE place(k) = k
  <2>1. \A i \in 1..n : Cardinality({j \in 1..n : j <= i}) = k <=> i = k
    BY <1>3
  <2> QED
    BY <2>1
<1>5. ReadRules(rules) = [k \in 1..n |-> rules[place(k)]]
  <2>1. DOMAIN rules = 1..n /\ {i \in DOMAIN rules : ReadRule(rules[i])} = 1..n
    BY <1>1
  <2> DEFINE read == {i \in DOMAIN rules : ReadRule(rules[i])}
  <2>2. ReadRules(rules) =
           [k \in 1..Cardinality(read) |-> rules[CHOOSE i \in read : Cardinality({j \in read : j <= i}) = k]]
    BY DEF ReadRules
  <2>3. read = 1..n
    BY <2>1
  <2> HIDE DEF read
  <2> QED
    BY <1>2, <2>2, <2>3
<1> HIDE DEF place
<1>6. [k \in 1..n |-> rules[place(k)]] = [k \in 1..n |-> rules[k]]
  BY <1>4
<1>7. rules = [k \in 1..n |-> rules[k]]
  BY <1>1
<1> QED
  BY <1>5, <1>6, <1>7

\* A file that reads is taken whole: nothing it says is left out.
LEMMA TakenWhole ==
    ASSUME NEW file, file.state = "text" => file.doc \in Documents(file.name), Reads(file), file.name \in SettingsNames
    PROVE  LoadedFrom(file) = file.doc
<1>1. CASE file.name # "policy"
  BY <1>1 DEF LoadedFrom
<1>2. CASE file.name = "policy"
  <2>1. file.state = "text" /\ ~ RuleErrors(file.doc.rules)
    BY <1>2 DEF Reads, PolicyReads
  <2>2. file.doc \in Policies
    BY <1>2, <2>1 DEF Documents
  <2>3. ReadRules(file.doc.rules) = file.doc.rules
    BY <2>1, <2>2, PoliciesAssumption, AllRulesRead DEF RuleErrors
  <2>4. [file.doc EXCEPT !.rules = file.doc.rules] = file.doc
    <3>1. file.doc = [document |-> file.doc.document, shape |-> file.doc.shape, rules |-> file.doc.rules]
      BY <2>2, PoliciesAssumption
    <3>2. ASSUME NEW S, NEW x \in S, NEW R, NEW y \in R, NEW b, NEW doc,
                 doc = [document |-> b, shape |-> x, rules |-> y]
          PROVE  [doc EXCEPT !.rules = y] = doc
      <4>1. [[document |-> b, shape |-> x, rules |-> y] EXCEPT !.rules = y] = [document |-> b, shape |-> x, rules |-> y]
        OBVIOUS
      <4> QED
        BY <3>2, <4>1
    <3>3. file.doc.shape \in {file.doc.shape} /\ file.doc.rules \in {file.doc.rules}
      OBVIOUS
    <3> QED
      BY <3>1, <3>2, <3>3
  <2> QED
    BY <1>2, <2>3, <2>4 DEF LoadedFrom
<1> QED
  BY <1>1, <1>2

\* A document that a loader takes fits.
LEMMA TakenFits ==
    ASSUME NEW file, Fits(file), file.name \in SettingsNames, Reads(file) PROVE Fits(Taken(file))
<1>1. LoadedFrom(file) = file.doc /\ file.doc \in Docs
  BY TakenWhole DEF Fits
<1>2. Taken(file) = [file EXCEPT !.took = "document", !.loaded = file.doc]
  BY <1>1 DEF Taken
<1> QED
  BY <1>1, <1>2 DEF Fits

\* A default that a loader takes fits.
LEMMA DefaultsFit ==
    ASSUME NEW file, Fits(file), file.name \in SettingsNames, file.took = "undecided", MayDefault(file)
    PROVE  Fits(Defaults(file))
<1>1. file.state = "absent" /\ file.wasAbsent /\ ~ file.typed
  BY DEF MayDefault, NameExists, Fits, SettingsNames
<1> DEFINE loaded == IF file.name = "roles" THEN BuiltInRoles ELSE NoDoc
<1>2. loaded \in Docs
  BY DEF Docs
<1>3. Defaults(file) = [file EXCEPT !.took = "defaults", !.loaded = loaded]
  BY DEF Defaults
<1> HIDE DEF loaded
<1> QED
  BY <1>1, <1>2, <1>3 DEF Fits

\* Whoever edits the file, what a loader knows of it fits.
LEMMA EditedFits == ASSUME Fits(hand), FileChanges PROVE Fits(hand') /\ hand'.name = hand.name /\ hand'.took = hand.took
<1>1. hand.name \in SettingsNames /\ hand.took = "undecided"
  BY DEF FileChanges, Fits
<1>s. PICK state \in FileStates : \E doc \in Holds(state, hand.name) :
          hand' = [hand EXCEPT !.state = state, !.doc = doc, !.changed = TRUE,
                               !.wasAbsent = (hand.wasAbsent \/ state = "absent")]
  BY DEF FileChanges
<1>2. PICK doc \in Holds(state, hand.name) :
          hand' = [hand EXCEPT !.state = state, !.doc = doc, !.changed = TRUE,
                               !.wasAbsent = (hand.wasAbsent \/ state = "absent")]
  BY <1>s
<1>3. doc \in Docs /\ (state = "text" => doc \in Documents(hand.name))
  BY <1>1, <1>2 DEF Holds, Documents, Docs, SettingsNames
<1> QED
  BY <1>1, <1>2, <1>3 DEF Fits

\* An empty hand fits, and so do the other hands that hold no file.
LEMMA NoFileFits ==
    /\ Fits(NoFile) /\ Fits(WithoutRules)
    /\ \A doc \in RoleSets : Fits([NoFile EXCEPT !.took = "harness", !.loaded = doc])
<1>1. NoDoc \in Docs /\ RoleSets \subseteq Docs
  BY DEF Docs
<1>2. NoFile \in [name : SettingsNames \union {"none"}, state : FileStates, doc : Docs, wasAbsent : BOOLEAN,
                  changed : BOOLEAN, typed : BOOLEAN, took : {"undecided"}, loaded : Docs]
      /\ NoFile.name = "none" /\ NoFile.state = "absent"
  BY <1>1 DEF NoFile, SettingsNames, FileStates
<1>3. Fits(NoFile)
  BY <1>2 DEF Fits
<1>4. Fits(WithoutRules)
  BY <1>2 DEF Fits, WithoutRules, SettingsNames
<1>5. ASSUME NEW doc \in RoleSets PROVE Fits([NoFile EXCEPT !.took = "harness", !.loaded = doc])
  <2>1. doc \in Docs
    BY <1>1
  <2> QED
    BY <1>2, <2>1 DEF Fits
<1> QED
  BY <1>3, <1>4, <1>5

\* A read decides, or leaves the file to a second look.
LEMMA LoadsKeep ==
    ASSUME NEW file, Fits(file), file.name \in SettingsNames, file.took = "undecided",
           NEW gone, NEW next, NEW what, NEW otherwise, Loads(file, gone, next, what, otherwise),
           next \notin LoadStages, otherwise \notin LoadStages,
           \/ file.name = "config" /\ gone = "config-gone"
           \/ file.name = "roles" /\ gone = "roles-gone"
           \/ file.name = "policy" /\ gone = "policy-gone"
    PROVE  HandOK'
<1>1. CASE NotFound(file)
  BY <1>1 DEF Loads, Goto, HandOK, Undecided
<1>2. CASE ~ NotFound(file) /\ Reads(file)
  BY <1>2, TakenFits DEF Loads, Goto, HandOK, Undecided, LoadStages
<1>3. CASE ~ NotFound(file) /\ ~ Reads(file)
  BY <1>3 DEF Loads, Throw, HandOK, Undecided, LoadStages
<1> QED
  BY <1>1, <1>2, <1>3

\* The second look takes the default, or refuses.
LEMMA SecondLookKeeps ==
    ASSUME HandOK, pc \in LoadStages, NEW next, NEW what, NEW otherwise, LooksAgain(next, what, otherwise),
           next \notin LoadStages, otherwise \notin LoadStages
    PROVE  HandOK'
<1>1. Fits(hand) /\ hand.name \in SettingsNames /\ hand.took = "undecided"
  BY DEF HandOK, Undecided, LoadStages, SettingsNames
<1>2. CASE MayDefault(hand)
  BY <1>1, <1>2, DefaultsFit DEF LooksAgain, Goto, HandOK, Undecided, LoadStages
<1>3. CASE ~ MayDefault(hand)
  BY <1>1, <1>3 DEF LooksAgain, Throw, HandOK, Undecided, LoadStages
<1> QED
  BY <1>2, <1>3

\* Every step keeps what the hand holds in order.
LEMMA HandKept == HandOK /\ [Next]_vars => HandOK'
<1> SUFFICES ASSUME HandOK, [Next]_vars PROVE HandOK'
  OBVIOUS
<1>0. Fits(hand) /\ Undecided(hand, pc)
  BY DEF HandOK
<1>a. ASSUME hand' = hand, pc' = pc \/ pc' \notin LoadStages PROVE HandOK'
  BY <1>0, <1>a DEF HandOK, Undecided, LoadStages
<1>b. ASSUME Fits(hand'), pc' \notin LoadStages PROVE HandOK'
  BY <1>b DEF HandOK, Undecided, LoadStages
<1>1. CASE FindConfig
  <2>1. PICK file \in Hands("config", FALSE) :
           IF NameExists(file) THEN hand' = file /\ Goto("config-read") ELSE hand' = Defaults(file) /\ Goto("resolve")
    BY <1>1 DEF FindConfig
  <2>2. Fits(file) /\ file.name = "config" /\ file.took = "undecided"
    BY FoundFits DEF SettingsNames
  <2>3. CASE NameExists(file)
    BY <2>1, <2>2, <2>3 DEF Goto, HandOK, Undecided
  <2>4. CASE ~ NameExists(file)
    <3>1. Fits(Defaults(file))
      BY <2>2, <2>4, DefaultsFit DEF MayDefault, SettingsNames
    <3> QED
      BY <2>1, <2>4, <3>1, <1>b DEF Goto, LoadStages
  <2> QED
    BY <2>3, <2>4
<1>2. CASE ReadConfig
  <2>1. Loads(hand, "config-gone", "resolve", "prepare", "exited") /\ hand.name = "config" /\ hand.took = "undecided"
    BY <1>0, <1>2 DEF ReadConfig, Undecided
  <2> QED
    BY <1>0, <2>1, LoadsKeep DEF LoadStages, SettingsNames
<1>3. CASE ConfigGone
  BY <1>3, SecondLookKeeps DEF ConfigGone, LoadStages
<1>4. CASE RolesGone
  BY <1>4, SecondLookKeeps DEF RolesGone, LoadStages
<1>5. CASE PolicyGone
  BY <1>5, SecondLookKeeps DEF PolicyGone, LoadStages
<1>6. CASE ReadRoles
  <2>1. CASE \E file \in Hands("roles", FALSE) : Loads(file, "roles-gone", "checks", "prepare", "exited")
    <3>1. PICK file \in Hands("roles", FALSE) : Loads(file, "roles-gone", "checks", "prepare", "exited")
      BY <2>1
    <3>2. Fits(file) /\ file.name = "roles" /\ file.took = "undecided"
      BY FoundFits DEF SettingsNames
    <3> QED
      BY <3>1, <3>2, LoadsKeep DEF LoadStages, SettingsNames
  <2>2. CASE \E doc \in RoleSets : hand' = [NoFile EXCEPT !.took = "harness", !.loaded = doc] /\ Goto("checks")
    BY <2>2, <1>b, NoFileFits DEF Goto, LoadStages
  <2>3. CASE hand' = NoFile /\ Throw("prepare", "exited")
    BY <2>3, <1>b, NoFileFits DEF Throw, LoadStages
  <2> QED
    BY <1>6, <2>1, <2>2, <2>3 DEF ReadRoles
<1>7. CASE LoadPolicy
  <2>1. CASE hand' = WithoutRules /\ Goto("lcm")
    BY <2>1, <1>b, NoFileFits DEF Goto, LoadStages
  <2>2. ASSUME NEW typed \in BOOLEAN, NEW file \in Hands("policy", typed),
               Loads(file, "policy-gone", "lcm", "policy", "close")
        PROVE  HandOK'
    <3>1. Fits(file) /\ file.name = "policy" /\ file.took = "undecided"
      BY FoundFits DEF SettingsNames
    <3> QED
      BY <2>2, <3>1, LoadsKeep DEF LoadStages, SettingsNames
  <2> QED
    BY <1>7, <2>1, <2>2 DEF LoadPolicy
<1>8. CASE ResolveConfig \/ Prepare \/ OpenLcm
  BY <1>8, <1>b, NoFileFits DEF ResolveConfig, Prepare, OpenLcm, Goto, Throw, LoadStages
<1>9. CASE Open \/ CreateForRun \/ ReadBaseCommit \/ Add \/ VerifyDirectory \/ Wire
  <2>1. pc \notin LoadStages
    BY <1>9 DEF Open, CreateForRun, ReadBaseCommit, Add, VerifyDirectory, Wire, LoadStages
  <2>2. hand' = hand /\ pc' \in {"policy", "close", "base", "add", "verify", "wire", "plan", "finish"}
    BY <1>9 DEF Open, CreateForRun, ReadBaseCommit, Add, VerifyDirectory, Wire, Goto, Throw, Finally
  <2> QED
    BY <2>2, <1>a DEF LoadStages
<1>10. CASE AskForPlan \/ PlanCallMoves \/ Agents \/ GraphWorks \/ Meanwhile \/ Removed
  BY <1>10, <1>a DEF AskForPlan, PlanCallMoves, Agents, GraphWorks, Meanwhile, Removed, runVars
<1>11. CASE PlanDone \/ DagEnds \/ Attest \/ FinishWorktree \/ Close
  <2>1. hand' = hand /\ pc' \in {"dag", "attest", "finish", "close", "exited"}
    BY <1>11 DEF PlanDone, DagEnds, Attest, FinishWorktree, Close, Goto, Throw, Finally
  <2> QED
    BY <2>1, <1>a DEF LoadStages
<1>12. CASE SomeoneEdits
  <2>1. FileChanges /\ pc' = pc
    BY <1>12 DEF SomeoneEdits, runVars
  <2> QED
    BY <1>0, <2>1, EditedFits DEF HandOK, Undecided
<1>13. CASE UNCHANGED vars
  BY <1>13, <1>a DEF vars, runVars
<1> QED
  BY <1>1, <1>2, <1>3, <1>4, <1>5, <1>6, <1>7, <1>8, <1>9, <1>10, <1>11, <1>12, <1>13 DEF Next, Command

\* A default stands in only for a file that was not there, never for a policy the operator named,
\* and a file is taken whole, whoever edits it between the looks at it (PolicyLoader.resolve,
\* ConfigLoader.load, RoleRegistry.fromYamlOrDefault).
THEOREM SettingsStand == Spec => []NothingSkipped
<1>1. Init => HandOK
  BY NoFileFits DEF Init, HandOK, Undecided
<1>2. HandOK => NothingSkipped
  BY DEF HandOK, Fits, NothingSkipped
<1> QED
  BY <1>1, <1>2, HandKept, PTL DEF Spec

-----------------------------------------------------------------------------
(* Reading a bundle back.                                                    *)

\* The sequence made of a finite set names each of its elements, once.
LEMMA SequenceOfSet ==
    ASSUME NEW S, IsFiniteSet(S)
    PROVE  /\ SetToSeq(S) \in Seq(S)
           /\ \A i, j \in 1..Len(SetToSeq(S)) : SetToSeq(S)[i] = SetToSeq(S)[j] => i = j
           /\ \A x \in S : \E i \in 1..Len(SetToSeq(S)) : SetToSeq(S)[i] = x
<1> DEFINE N == Cardinality(S)
           f == SetToSeq(S)
<1>1. N \in Nat /\ \E g \in [1..N -> S] : IsInjective(g)
  BY FS_CardinalityType DEF ExistsBijection, Bijection, Injection
<1>2. f \in [1..N -> S] /\ IsInjective(f)
  BY <1>1 DEF SetToSeq
<1>3. IsFiniteSet(1..N) /\ Cardinality(1..N) = N
  BY <1>1, FS_Interval
<1>4. f \in Surjection(1..N, S)
  <2> HIDE DEF f
  <2>1. f \in Injection(1..N, S)
    BY <1>2 DEF Injection
  <2> QED
    BY <1>3, <2>1, FS_Injection
<1>5. f \in Seq(S) /\ Len(f) = N
  <2> HIDE DEF f, N
  <2> QED
    BY <1>1, <1>2
<1> QED
  <2> HIDE DEF f
  <2>1. \A i, j \in 1..Len(f) : f[i] = f[j] => i = j
    BY <1>2, <1>5 DEF IsInjective
  <2>2. \A x \in S : \E i \in 1..Len(f) : f[i] = x
    BY <1>4, <1>5 DEF Surjection
  <2> QED
    BY <1>5, <2>1, <2>2 DEF f

\* The subjects of a statement are those its predicate records (makeInTotoStatement, subjectMismatch).
Diffs == [Names -> {"sha", Unset}]
LEMMA SubjectsMatch ==
    ASSUME NEW diffs \in Diffs
    PROVE  /\ SubjectsOf(diffs) \in Seq([name : Names, sha : {"sha"}])
           /\ ~ SubjectMismatch(SubjectsOf(diffs), diffs)
<1> DEFINE S == {[name |-> n, sha |-> diffs[n]] : n \in Recorded(diffs)}
           q == SetToSeq(S)
<1>1. SubjectsOf(diffs) = q
  BY DEF SubjectsOf
<1>2. \A n \in Recorded(diffs) : n \in Names /\ diffs[n] = "sha" /\ "sha" # Unset
  BY DEF Recorded, Diffs, Unset
<1>3. IsFiniteSet(S)
  <2> DEFINE r(n) == [name |-> n, sha |-> diffs[n]]
  <2>1. ASSUME NEW x \in S PROVE x = r("n1") \/ x = r("n2")
    BY <1>2 DEF Names
  <2> HIDE DEF S, r
  <2>2. S \subseteq ({} \union {r("n1")}) \union {r("n2")}
    BY <2>1
  <2> QED
    BY <2>2, FS_EmptySet, FS_AddElement, FS_Subset
<1>4. /\ q \in Seq(S)
      /\ \A i, j \in 1..Len(q) : q[i] = q[j] => i = j
      /\ \A x \in S : \E i \in 1..Len(q) : q[i] = x
  <2> HIDE DEF S
  <2> QED
    BY <1>3, SequenceOfSet
<1> HIDE DEF q
<1>5. \A i \in DOMAIN q : q[i] \in S
  BY <1>4
<1>6. S \subseteq [name : Names, sha : {"sha"}]
  BY <1>2
<1>7. q \in Seq([name : Names, sha : {"sha"}])
  BY <1>4, <1>6, SeqMonotonic
<1>d. DOMAIN q = 1..Len(q)
  BY <1>4, LenProperties
<1>8. ASSUME NEW i \in DOMAIN q, NEW j \in DOMAIN q, i # j PROVE q[i].name # q[j].name
  <2>1. PICK n \in Recorded(diffs) : q[i] = [name |-> n, sha |-> diffs[n]]
    BY <1>5
  <2>2. PICK m \in Recorded(diffs) : q[j] = [name |-> m, sha |-> diffs[m]]
    BY <1>5
  <2>3. q[i] # q[j]
    BY <1>4, <1>8, <1>d
  <2> QED
    BY <2>1, <2>2, <2>3
<1>9. ASSUME NEW i \in DOMAIN q PROVE q[i].sha # Unset /\ q[i].sha = diffs[q[i].name]
  BY <1>2, <1>5
<1>10. ASSUME NEW n \in Recorded(diffs) PROVE \E i \in DOMAIN q : q[i].name = n
  <2>1. [name |-> n, sha |-> diffs[n]] \in S
    OBVIOUS
  <2>2. PICK i \in DOMAIN q : q[i] = [name |-> n, sha |-> diffs[n]]
    BY <1>4, <1>d, <2>1
  <2> QED
    BY <2>2
<1> QED
  BY <1>1, <1>7, <1>8, <1>9, <1>10 DEF SubjectMismatch

\* What makes a statement valid, and what a flat bundle (examineStatement, examineFlat, judge).
LEMMA StatementValid ==
    ASSUME NEW b, b.flat = FALSE, NEW key \in Keys
    PROVE  /\ Examine(b, key).valid <=>
                 /\ b.body.type = "statement" /\ b.body.predicateType = "run"
                 /\ b.signature = Signature(key, "jcs", b.body) /\ b.body.predicate.keySource = KeySource(key)
                 /\ ~ SubjectMismatch(b.body.subject, b.body.predicate.diffHashes)
           /\ Examine(b, key).legacy = FALSE
<1> DEFINE ok == b.signature = Signature(key, "jcs", b.body)
           report == Judge(key, b.body.predicate.keySource, FALSE, ok)
           wrong == \/ b.body.type # "statement" \/ b.body.predicateType # "run"
                    \/ (report.valid /\ SubjectMismatch(b.body.subject, b.body.predicate.diffHashes))
<1>1. Examine(b, key) = IF wrong THEN [report EXCEPT !.valid = FALSE] ELSE report
  BY DEF Examine, ExamineStatement
<1>2. /\ report.valid <=> ok /\ b.body.predicate.keySource = KeySource(key)
      /\ report.legacy = FALSE
      /\ [report EXCEPT !.valid = FALSE].valid = FALSE /\ [report EXCEPT !.valid = FALSE].legacy = FALSE
  BY DEF Judge, KeySource, Unset
<1> HIDE DEF report, ok
<1>3. CASE wrong
  <2>1. Examine(b, key).valid = FALSE /\ Examine(b, key).legacy = FALSE
    BY <1>1, <1>2, <1>3
  <2> QED
    BY <1>2, <1>3, <2>1 DEF ok
<1>4. CASE ~ wrong
  <2>1. Examine(b, key) = report
    BY <1>1, <1>4
  <2> QED
    BY <1>2, <1>4, <2>1 DEF ok
<1> QED
  BY <1>3, <1>4

\* A bundle is valid exactly if what is claimed is what is recomputed, under the right key.
LEMMA JudgeParts ==
    ASSUME NEW key \in Keys, NEW claimed, NEW legacy \in BOOLEAN, NEW ok \in BOOLEAN
    PROVE  /\ Judge(key, claimed, legacy, ok).valid <=>
                 ok /\ (claimed = KeySource(key) \/ (claimed = Unset /\ legacy))
           /\ Judge(key, claimed, legacy, ok).legacy <=> legacy
<1> DEFINE claimOk == IF claimed = Unset THEN legacy ELSE claimed = KeySource(key)
           report == Judge(key, claimed, legacy, ok)
<1>1. report = [valid |-> ok /\ claimOk, legacy |-> legacy]
  BY DEF Judge
<1>2. claimOk \in BOOLEAN /\ (claimOk <=> claimed = KeySource(key) \/ (claimed = Unset /\ legacy))
  <2>1. KeySource(key) # Unset
    BY DEF KeySource, Unset
  <2>2. CASE claimed = Unset
    BY <2>1, <2>2
  <2>3. CASE claimed # Unset
    BY <2>3
  <2> QED
    BY <2>2, <2>3
<1> HIDE DEF claimOk, report
<1>3. report.valid = (ok /\ claimOk) /\ report.legacy = legacy
  BY <1>1
<1>4. report.valid <=> ok /\ claimOk
  BY <1>2, <1>3, Zenon
<1>5. report.legacy <=> legacy
  BY <1>3, Zenon
<1> QED
  BY <1>2, <1>4, <1>5, Zenon DEF report

\* A flat bundle is valid exactly if it is signed over its own statement with the key it claims.
LEMMA FlatValid ==
    ASSUME NEW b, b.flat = TRUE, NEW key \in Keys
    PROVE  /\ b.signature = Signature(key, "jcs", RunStatement(b.body)) =>
                 /\ Examine(b, key).valid <=> b.body.keySource = KeySource(key)
                 /\ Examine(b, key).legacy = FALSE
           /\ b.signature # Signature(key, "jcs", RunStatement(b.body)) =>
                 /\ Examine(b, key).valid <=>
                       /\ b.signature = Signature(key, "json", b.body)
                       /\ b.body.keySource \in {Unset, KeySource(key)}
                 /\ Examine(b, key).legacy <=> b.signature = Signature(key, "json", b.body)
<1>1. CASE b.signature = Signature(key, "jcs", RunStatement(b.body))
  <2>1. Examine(b, key) = Judge(key, b.body.keySource, FALSE, TRUE)
    BY <1>1 DEF Examine, ExamineFlat
  <2> QED
    <3>1. Judge(key, b.body.keySource, FALSE, TRUE).legacy \in BOOLEAN
      BY DEF Judge
    <3> QED
      BY ZenonT(40), <1>1, <2>1, <3>1, JudgeParts
<1>2. CASE b.signature # Signature(key, "jcs", RunStatement(b.body))
  <2> DEFINE legacy == b.signature = Signature(key, "json", b.body)
  <2>1. Examine(b, key) = Judge(key, b.body.keySource, legacy, legacy)
    BY <1>2 DEF Examine, ExamineFlat
  <2>2. legacy \in BOOLEAN
    OBVIOUS
  <2> HIDE DEF legacy
  <2>3. /\ Examine(b, key).valid <=> legacy /\ b.body.keySource \in {Unset, KeySource(key)}
        /\ Examine(b, key).legacy <=> legacy
    BY <2>1, <2>2, JudgeParts
  <2> QED
    BY <1>2, <2>3 DEF legacy
<1> QED
  BY <1>1, <1>2

\* What a run signs, and what became of it: one case for each way.
RunBundle(status, diffs, k) == Sign(RunStatement(Predicate(status, TRUE, diffs, k)), k)
Unchanged == {"none", "flattened", "0.2.x"}

\* A signature agrees with another exactly if key, form and content do.
LEMMA SignatureParts ==
    ASSUME NEW k, NEW form, NEW c, NEW key, NEW f, NEW d
    PROVE  Signature(k, form, c) = Signature(key, f, d) <=> k = key /\ form = f /\ c = d
BY DEF Signature

\* A bundle of the run, edited in any of the ways or none, is judged by what was done to it.
LEMMA JudgedRight ==
    ASSUME NEW status \in Verdicts, NEW diffs \in Diffs, NEW k \in Keys, NEW key \in Keys,
           NEW how \in Edits \union Foreigns
    PROVE  LET report == Examine(Found(RunBundle(status, diffs, k), how), key) IN
               /\ report.valid <=> how \in Unchanged /\ key = k
               /\ report.valid => (report.legacy <=> how = "0.2.x")
<1> DEFINE p == Predicate(status, TRUE, diffs, k)
           q == SubjectsOf(diffs)
           s == RunStatement(p)
           b == RunBundle(status, diffs, k)
           f == Found(b, how)
<1>p. /\ p = [outcome |-> status, policyInForce |-> TRUE, diffHashes |-> diffs, keySource |-> KeySource(k)]
      /\ KeySource(k) \in {"env", "dev"} /\ (KeySource(k) = KeySource(key) <=> k = key)
      /\ status # "other"
  BY DEF Predicate, KeySource, Keys, Verdicts
<1>s. s = [type |-> "statement", predicateType |-> "run", subject |-> q, predicate |-> p]
  <2> HIDE DEF p
  <2>1. p.diffHashes = diffs
    BY <1>p
  <2> QED
    BY <2>1 DEF RunStatement
<1>b. b = [flat |-> FALSE, body |-> s, signature |-> Signature(k, "jcs", s)]
  BY DEF RunBundle, Sign
<1>k. b.signature.key = k /\ b.body = s /\ s.predicate = p
  <2> HIDE DEF b, s
  <2>1. b.signature = Signature(k, "jcs", s) /\ b.body = s
    BY <1>b
  <2> QED
    BY <1>s, <2>1 DEF Signature
<1>q. q \in Seq([name : Names, sha : {"sha"}]) /\ ~ SubjectMismatch(q, diffs)
  BY SubjectsMatch
<1> DEFINE Right == /\ Examine(f, key).valid <=> how \in Unchanged /\ key = k
                    /\ Examine(f, key).valid => (Examine(f, key).legacy <=> how = "0.2.x")
<1> SUFFICES Right
  OBVIOUS
<1> HIDE DEF p, q, s, b
<1>1. CASE how = "none"
  <2>1. f = b
    BY <1>1 DEF Found, Edited, Edits
  <2>2. b.flat = FALSE /\ b.body.type = "statement" /\ b.body.predicateType = "run" /\ b.body.subject = q
        /\ b.body.predicate = p /\ b.signature = Signature(k, "jcs", s) /\ b.body = s
    BY <1>b, <1>s
  <2>3. p.keySource = KeySource(k) /\ p.diffHashes = diffs
    BY <1>p
  <2>4. b.signature = Signature(key, "jcs", b.body) <=> k = key
    BY <2>2, SignatureParts
  <2>5. (Examine(b, key).valid <=> k = key) /\ Examine(b, key).legacy = FALSE
    BY <1>p, <1>q, <2>2, <2>3, <2>4, StatementValid
  <2> QED
    BY <1>1, <2>1, <2>5 DEF Unchanged
<1>2. CASE how = "flattened"
  <2>1. f = [flat |-> TRUE, body |-> p, signature |-> Signature(k, "jcs", s)]
    BY <1>2, <1>b, <1>k DEF Found, Edited, Edits, Flattened
  <2>2. RunStatement(p) = s
    BY DEF s
  <2>3. f.flat = TRUE /\ f.body.keySource = KeySource(k) /\ f.signature = Signature(k, "jcs", s) /\ f.body = p
    BY <1>p, <2>1
  <2>4. f.signature = Signature(key, "jcs", RunStatement(f.body)) <=> k = key
    BY <2>2, <2>3, SignatureParts
  <2>5. f.signature # Signature(key, "json", f.body)
    BY <2>3, SignatureParts
  <2> HIDE DEF f
  <2>6. (Examine(f, key).valid <=> k = key) /\ (k = key => Examine(f, key).legacy = FALSE)
    BY <1>p, <2>3, <2>4, <2>5, FlatValid
  <2> QED
    BY <1>2, <2>6 DEF Unchanged
<1>3. CASE how = "flat outcome"
  <2> DEFINE o == [p EXCEPT !.outcome = "other"]
  <2>1. f = [flat |-> TRUE, body |-> o, signature |-> Signature(k, "jcs", s)]
    BY <1>3, <1>b, <1>k DEF Found, Edited, Edits, Flattened
  <2>2. RunStatement(o).predicate = o /\ o # p
    BY <1>p DEF RunStatement
  <2>3. f.flat = TRUE /\ f.signature = Signature(k, "jcs", s) /\ f.body = o
    BY <2>1
  <2>4. RunStatement(o) # s
    BY <2>2, <1>k
  <2>5. f.signature # Signature(key, "jcs", RunStatement(f.body)) /\ f.signature # Signature(key, "json", f.body)
    BY <2>3, <2>4, SignatureParts
  <2> HIDE DEF f
  <2>6. ~ Examine(f, key).valid
    BY <2>3, <2>5, FlatValid
  <2> QED
    BY <1>3, <2>6 DEF Unchanged
<1>4. CASE how \in {"outcome", "claim", "subject", "type"}
  <2>1. f.flat = FALSE /\ f.signature = Signature(k, "jcs", s) /\ f.body # s
    <3>1. CASE how = "outcome"
      <4>1. f = [b EXCEPT !.body.predicate.outcome = "other"]
        BY <3>1 DEF Found, Edited, Edits
      <4>2. f.body.predicate.outcome = "other" /\ s.predicate.outcome = status
        BY <4>1, <1>b, <1>s, <1>p
      <4> QED
        BY <4>1, <4>2, <1>b, <1>p
    <3>2. CASE how = "claim"
      <4>1. f = [b EXCEPT !.body.predicate.keySource = IF @ = "env" THEN "dev" ELSE "env"]
        BY <3>2 DEF Found, Edited, Edits
      <4>2. f.body.predicate.keySource # s.predicate.keySource
        BY <4>1, <1>b, <1>s, <1>p
      <4> QED
        BY <4>1, <4>2, <1>b
    <3>3. CASE how = "subject"
      <4>1. f = [b EXCEPT !.body.subject = Append(@, [name |-> "n1", sha |-> "other"])]
        BY <3>3 DEF Found, Edited, Edits
      <4>2. f.body.subject = Append(q, [name |-> "n1", sha |-> "other"]) /\ s.subject = q
        BY <4>1, <1>b, <1>s
      <4>3. Append(q, [name |-> "n1", sha |-> "other"]) # q
        BY <1>q
      <4> QED
        BY <4>1, <4>2, <4>3, <1>b
    <3>4. CASE how = "type"
      <4>1. f = [b EXCEPT !.body.predicateType = "other"]
        BY <3>4 DEF Found, Edited, Edits
      <4>2. f.body.predicateType = "other" /\ s.predicateType = "run"
        BY <4>1, <1>b, <1>s
      <4> QED
        BY <4>1, <4>2, <1>b
    <3> QED
      BY <1>4, <3>1, <3>2, <3>3, <3>4
  <2>2. f.signature # Signature(key, "jcs", f.body)
    BY <2>1, SignatureParts
  <2> HIDE DEF f
  <2>3. ~ Examine(f, key).valid
    BY <2>1, <2>2, StatementValid
  <2> QED
    BY <1>4, <2>3 DEF Unchanged
<1>5. CASE how = "0.2.x"
  <2> DEFINE o == [p EXCEPT !.keySource = Unset]
  <2>1. f = [flat |-> TRUE, body |-> o, signature |-> Signature(k, "json", o)]
    BY <1>5, <1>k DEF Found, Foreign, Edits
  <2>2. f.flat = TRUE /\ f.signature = Signature(k, "json", o) /\ f.body = o /\ f.body.keySource = Unset
    BY <1>p, <2>1
  <2>3. f.signature # Signature(key, "jcs", RunStatement(f.body))
    BY <2>2, SignatureParts
  <2>4. f.signature = Signature(key, "json", f.body) <=> k = key
    BY <2>2, SignatureParts
  <2> HIDE DEF f
  <2>5. (Examine(f, key).valid <=> k = key) /\ (Examine(f, key).legacy <=> k = key)
    BY <2>2, <2>3, <2>4, FlatValid
  <2> QED
    BY <1>5, <2>5 DEF Unchanged
<1>6. CASE how \in {"unclaimed", "misclaimed", "unnamed diff", "extra subject"}
  <2>1. /\ f.flat = FALSE
        /\ \/ f.signature # Signature(key, "jcs", f.body)
           \/ f.body.predicate.keySource # KeySource(key)
           \/ SubjectMismatch(f.body.subject, f.body.predicate.diffHashes)
    <3>0. f = Foreign(b, how)
      BY <1>6 DEF Found, Edits
    <3>1. CASE how = "unclaimed"
      <4>1. f = Sign([s EXCEPT !.predicate.keySource = Unset], k)
        BY <3>0, <3>1, <1>k DEF Foreign
      <4>2. f.flat = FALSE /\ f.body.predicate.keySource = Unset
        BY <4>1, <1>s, <1>p DEF Sign
      <4> QED
        BY <4>2 DEF KeySource, Unset
    <3>2. CASE how = "misclaimed"
      <4> DEFINE o == [s EXCEPT !.predicate.keySource = IF @ = "env" THEN "dev" ELSE "env"]
      <4>1. f = Sign(o, k)
        BY <3>0, <3>2, <1>k DEF Foreign
      <4>2. o.predicate.keySource # KeySource(k)
        BY <1>s, <1>p
      <4>3. f.flat = FALSE /\ f.body = o /\ f.signature = Signature(k, "jcs", o)
        BY <4>1 DEF Sign
      <4>4. f.signature = Signature(key, "jcs", f.body) => k = key
        BY <4>3, SignatureParts
      <4> QED
        BY <4>2, <4>3, <4>4
    <3>3. CASE how = "unnamed diff"
      <4> DEFINE o == [s EXCEPT !.subject = <<>>, !.predicate.diffHashes["n1"] = "sha"]
      <4>1. f = Sign(o, k)
        BY <3>0, <3>3, <1>k DEF Foreign
      <4>2. o.subject = <<>> /\ o.predicate.diffHashes["n1"] = "sha"
        BY <1>s, <1>p DEF Diffs, Names
      <4>3. f.flat = FALSE /\ f.body = o
        BY <4>1 DEF Sign
      <4>4. SubjectMismatch(<<>>, o.predicate.diffHashes)
        BY <4>2 DEF SubjectMismatch, Recorded, Names, Unset
      <4> QED
        BY <4>2, <4>3, <4>4
    <3>4. CASE how = "extra subject"
      <4> DEFINE extra == [name |-> "n2", sha |-> "other"]
                 o == [s EXCEPT !.subject = Append(@, extra)]
      <4>1. f = Sign(o, k)
        BY <3>0, <3>4, <1>k DEF Foreign
      <4>2. o.subject = Append(q, extra) /\ o.predicate.diffHashes = diffs
        BY <1>s, <1>p
      <4>3. f.flat = FALSE /\ f.body = o
        BY <4>1 DEF Sign
      <4>4. Len(q) + 1 \in DOMAIN Append(q, extra) /\ Append(q, extra)[Len(q) + 1] = extra
        BY <1>q
      <4>5. diffs["n2"] # "other"
        BY DEF Diffs, Names, Unset
      <4>6. SubjectMismatch(Append(q, extra), diffs)
        BY <4>4, <4>5 DEF SubjectMismatch
      <4> QED
        BY <4>2, <4>3, <4>6
    <3> QED
      BY <1>6, <3>1, <3>2, <3>3, <3>4
  <2> HIDE DEF f
  <2>2. ~ Examine(f, key).valid
    BY <2>1, StatementValid
  <2> QED
    BY <1>6, <2>2 DEF Unchanged
<1> QED
  BY <1>1, <1>2, <1>3, <1>4, <1>5, <1>6 DEF Edits, Foreigns

\* Whatever step makes a bundle is Attest's, and the bundle is the run's, signed over what its
\* statement says (Attestor.bundle).
LEMMA OnlyAttestSigns ==
    ASSUME IInv, [Next]_vars, bundle' # bundle
    PROVE  \E status \in Verdicts, diffs \in Diffs, k \in Keys : bundle' = RunBundle(status, diffs, k)
<1>1. Attest
  <2>1. ~ EarlySteps
    BY EarlyStep
  <2>2. ~ (ReadBaseCommit \/ Add \/ VerifyDirectory \/ Wire \/ AskForPlan \/ PlanDone \/ DagEnds)
    BY DEF ReadBaseCommit, Add, VerifyDirectory, Wire, AskForPlan, PlanDone, DagEnds, runVars
  <2>3. ~ (FinishWorktree \/ Close \/ PlanCallMoves \/ Agents \/ GraphWorks)
    BY DEF FinishWorktree, Close, PlanCallMoves, Agents, GraphWorks, runVars
  <2>4. ~ (Meanwhile \/ SomeoneEdits \/ Removed \/ UNCHANGED vars)
    BY DEF Meanwhile, SomeoneEdits, Removed, runVars, vars
  <2> QED
    BY <2>1, <2>2, <2>3, <2>4 DEF Next, Command, EarlySteps
<1>2. PICK secret \in {"own", None} : bundle' = RunBundle(outcome, DiffHashes, SigningKey(secret))
  BY <1>1 DEF Attest, RunBundle
<1>3. outcome \in Verdicts
  BY <1>1 DEF Attest, IInv, RunOK, SoFar
<1>4. DiffHashes \in Diffs /\ SigningKey(secret) \in Keys
  BY DEF DiffHashes, Diffs, SigningKey, Keys
<1> QED
  BY <1>2, <1>3, <1>4

\* Whatever was done to the run's bundle on its way, verifying it says valid exactly if it is as it
\* was signed and the key is the signer's (Attestor.verify, RunCommand's bundle).
THEOREM ValidIsSigned == Spec => VerifiedIsSigned
<1> DEFINE Right == \A how \in Edits \union Foreigns, key \in Keys :
               LET report == Examine(Found(bundle', how), key) IN
                   /\ report.valid <=> how \in {"none", "flattened", "0.2.x"} /\ key = bundle'.signature.key
                   /\ report.valid => (report.legacy <=> how = "0.2.x")
<1>1. ASSUME IInv, [Next]_vars, bundle' # bundle PROVE Right
  <2>1. PICK status \in Verdicts, diffs \in Diffs, k \in Keys : bundle' = RunBundle(status, diffs, k)
    BY <1>1, OnlyAttestSigns
  <2>2. RunBundle(status, diffs, k).signature.key = k
    BY DEF RunBundle, Sign, Signature
  <2>3. bundle'.signature.key = k
    BY <2>1, <2>2
  <2> QED
    BY <2>1, <2>3, JudgedRight DEF Unchanged
<1>2. IInv /\ [Next]_vars => [bundle' # bundle => Right]_vars
  BY <1>1
<1> QED
  BY <1>2, Invariant, PTL DEF Spec, VerifiedIsSigned

\* What makes ReleasedWhenIdle inductive: nothing is under way before the handle is opened
\* either, so that a close that finds it idle, and an opening, start from an empty inFlight.
IdleOutside == graph \in {"unopened", "released"} => inFlight = {}

\* A step of the command, as far as the handle can tell (KuzuDriver.ts:69-133).
HandleStep ==
    \/ OpenGraph
    \/ GraphMoves
    \/ CloseGraph /\ UNCHANGED inFlight
    \/ UNCHANGED <<graph, inFlight>>

\* Every step of runTask and around it opens the handle, moves it, closes it or leaves it alone.
LEMMA StepOfHandle == Next => HandleStep
<1> SUFFICES ASSUME Next PROVE HandleStep
  OBVIOUS
<1> USE DEF HandleStep
<1>1. CASE FindConfig \/ ReadConfig \/ ConfigGone \/ ResolveConfig \/ ReadRoles \/ RolesGone \/ Prepare
  BY <1>1 DEF FindConfig, ReadConfig, ConfigGone, ResolveConfig, ReadRoles, RolesGone, Prepare, laterVars, graphVars
<1>2. CASE LoadPolicy \/ PolicyGone \/ OpenLcm \/ CreateForRun
  BY <1>2 DEF LoadPolicy, PolicyGone, OpenLcm, CreateForRun, laterVars, graphVars
<1>3. CASE ReadBaseCommit \/ Add \/ VerifyDirectory \/ Wire
  BY <1>3 DEF ReadBaseCommit, Add, VerifyDirectory, Wire, graphVars
<1>4. CASE AskForPlan \/ PlanCallMoves \/ PlanDone
  BY <1>4 DEF AskForPlan, PlanCallMoves, PlanDone, graphVars
<1>5. CASE DagEnds \/ Attest \/ FinishWorktree
  BY <1>5 DEF DagEnds, Attest, FinishWorktree, graphVars
<1>6. CASE Open
  BY <1>6 DEF Open, graphVars
<1>7. CASE Close
  BY <1>7 DEF Close
<1>8. CASE GraphWorks
  BY <1>8 DEF GraphWorks
<1>9. CASE Agents \/ Meanwhile \/ SomeoneEdits \/ Removed
  BY <1>9 DEF Agents, Meanwhile, SomeoneEdits, Removed, graphVars
<1> QED
  BY <1>1, <1>2, <1>3, <1>4, <1>5, <1>6, <1>7, <1>8, <1>9 DEF Next, Command

\* track's finally: what settles was in flight, so the handle was neither unopened nor freed;
\* it is freed by the last one only (KuzuDriver.ts:92-116).
LEMMA SettlingKeepsIdle ==
    ASSUME NEW x, x \in inFlight, IdleOutside, Settled(x)
    PROVE  IdleOutside'
<1>1. graph \notin {"unopened", "released"}
  BY DEF IdleOutside
<1>2. CASE graph = "closed" /\ inFlight = {x}
  BY <1>2 DEF Settled, IdleOutside
<1>3. CASE ~ (graph = "closed" /\ inFlight = {x})
  BY <1>1, <1>3 DEF Settled, IdleOutside
<1> QED
  BY <1>2, <1>3

\* A move of the handle keeps it idle where it is not open: a statement or a query is issued
\* to an open handle only, and the rest settles.
LEMMA MovesKeepIdle == IdleOutside /\ GraphMoves => IdleOutside'
<1> SUFFICES ASSUME IdleOutside, GraphMoves PROVE IdleOutside'
  OBVIOUS
<1>1. CASE InitSettles
  BY <1>1, SettlingKeepsIdle DEF InitSettles
<1>2. CASE StatementSettles
  BY <1>2, SettlingKeepsIdle DEF StatementSettles
<1>3. CASE NextStatement
  BY <1>3 DEF NextStatement, Accepts, IdleOutside
<1>4. ASSUME NEW q \in Queries, Issue(q) PROVE IdleOutside'
  BY <1>4 DEF Issue, Accepts, IdleOutside
<1>5. ASSUME NEW q \in Queries, QuerySettles(q) PROVE IdleOutside'
  BY <1>5, SettlingKeepsIdle DEF QuerySettles
<1> QED
  BY <1>1, <1>2, <1>3, <1>4, <1>5 DEF GraphMoves

\* Nothing is under way before the handle is opened nor once it is released: every step keeps this.
LEMMA StepKeepsIdle == IdleOutside /\ [Next]_vars => IdleOutside'
<1> SUFFICES ASSUME IdleOutside, [Next]_vars PROVE IdleOutside'
  OBVIOUS
<1>1. CASE OpenGraph
  BY <1>1 DEF OpenGraph, IdleOutside
<1>2. CASE GraphMoves
  BY <1>2, MovesKeepIdle
<1>3. CASE CloseGraph /\ UNCHANGED inFlight
  BY <1>3 DEF CloseGraph, IdleOutside
<1>4. CASE UNCHANGED <<graph, inFlight>>
  BY <1>4 DEF IdleOutside
<1>5. CASE UNCHANGED vars
  BY <1>5 DEF vars, graphVars, IdleOutside
<1> QED
  BY <1>1, <1>2, <1>3, <1>4, <1>5, StepOfHandle DEF HandleStep

\* For every run of `maf run`: once the database is freed nothing is in flight on it, however
\* the queries, the schema's statements, the close and the rest of the command interleave.
THEOREM FreedWhenIdle == Spec => []ReleasedWhenIdle
<1>1. Init => IdleOutside
  BY DEF Init, GraphInit, IdleOutside
<1>2. IdleOutside => ReleasedWhenIdle
  BY DEF IdleOutside, ReleasedWhenIdle
<1> QED
  BY <1>1, <1>2, StepKeepsIdle, PTL DEF Spec
=============================================================================

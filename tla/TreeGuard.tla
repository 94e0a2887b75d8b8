------------------------------- MODULE TreeGuard -------------------------------
(***************************************************************************)
(* Who answers for a change to the shared working tree: roles'             *)
(* RoleDispatcher, its post-coder gate and its reader change guard (F7).   *)
(*                                                                         *)
(* Nodes of three kinds share one tree.  A writer works under the          *)
(* scheduler's lock, and before it leaves its gate reads the diff of the   *)
(* tree against the commit the node started from.  A reader must leave the *)
(* tree as it found it: its turn is bracketed by two tree snapshots, and a *)
(* difference either is attributed to a writer or fails the reader.  An    *)
(* in-process reader runs beside writers; a cli-tier reader takes the lock *)
(* like a writer and has no gate.                                          *)
(*                                                                         *)
(* A step is what runs between two awaits.  Every git command is awaited,  *)
(* so each has a step of its own at the moment it looks at the tree.       *)
(***************************************************************************)
EXTENDS Integers, Sequences, FiniteSets

CONSTANTS
    Writer, Reader, CliReader,  \* the nodes, by kind
    Path, Content,              \* what a tree is made of
    Original,                   \* every path's content when the run starts
    Lacking,                    \* sets of these nodes: each plan is without one of them
    MaxAttempts,                \* retryPolicy.maxAttempts of the writers
    MaxEdits,                   \* bound: edits each node makes
    ReadersWrite,               \* whether a reader's turn may change the tree
    WritersCommit,              \* whether a writer may commit its own work
    None                        \* absent: no node, no tree, no evidence

LockUser == Writer \cup CliReader
AnyReader == Reader \cup CliReader
Node == Writer \cup AnyReader
Tree == [Path -> Content]

ASSUME KindsAssumption ==
    /\ Writer \cap AnyReader = {} /\ Reader \cap CliReader = {}
    /\ None \notin Node \cup Tree /\ Lacking \subseteq SUBSET Node
    /\ Original \in Content
    /\ MaxAttempts \in Nat \ {0} /\ MaxEdits \in Nat
    /\ ReadersWrite \in BOOLEAN /\ WritersCommit \in BOOLEAN

VARIABLES
    tree, head,   \* the working tree, and the commit HEAD names
    holder,       \* the node holding the writer lock
    acquired,     \* the lock's holders so far, in acquisition order
    at,           \* where each node's code stands
    edits,        \* edits made, per node
    failed,       \* the nodes that ended Failed
    attempt,      \* attempts begun, per writer
    base,         \* baselineFor: the commit a writer is reviewed against
    writerNodes,  \* nodes the dispatcher started as writers
    gating,       \* writers whose gate has begun this attempt
    evidence,     \* reviewedPaths and gateTrees, set and cleared together
    snapshot,     \* runPostCoderGates' local gateTree
    bracket,      \* each reader's two snapshots, window and open candidates
    result,       \* each reader's attribution
    diffRead,     \* history: what a writer's gate diff showed
    treeRead,     \* history: what a gate's recorded tree and paths showed
    hidden        \* history: paths committed with a content the gate was not shown

runVars == <<tree, head, holder, acquired>>
nodeVars == <<at, edits, failed>>
gateVars == <<attempt, base, writerNodes, gating, evidence, snapshot, diffRead, treeRead,
              hidden>>
readerVars == <<bracket, result>>
vars == <<runVars, nodeVars, gateVars, readerVars>>

WriterStage ==
    {"idle", "held", "starting", "setup", "turn", "gateTree", "gateDiff", "gatePaths",
     "judging", "backoff", "leaving", "ended"}
ReaderStage ==
    {"idle", "held", "opening", "turn", "closing", "asking", "checking", "leaving", "ended"}

\* The paths on which two trees differ.
Changed(from, to) == {p \in Path : from[p] # to[p]}

EmptyBracket == [from |-> None, to |-> None, window |-> {}, asked |-> 0, gateTree |-> None]
NotAttributed == [writer |-> None, rule |-> "none", gateTree |-> None]

\* A gate's evidence, a reader's two snapshots with what was asked in between, and
\* what became of them.
Evidence == [paths : SUBSET Path, tree : Tree]
Bracket ==
    [from : Tree \cup {None}, to : Tree \cup {None}, window : SUBSET LockUser, asked : Nat,
     gateTree : Tree \cup {None}]
Result == [writer : LockUser \cup {None}, rule : {"none", "a", "b"}, gateTree : Tree \cup {None}]

TypeOK ==
    /\ tree \in Tree /\ head \in Tree
    /\ holder \in LockUser \cup {None}
    /\ acquired \in Seq(LockUser)
    /\ at \in [Node -> WriterStage \cup ReaderStage]
    /\ \A w \in Writer : at[w] \in WriterStage
    /\ \A r \in AnyReader : at[r] \in ReaderStage
    /\ edits \in [Node -> 0 .. MaxEdits]
    /\ failed \subseteq Node
    /\ attempt \in [Writer -> 0 .. MaxAttempts]
    /\ base \in [Writer -> Tree \cup {None}]
    /\ writerNodes \subseteq Writer
    /\ gating \subseteq Writer
    /\ evidence \in [LockUser -> Evidence \cup {None}]
    /\ snapshot \in [Writer -> Tree \cup {None}]
    /\ bracket \in [AnyReader -> Bracket]
    /\ result \in [AnyReader -> Result]
    /\ diffRead \subseteq Writer \X Path \X Content
    /\ treeRead \subseteq Writer \X Path \X Content
    /\ hidden \subseteq Path

Init ==
    /\ tree = [p \in Path |-> Original]
    /\ head = tree
    /\ holder = None
    /\ acquired = <<>>
    /\ \E absent \in Lacking : at = [n \in Node |-> IF n \in absent THEN "ended" ELSE "idle"]
    /\ edits = [n \in Node |-> 0]
    /\ failed = {}
    /\ attempt = [w \in Writer |-> 0]
    /\ base = [w \in Writer |-> None]
    /\ writerNodes = {}
    /\ gating = {}
    /\ evidence = [n \in LockUser |-> None]
    /\ snapshot = [w \in Writer |-> None]
    /\ bracket = [r \in AnyReader |-> EmptyBracket]
    /\ result = [r \in AnyReader |-> NotAttributed]
    /\ diffRead = {}
    /\ treeRead = {}
    /\ hidden = {}

Goto(n, stage) == at' = [at EXCEPT ![n] = stage]

\* The node's verdict is Failed; the lock stays with it until it has left.
Fails(n) == Goto(n, "leaving") /\ failed' = failed \cup {n}

--------------------------------------------------------------------------------
(***************************************************************************)
(* The scheduler's lock, as DagRunner hands it out                         *)
(***************************************************************************)

\* The reader's window is open between bracket.at and endedAt.
WindowOpen(r) == at[r] \in {"opening", "turn", "closing"}

Acquire(n) ==
    /\ at[n] = "idle"
    /\ holder = None
    /\ holder' = n
    /\ acquired' = Append(acquired, n)
    /\ Goto(n, "held")
    /\ bracket' = [r \in AnyReader |->
                     IF WindowOpen(r) THEN [bracket[r] EXCEPT !.window = @ \cup {n}]
                     ELSE bracket[r]]
    /\ UNCHANGED <<tree, head, edits, failed, gateVars, result>>

Release(n) ==
    /\ at[n] = "leaving"
    /\ Goto(n, "ended")
    /\ holder' = IF holder = n THEN None ELSE holder
    /\ UNCHANGED <<tree, head, acquired, edits, failed, gateVars, readerVars>>

\* Any node's turn may change the tree; a reader's should not, which is what the
\* guard is for.
Edit(n) ==
    /\ at[n] = "turn"
    /\ n \in Writer \/ ReadersWrite
    /\ edits[n] < MaxEdits
    /\ \E p \in Path, c \in Content :
        /\ c # tree[p]
        /\ tree' = [tree EXCEPT ![p] = c]
    /\ edits' = [edits EXCEPT ![n] = @ + 1]
    /\ UNCHANGED <<head, holder, acquired, at, failed, gateVars, readerVars>>

--------------------------------------------------------------------------------
(***************************************************************************)
(* A writer's attempt: runNode and runPostCoderGates                       *)
(***************************************************************************)

\* A fresh attempt clears the gate evidence of the one before.
BeginAttempt(w) ==
    /\ at[w] \in {"held", "backoff"}
    /\ Goto(w, "starting")
    /\ attempt' = [attempt EXCEPT ![w] = @ + 1]
    /\ evidence' = [evidence EXCEPT ![w] = None]
    /\ gating' = gating \ {w}
    /\ UNCHANGED <<runVars, edits, failed, base, writerNodes, snapshot, diffRead, treeRead,
                   hidden, readerVars>>

\* git rev-parse HEAD, once per node, and only then is the node known as a writer.
Baseline(w) ==
    /\ at[w] = "starting"
    /\ Goto(w, "setup")
    /\ base' = [base EXCEPT ![w] = IF @ = None THEN head ELSE @]
    /\ writerNodes' = writerNodes \cup {w}
    /\ UNCHANGED <<runVars, edits, failed, attempt, gating, evidence, snapshot, diffRead,
                   treeRead, hidden, readerVars>>

\* The transcript, the role's prompt and the injected context: a failure here is
\* before the try, so no gate runs.
Setup(w) ==
    /\ at[w] = "setup"
    /\ \/ Goto(w, "turn") /\ UNCHANGED failed
       \/ Fails(w)
    /\ UNCHANGED <<runVars, edits, gateVars, readerVars>>

\* An agent may commit its own work during its turn.
Commit(w) ==
    /\ at[w] = "turn"
    /\ WritersCommit
    /\ head # tree
    /\ head' = tree
    /\ UNCHANGED <<tree, holder, acquired, nodeVars, gateVars, readerVars>>

\* The turn is over, by an answer or by an error: the gate begins.
GateBegins(w) ==
    /\ at[w] = "turn"
    /\ Goto(w, "gateTree")
    /\ gating' = gating \cup {w}
    /\ UNCHANGED <<runVars, edits, failed, attempt, base, writerNodes, evidence, snapshot,
                   diffRead, treeRead, hidden, readerVars>>

\* snapshotTree, the id recorded as evidence below.
GateTree(w) ==
    /\ at[w] = "gateTree"
    /\ Goto(w, "gateDiff")
    /\ snapshot' = [snapshot EXCEPT ![w] = tree]
    /\ UNCHANGED <<runVars, edits, failed, attempt, base, writerNodes, gating, evidence,
                   diffRead, treeRead, hidden, readerVars>>

\* snapshotDiff, the diff the security gate and the reviewer are given.
GateDiff(w) ==
    /\ at[w] = "gateDiff"
    /\ Goto(w, "gatePaths")
    /\ diffRead' = diffRead \cup {<<w, p, tree[p]>> : p \in Changed(base[w], tree)}
    /\ hidden' = hidden \cup {p \in Path : head[p] \notin {base[w][p], tree[p]}}
    /\ UNCHANGED <<runVars, edits, failed, attempt, base, writerNodes, gating, evidence,
                   snapshot, treeRead, readerVars>>

\* git diff --name-only between the start commit and the gate tree.
GatePaths(w) ==
    /\ at[w] = "gatePaths"
    /\ Goto(w, "judging")
    /\ LET paths == Changed(base[w], snapshot[w])
       IN  /\ evidence' = [evidence EXCEPT ![w] = [paths |-> paths, tree |-> snapshot[w]]]
           /\ treeRead' = treeRead \cup {<<w, p, snapshot[w][p]>> : p \in paths}
    /\ UNCHANGED <<runVars, edits, failed, attempt, base, writerNodes, gating, snapshot,
                   diffRead, hidden, readerVars>>

\* git failed: an error and no verdict.  After the diff was read the evidence is
\* set to a gate that reviewed nothing.
GateGitFails(w) ==
    /\ at[w] \in {"gateTree", "gateDiff", "gatePaths"}
    /\ evidence' = IF at[w] = "gatePaths"
                   THEN [evidence EXCEPT ![w] = [paths |-> {}, tree |-> snapshot[w]]]
                   ELSE evidence
    /\ Fails(w)
    /\ UNCHANGED <<runVars, edits, attempt, base, writerNodes, gating, snapshot, diffRead,
                   treeRead, hidden, readerVars>>

\* Wrong: one attempt too many.
JudgedOnceMore(w) ==
    /\ at[w] = "judging"
    /\ \/ Goto(w, "leaving") /\ UNCHANGED failed
       \/ attempt[w] <= MaxAttempts /\ Goto(w, "backoff") /\ UNCHANGED failed
       \/ Fails(w)
    /\ UNCHANGED <<runVars, edits, gateVars, readerVars>>

\* The gates' verdict on the diff: passed, refused, or a TransportError of the
\* gate's own model call (or of the turn), which is retried while attempts last.
Judged(w) ==
    /\ at[w] = "judging"
    /\ \/ Goto(w, "leaving") /\ UNCHANGED failed
       \/ attempt[w] < MaxAttempts /\ Goto(w, "backoff") /\ UNCHANGED failed
       \/ Fails(w)
    /\ UNCHANGED <<runVars, edits, gateVars, readerVars>>

--------------------------------------------------------------------------------
(***************************************************************************)
(* A reader's attempt: runNode's bracket and readerChangeGuard             *)
(***************************************************************************)

\* bracket.at is read before the start snapshot is awaited.  A hold that ended on
\* the very reading the window opens on is in the ledger's answer too.
Open(r) ==
    /\ at[r] = (IF r \in CliReader THEN "held" ELSE "idle")
    /\ Goto(r, "opening")
    /\ \E touching \in {{}} \cup (IF acquired = <<>> THEN {} ELSE {{acquired[Len(acquired)]}}) :
        bracket' = [bracket EXCEPT ![r].window = touching \cup ({holder} \ {None})]
    /\ UNCHANGED <<runVars, edits, failed, gateVars, result>>

StartTree(r) ==
    /\ at[r] = "opening"
    /\ Goto(r, "turn")
    /\ bracket' = [bracket EXCEPT ![r].from = tree]
    /\ UNCHANGED <<runVars, edits, failed, gateVars, result>>

\* The end snapshot: the same tree id means the turn changed nothing.
EndTree(r) ==
    /\ at[r] = "turn"
    /\ Goto(r, IF tree = bracket[r].from THEN "leaving" ELSE "closing")
    /\ bracket' = [bracket EXCEPT ![r].to = tree]
    /\ UNCHANGED <<runVars, edits, failed, gateVars, result>>

\* diffTrees has returned and endedAt is read: the window closes.
CloseWindow(r) ==
    /\ at[r] = "closing"
    /\ Goto(r, "asking")
    /\ UNCHANGED <<runVars, edits, failed, gateVars, readerVars>>

BracketPaths(r) == Changed(bracket[r].from, bracket[r].to)

\* ledger.writersOverlapping(at, endedAt), in the order the lock was acquired, the
\* reader itself left out: their places in that order.
Candidates(r) == {i \in DOMAIN acquired : acquired[i] \in bracket[r].window \ {r}}

\* Wrong: a holder is named until its gate has finished, not until it begins.
RuleAWhileGating(r) ==
    {w \in Writer : w \in bracket[r].window /\ w \in writerNodes /\ holder = w
                        /\ evidence[w] = None}

\* Rule (a): a writer of this dispatcher, holding the lock, its gate not begun.
RuleA(r) ==
    {w \in Writer :
        /\ w \in bracket[r].window
        /\ w \in writerNodes
        /\ holder = w
        /\ w \notin gating
        /\ evidence[w] = None}

\* The part of rule (b) read before the await: the writer reviewed every path.
Reviewed(n, r) ==
    /\ evidence[n] # None
    /\ BracketPaths(r) \subseteq evidence[n].paths

\* The candidates after the k-th holder that reviewed every path of the bracket.
ReviewedAfter(k, r) == {i \in Candidates(r) : i > k /\ Reviewed(acquired[i], r)}

Unexpected(r) == Fails(r) /\ UNCHANGED readerVars

\* Goes on with rule (b) after the k-th holder: capture the gate tree of the next
\* candidate that reviewed the paths and await the comparison, or give up.
Check(r, k) ==
    LET left == ReviewedAfter(k, r)
    IN  \/ /\ left = {}
           /\ Unexpected(r)
        \/ \E i \in left :
              /\ \A j \in left : i <= j
              /\ Goto(r, "checking")
              /\ bracket' = [bracket EXCEPT ![r].asked = i,
                                            ![r].gateTree = evidence[acquired[i]].tree]
              /\ UNCHANGED <<failed, result>>

\* The guard names w; the record's writerGateTree is looked up only now.
Attribute(r, w, rule) ==
    /\ result' = [result EXCEPT ![r] =
                    [writer |-> w, rule |-> rule,
                     gateTree |-> IF evidence[w] = None THEN None ELSE evidence[w].tree]]
    /\ Goto(r, "leaving")
    /\ UNCHANGED <<failed, bracket>>

\* attributableWriter up to its first await.  A cli-tier reader is not excused,
\* and neither is a bracket whose paths git cannot settle.
Ask(r) ==
    /\ at[r] = "asking"
    /\ \/ Unexpected(r)
       \/ /\ r \in Reader
          /\ \/ \E w \in RuleA(r) : Attribute(r, w, "a")
             \/ RuleA(r) = {} /\ Check(r, 0)
    /\ UNCHANGED <<runVars, edits, gateVars>>

\* Wrong: a reviewed path is as good as reviewed content.
AnswerByPath(r) ==
    /\ at[r] = "checking"
    /\ Attribute(r, acquired[bracket[r].asked], "b")
    /\ UNCHANGED <<runVars, edits, gateVars>>

\* unchangedSince has answered for the captured gate tree, or git failed.
Answer(r) ==
    /\ at[r] = "checking"
    /\ \/ /\ \A p \in BracketPaths(r) : bracket[r].gateTree[p] = bracket[r].to[p]
          /\ Attribute(r, acquired[bracket[r].asked], "b")
       \/ Check(r, bracket[r].asked)
    /\ UNCHANGED <<runVars, edits, gateVars>>

--------------------------------------------------------------------------------
WriterStep(w) ==
    \/ BeginAttempt(w) \/ Baseline(w) \/ Setup(w) \/ Commit(w)
    \/ GateBegins(w) \/ GateTree(w) \/ GateDiff(w) \/ GatePaths(w) \/ GateGitFails(w)
    \/ Judged(w)

ReaderStep(r) ==
    \/ Open(r) \/ StartTree(r) \/ EndTree(r) \/ CloseWindow(r) \/ Ask(r) \/ Answer(r)

AllEnded == \A n \in Node : at[n] = "ended"

Next ==
    \/ \E n \in LockUser : Acquire(n)
    \/ \E n \in Node : Edit(n) \/ Release(n)
    \/ \E w \in Writer : WriterStep(w)
    \/ \E r \in AnyReader : ReaderStep(r)
    \/ AllEnded /\ UNCHANGED vars

Spec == Init /\ [][Next]_vars

--------------------------------------------------------------------------------
(***************************************************************************)
(* Properties                                                              *)
(***************************************************************************)

\* Some writer's gate saw content c at path p, in the tree it recorded or in the
\* diff it was given.
ReadByAGate(p, c) == \E w \in Writer : <<w, p, c>> \in diffRead \cup treeRead

Succeeded == AllEnded /\ failed = {}

\* What the tree holds at the end it held at the start, or a writer's gate read
\* it there.
ReadAtTheEnd(p) == tree[p] # Original => ReadByAGate(p, tree[p])

\* A reader that wrote during its turn and whose snapshots do not show it.
PutBack(r, p) == edits[r] > 0 /\ bracket[r].from[p] = bracket[r].to[p]

\* A path nobody can be sure of: a node committed a content there that its gate,
\* which diffs the working tree, was not shown; or a reader put it back.
OutOfSight(p) == p \in hidden \/ \E r \in AnyReader : PutBack(r, p)

\* No run succeeds with a change no gate has read, readers that wrote, commits,
\* retries and changes between a gate's git commands included, except on a path
\* that was out of the gates' sight (D-42; RoleDispatcher.ts:1025-1028, 1138-1173).
ReadUnlessOutOfSight ==
    Succeeded => \A p \in Path : ReadAtTheEnd(p) \/ OutOfSight(p)

\* What rule (b) excuses, a gate of the named writer read on that very path with
\* that very content, whatever retries, commits and later edits came between the
\* gate, the reader's end snapshot and the answer (RoleDispatcher.ts:1023-1026, 1138-1173).
RuleBWasRead ==
    \A r \in AnyReader : result[r].rule = "b" =>
        \A p \in BracketPaths(r) : <<result[r].writer, p, bracket[r].to[p]>> \in treeRead

================================================================================

-------------------------- MODULE TreeGuard_proofs --------------------------
(* The change guard's safety, for any nodes, paths, contents, retries, edits *)
(* and plans.                                                                *)
EXTENDS TreeGuard, TLAPS

\* Where a writer's gate has its attempt's diff still to read, and where it has a baseline.
BeforeDiff == {"starting", "setup", "turn", "gateTree", "gateDiff"}
Based == {"setup", "turn", "gateTree", "gateDiff", "gatePaths", "judging", "backoff"}
Judging == {"closing", "asking", "checking"}

\* The writer that is at work holds the lock, and has its baseline and its gate's tree in time.
Locked == \A w \in Writer : at[w] \notin {"idle", "ended"} <=> holder = w
Equipped == \A w \in Writer :
    /\ at[w] \in Based => base[w] # None
    /\ at[w] \in {"gateDiff", "gatePaths"} => snapshot[w] # None

\* A writer's attempts are counted from one, and a retry is one that is left.
Counted == \A w \in Writer :
    /\ at[w] \in {"idle", "held"} => attempt[w] = 0
    /\ at[w] = "backoff" => attempt[w] < MaxAttempts

\* A writer that is known as one and whose gate has not begun has it to come.
ToGate == \A w \in Writer :
    w \in writerNodes \ gating => at[w] \in {"starting", "setup", "turn", "ended"} \/ w \in failed

\* What a gate's evidence says it reviewed, it read.
EvidenceRead == \A n \in LockUser : evidence[n] # None =>
    \A p \in evidence[n].paths : <<n, p, evidence[n].tree[p]>> \in treeRead

\* A reader has its snapshots in time; while trees are compared, the gate tree that was captured
\* was read on every path of the bracket; and what rule (b) excused was read.
ReadFor(r) ==
    /\ at[r] \in {"turn"} \cup Judging => bracket[r].from # None
    /\ at[r] \in Judging => bracket[r].to # None
    /\ at[r] = "checking" =>
          /\ bracket[r].asked \in DOMAIN acquired
          /\ \A p \in BracketPaths(r) : <<acquired[bracket[r].asked], p, bracket[r].gateTree[p]>> \in treeRead
    /\ result[r].rule # "none" => at[r] \in {"leaving", "ended"}
    /\ result[r].rule = "b" => \A p \in BracketPaths(r) : <<result[r].writer, p, bracket[r].to[p]>> \in treeRead

\* Nobody has to look at the content c of the path p any more.
Known(p, c) == c = Original \/ ReadByAGate(p, c)
Cleared(p, c) == Known(p, c) \/ p \in hidden

\* Until a node fails, a commit is cleared, or a writer's diff against its baseline is to come.
HeadCleared == \A p \in Path :
    Cleared(p, head[p]) \/ \E w \in Writer : at[w] \in BeforeDiff \ {"starting", "setup"}
BaseCleared == \A w \in Writer : base[w] # None => \A p \in Path : Cleared(p, base[w][p])

\* And a change of the tree is cleared, or a gate's diff is to come, or a reader is still to be
\* judged for it, or one put the path back.
ToAnswer(r, p) ==
    \/ at[r] = "turn" /\ edits[r] > 0
    \/ at[r] \in Judging /\ bracket[r].to[p] = tree[p] /\ p \in BracketPaths(r)
TreeCleared == \A p \in Path :
    \/ Cleared(p, tree[p])
    \/ \E w \in Writer : at[w] \in BeforeDiff
    \/ \E r \in AnyReader : ToAnswer(r, p)
    \/ \E r \in AnyReader : at[r] \in Judging \cup {"leaving", "ended"} /\ PutBack(r, p)

IInv ==
    /\ TypeOK /\ Locked /\ Equipped /\ Counted /\ ToGate
    /\ EvidenceRead /\ \A r \in AnyReader : ReadFor(r)
    /\ failed = {} => HeadCleared /\ BaseCleared /\ TreeCleared

-----------------------------------------------------------------------------
(* Types.                                                                    *)

\* A node is of one kind, and no tree is None.
LEMMA Kinds ==
    /\ Writer \subseteq LockUser /\ LockUser \subseteq Node /\ AnyReader \subseteq Node
    /\ \A w \in Writer : w \notin AnyReader
    /\ None \notin Tree /\ None \notin Node
BY KindsAssumption DEF LockUser, AnyReader, Node

\* The types hold at first.
LEMMA TypesBegin == Init => TypeOK
<1> SUFFICES ASSUME Init PROVE TypeOK
  OBVIOUS
<1>1. [p \in Path |-> Original] \in Tree
  BY KindsAssumption DEF Tree
<1>2. at \in [Node -> {"idle", "ended"}]
  BY DEF Init
<1>3. <<>> \in Seq(LockUser)
  OBVIOUS
<1>4. EmptyBracket \in Bracket /\ NotAttributed \in Result
  BY DEF EmptyBracket, Bracket, NotAttributed, Result
<1> QED
  BY <1>1, <1>2, <1>3, <1>4, Kinds, KindsAssumption DEF Init, TypeOK, WriterStage, ReaderStage

\* A move of one node within its stages keeps the types of where the nodes are.
LEMMA MoveTyped ==
    ASSUME TypeOK, NEW n \in Node, NEW stage, Goto(n, stage),
           n \in Writer => stage \in WriterStage, n \in AnyReader => stage \in ReaderStage
    PROVE  /\ at' \in [Node -> WriterStage \cup ReaderStage]
           /\ \A w \in Writer : at'[w] \in WriterStage
           /\ \A r \in AnyReader : at'[r] \in ReaderStage
<1>1. n \in Writer \/ n \in AnyReader
  BY DEF Node
<1>2. stage \in WriterStage \cup ReaderStage
  BY <1>1
<1> QED
  BY <1>2, Kinds DEF TypeOK, Goto

\* The lock's steps and the nodes' edits keep the types.
LEMMA LockTypes == TypeOK /\ ((\E n \in LockUser : Acquire(n)) \/ (\E n \in Node : Edit(n) \/ Release(n))) => TypeOK'
<1> SUFFICES ASSUME TypeOK, (\E n \in LockUser : Acquire(n)) \/ (\E n \in Node : Edit(n) \/ Release(n)) PROVE TypeOK'
  OBVIOUS
<1>1. ASSUME NEW n \in LockUser, Acquire(n) PROVE TypeOK'
  <2>1. acquired' \in Seq(LockUser)
    BY <1>1 DEF Acquire, TypeOK
  <2>2. bracket' \in [AnyReader -> Bracket]
    BY ZenonT(40), <1>1 DEF Acquire, TypeOK, Bracket
  <2>3. n \in Node /\ Goto(n, "held")
    BY <1>1, Kinds DEF Acquire
  <2>4. /\ at' \in [Node -> WriterStage \cup ReaderStage]
        /\ \A w \in Writer : at'[w] \in WriterStage
        /\ \A r \in AnyReader : at'[r] \in ReaderStage
    BY <2>3, MoveTyped DEF WriterStage, ReaderStage
  <2> QED
    BY <1>1, <2>1, <2>2, <2>4 DEF Acquire, TypeOK, gateVars
<1>2. ASSUME NEW n \in Node, Edit(n) PROVE TypeOK'
  <2>1. tree' \in Tree
    BY <1>2 DEF Edit, TypeOK, Tree
  <2>2. edits' \in [Node -> 0 .. MaxEdits]
    BY <1>2, KindsAssumption DEF Edit, TypeOK
  <2> QED
    BY <1>2, <2>1, <2>2 DEF Edit, TypeOK, gateVars, readerVars
<1>3. ASSUME NEW n \in Node, Release(n) PROVE TypeOK'
  <2>1. /\ at' \in [Node -> WriterStage \cup ReaderStage]
        /\ \A w \in Writer : at'[w] \in WriterStage
        /\ \A r \in AnyReader : at'[r] \in ReaderStage
    BY <1>3, MoveTyped DEF Release, WriterStage, ReaderStage
  <2> QED
    BY <1>3, <2>1 DEF Release, TypeOK, gateVars, readerVars
<1> QED
  BY <1>1, <1>2, <1>3

\* A writer's steps keep the types.
LEMMA WriterTypes == ASSUME TypeOK, Equipped, Counted, NEW w \in Writer, WriterStep(w) PROVE TypeOK'
<1>0. w \in Node /\ w \notin AnyReader /\ w \in LockUser
  BY Kinds
<1> DEFINE Moved == /\ at' \in [Node -> WriterStage \cup ReaderStage]
                    /\ \A v \in Writer : at'[v] \in WriterStage
                    /\ \A r \in AnyReader : at'[r] \in ReaderStage
<1>m. ASSUME NEW stage \in WriterStage, Goto(w, stage) PROVE Moved
  BY <1>0, <1>m, MoveTyped
<1> HIDE DEF Moved
<1>f. ASSUME Fails(w) PROVE Moved /\ failed' \subseteq Node
  BY <1>0, <1>f, <1>m DEF Fails, TypeOK, WriterStage
<1> USE DEF runVars, nodeVars, gateVars, readerVars
<1>1. CASE BeginAttempt(w)
  <2>1. Moved
    BY <1>1, <1>m DEF BeginAttempt, WriterStage
  <2>2. attempt' \in [Writer -> 0 .. MaxAttempts]
    <3>1. attempt[w] \in 0 .. MaxAttempts /\ attempt[w] + 1 \in 0 .. MaxAttempts
      BY <1>1, KindsAssumption DEF BeginAttempt, TypeOK, Counted
    <3> QED
      BY <1>1, <3>1 DEF BeginAttempt, TypeOK
  <2> QED
    BY <1>1, <2>1, <2>2 DEF BeginAttempt, TypeOK, Moved
<1>2. CASE Baseline(w)
  <2>1. Moved
    BY <1>2, <1>m DEF Baseline, WriterStage
  <2> QED
    BY <1>2, <2>1 DEF Baseline, TypeOK, Moved
<1>3. CASE Setup(w) \/ Judged(w)
  <2>1. Moved /\ failed' \subseteq Node
    BY <1>3, <1>m, <1>f DEF Setup, Judged, WriterStage, TypeOK
  <2> QED
    BY <1>3, <2>1 DEF Setup, Judged, TypeOK, Moved
<1>4. CASE Commit(w)
  BY <1>4 DEF Commit, TypeOK
<1>5. CASE GateBegins(w) \/ GateTree(w)
  <2>1. Moved
    BY <1>5, <1>m DEF GateBegins, GateTree, WriterStage
  <2> QED
    BY <1>5, <2>1 DEF GateBegins, GateTree, TypeOK, Moved
<1>6. CASE GateDiff(w)
  <2>1. Moved
    BY <1>6, <1>m DEF GateDiff, WriterStage
  <2>2. {<<w, p, tree[p]>> : p \in Changed(base[w], tree)} \subseteq Writer \X Path \X Content
    BY DEF TypeOK, Tree, Changed
  <2> QED
    BY <1>6, <2>1, <2>2 DEF GateDiff, TypeOK, Moved
<1>7. CASE GatePaths(w)
  <2>1. Moved
    BY <1>7, <1>m DEF GatePaths, WriterStage
  <2>2. snapshot[w] \in Tree
    BY <1>7 DEF GatePaths, TypeOK, Equipped
  <2>3. {<<w, p, snapshot[w][p]>> : p \in Changed(base[w], snapshot[w])} \subseteq Writer \X Path \X Content
    BY <2>2 DEF Tree, Changed
  <2>4. [paths |-> Changed(base[w], snapshot[w]), tree |-> snapshot[w]] \in Evidence
    BY <2>2 DEF Evidence, Changed
  <2> QED
    BY <1>0, <1>7, <2>1, <2>3, <2>4 DEF GatePaths, TypeOK, Moved
<1>8. CASE GateGitFails(w)
  <2>1. evidence' \in [LockUser -> Evidence \cup {None}]
    <3>1. CASE at[w] = "gatePaths"
      <4>1. [paths |-> {}, tree |-> snapshot[w]] \in Evidence
        BY <3>1 DEF Evidence, TypeOK, Equipped
      <4> QED
        BY <1>8, <3>1, <4>1 DEF GateGitFails, TypeOK
    <3>2. CASE at[w] # "gatePaths"
      BY <1>8, <3>2 DEF GateGitFails, TypeOK
    <3> QED
      BY <3>1, <3>2
  <2>2. Moved /\ failed' \subseteq Node
    BY <1>8, <1>f DEF GateGitFails
  <2> QED
    BY <1>8, <2>1, <2>2 DEF GateGitFails, TypeOK, Moved
<1> QED
  BY <1>1, <1>2, <1>3, <1>4, <1>5, <1>6, <1>7, <1>8 DEF WriterStep

\* A candidate's place in the order of acquisition, and what it captured.
LEMMA CheckTypes ==
    ASSUME TypeOK, NEW r \in AnyReader, NEW k \in Nat, Check(r, k), UNCHANGED <<runVars, edits, gateVars>>
    PROVE  TypeOK'
<1>0. r \in Node /\ r \notin Writer
  BY Kinds
<1> USE DEF runVars, gateVars, readerVars
<1>1. CASE Unexpected(r)
  <2>1. Goto(r, "leaving")
    BY <1>1 DEF Unexpected, Fails
  <2>2. /\ at' \in [Node -> WriterStage \cup ReaderStage]
        /\ \A w \in Writer : at'[w] \in WriterStage
        /\ \A q \in AnyReader : at'[q] \in ReaderStage
    BY <1>0, <2>1, MoveTyped DEF ReaderStage
  <2> QED
    BY <1>0, <1>1, <2>2 DEF Unexpected, Fails, TypeOK
<1>2. ASSUME NEW i \in ReviewedAfter(k, r), Goto(r, "checking"), UNCHANGED <<failed, result>>,
             bracket' = [bracket EXCEPT ![r].asked = i, ![r].gateTree = evidence[acquired[i]].tree]
      PROVE  TypeOK'
  <2>1. /\ at' \in [Node -> WriterStage \cup ReaderStage]
        /\ \A w \in Writer : at'[w] \in WriterStage
        /\ \A q \in AnyReader : at'[q] \in ReaderStage
    BY <1>0, <1>2, MoveTyped DEF ReaderStage
  <2>2. i \in Nat /\ acquired[i] \in LockUser /\ evidence[acquired[i]] \in Evidence
    BY DEF ReviewedAfter, Candidates, Reviewed, TypeOK
  <2>3. bracket' \in [AnyReader -> Bracket]
    <3> DEFINE b == [bracket[r] EXCEPT !.asked = i, !.gateTree = evidence[acquired[i]].tree]
    <3>1. b \in Bracket
      BY <2>2 DEF TypeOK, Bracket, Evidence
    <3>2. \A q \in AnyReader : bracket'[q] = IF q = r THEN b ELSE bracket[q]
      BY <1>2 DEF TypeOK, Bracket
    <3>3. bracket' = [q \in AnyReader |-> bracket'[q]]
      BY <1>2 DEF TypeOK
    <3> HIDE DEF b
    <3> QED
      BY <3>1, <3>2, <3>3 DEF TypeOK
  <2> QED
    BY <1>2, <2>1, <2>3 DEF TypeOK
<1> QED
  BY <1>1, <1>2 DEF Check

\* The guard's verdict.
LEMMA AttributeTypes ==
    ASSUME TypeOK, NEW r \in AnyReader, NEW w \in LockUser, NEW rule \in {"a", "b"}, Attribute(r, w, rule),
           UNCHANGED <<runVars, edits, gateVars>>
    PROVE  TypeOK'
<1>1. /\ at' \in [Node -> WriterStage \cup ReaderStage]
      /\ \A v \in Writer : at'[v] \in WriterStage
      /\ \A q \in AnyReader : at'[q] \in ReaderStage
  BY Kinds, MoveTyped DEF Attribute, ReaderStage
<1>2. [writer |-> w, rule |-> rule, gateTree |-> IF evidence[w] = None THEN None ELSE evidence[w].tree] \in Result
  BY DEF Result, TypeOK, Evidence
<1> QED
  BY <1>1, <1>2 DEF Attribute, TypeOK, runVars, gateVars

\* A reader's steps keep the types.
LEMMA ReaderTypes == ASSUME TypeOK, NEW r \in AnyReader, ReadFor(r), ReaderStep(r) PROVE TypeOK'
<1>0. r \in Node /\ r \notin Writer
  BY Kinds
<1> DEFINE Moved == /\ at' \in [Node -> WriterStage \cup ReaderStage]
                    /\ \A w \in Writer : at'[w] \in WriterStage
                    /\ \A q \in AnyReader : at'[q] \in ReaderStage
<1>m. ASSUME NEW stage \in ReaderStage, Goto(r, stage) PROVE Moved
  BY <1>0, <1>m, MoveTyped
<1> HIDE DEF Moved
<1>1. CASE Open(r)
  <2>1. PICK touching \in {{}} \cup (IF acquired = <<>> THEN {} ELSE {{acquired[Len(acquired)]}}) :
            bracket' = [bracket EXCEPT ![r].window = touching \cup ({holder} \ {None})]
    BY <1>1 DEF Open
  <2>2. touching \subseteq LockUser
    BY SMTT(30), <2>1 DEF TypeOK
  <2>3. bracket' \in [AnyReader -> Bracket]
    BY ZenonT(40), <2>1, <2>2 DEF TypeOK, Bracket
  <2>4. Moved
    BY <1>1, <1>m DEF Open, ReaderStage
  <2> QED
    BY <1>1, <2>3, <2>4 DEF Open, TypeOK, Moved, runVars, gateVars
<1>2. CASE StartTree(r) \/ EndTree(r)
  <2>1. bracket' \in [AnyReader -> Bracket]
    <3>1. CASE StartTree(r)
      BY ZenonT(40), <3>1 DEF StartTree, TypeOK, Bracket
    <3>2. CASE EndTree(r)
      BY ZenonT(40), <3>2 DEF EndTree, TypeOK, Bracket
    <3> QED
      BY <1>2, <3>1, <3>2
  <2>2. Moved
    BY <1>2, <1>m DEF StartTree, EndTree, ReaderStage
  <2> QED
    BY <1>2, <2>1, <2>2 DEF StartTree, EndTree, TypeOK, Moved, runVars, gateVars
<1>3. CASE CloseWindow(r)
  <2>1. Moved
    BY <1>3, <1>m DEF CloseWindow, ReaderStage
  <2> QED
    BY <1>3, <2>1 DEF CloseWindow, TypeOK, Moved, runVars, gateVars, readerVars
<1>u. ASSUME Unexpected(r), UNCHANGED <<runVars, edits, gateVars>> PROVE TypeOK'
  <2>1. Moved
    BY <1>u, <1>m DEF Unexpected, Fails, ReaderStage
  <2> QED
    BY <1>0, <1>u, <2>1 DEF Unexpected, Fails, TypeOK, Moved, runVars, gateVars, readerVars
<1>4. CASE Ask(r)
  <2>1. ASSUME NEW w \in RuleA(r), Attribute(r, w, "a") PROVE TypeOK'
    BY <1>4, <2>1, Kinds, AttributeTypes DEF Ask, RuleA
  <2>2. CASE Check(r, 0)
    BY <1>4, <2>2, CheckTypes DEF Ask
  <2> QED
    BY <1>4, <1>u, <2>1, <2>2 DEF Ask
<1>5. CASE Answer(r)
  <2>1. bracket[r].asked \in Nat /\ acquired[bracket[r].asked] \in LockUser
    BY <1>5 DEF Answer, ReadFor, TypeOK, Bracket
  <2>2. CASE Attribute(r, acquired[bracket[r].asked], "b")
    BY <1>5, <2>1, <2>2, AttributeTypes DEF Answer
  <2>3. CASE Check(r, bracket[r].asked)
    BY <1>5, <2>1, <2>3, CheckTypes DEF Answer
  <2> QED
    BY <1>5, <2>2, <2>3 DEF Answer
<1> QED
  BY <1>1, <1>2, <1>3, <1>4, <1>5 DEF ReaderStep

\* So does every step.
LEMMA TypesKept == IInv /\ [Next]_vars => TypeOK'
<1> SUFFICES ASSUME IInv, [Next]_vars PROVE TypeOK'
  OBVIOUS
<1>0. TypeOK /\ Equipped /\ Counted /\ \A r \in AnyReader : ReadFor(r)
  BY DEF IInv
<1>1. CASE UNCHANGED vars
  BY <1>0, <1>1 DEF TypeOK, vars, runVars, nodeVars, gateVars, readerVars
<1> QED
  BY <1>0, <1>1, LockTypes, WriterTypes, ReaderTypes DEF Next

-----------------------------------------------------------------------------
(* The lock, the baselines, the attempts and the gates to come.              *)

Control == Locked /\ Equipped /\ Counted /\ ToGate

\* A step of a node moves that node, and no other.
LEMMA Moves ==
    ASSUME TypeOK, NEW n \in Node, NEW stage, Goto(n, stage)
    PROVE  \A m \in Node : at'[m] = IF m = n THEN stage ELSE at[m]
BY DEF TypeOK, Goto

\* The lock's steps keep where everybody is in step with the lock.
LEMMA LockControls ==
    TypeOK /\ Control /\ ((\E n \in LockUser : Acquire(n)) \/ (\E n \in Node : Edit(n) \/ Release(n))) => Control'
<1> SUFFICES ASSUME TypeOK, Control, (\E n \in LockUser : Acquire(n)) \/ (\E n \in Node : Edit(n) \/ Release(n))
             PROVE  Control'
  OBVIOUS
<1> USE DEF Control
<1>1. ASSUME NEW n \in LockUser, Acquire(n) PROVE Control'
  <2>1. \A m \in Node : at'[m] = IF m = n THEN "held" ELSE at[m]
    BY <1>1, Kinds, Moves DEF Acquire
  <2>2. Locked'
    BY <1>1, <2>1, Kinds DEF Acquire, Locked
  <2>3. (Equipped /\ Counted /\ ToGate)'
    BY <1>1, <2>1, Kinds DEF Acquire, gateVars, Equipped, Based, Counted, ToGate, TypeOK
  <2> QED
    BY <2>2, <2>3
<1>2. ASSUME NEW n \in Node, Edit(n) PROVE Control'
  BY <1>2 DEF Edit, gateVars, Locked, Equipped, Based, Counted, ToGate
<1>3. ASSUME NEW n \in Node, Release(n) PROVE Control'
  <2>1. \A m \in Node : at'[m] = IF m = n THEN "ended" ELSE at[m]
    BY <1>3, Moves DEF Release
  <2>2. Locked'
    BY <1>3, <2>1, Kinds DEF Release, Locked
  <2>3. (Equipped /\ Counted /\ ToGate)'
    BY <1>3, <2>1, Kinds DEF Release, gateVars, Equipped, Based, Counted, ToGate, TypeOK
  <2> QED
    BY <2>2, <2>3
<1> QED
  BY <1>1, <1>2, <1>3

\* A writer's steps keep it.
LEMMA WriterControls == ASSUME TypeOK, Control, NEW w \in Writer, WriterStep(w) PROVE Control'
<1>0. w \in Node /\ Writer \subseteq Node
  BY Kinds
<1>m. ASSUME NEW stage, Goto(w, stage) PROVE \A v \in Writer : at'[v] = IF v = w THEN stage ELSE at[v]
  BY <1>0, <1>m, Moves
<1> USE DEF Control, runVars, nodeVars, gateVars
<1>1. CASE BeginAttempt(w)
  <2>1. \A v \in Writer : at'[v] = IF v = w THEN "starting" ELSE at[v]
    BY <1>1, <1>m DEF BeginAttempt
  <2> QED
    BY <1>1, <2>1 DEF BeginAttempt, Locked, Equipped, Based, Counted, ToGate, TypeOK
<1>2. CASE Baseline(w)
  <2>1. \A v \in Writer : at'[v] = IF v = w THEN "setup" ELSE at[v]
    BY <1>2, <1>m DEF Baseline
  <2>2. head # None
    BY Kinds DEF TypeOK
  <2> QED
    BY <1>2, <2>1, <2>2 DEF Baseline, Locked, Equipped, Based, Counted, ToGate, TypeOK
<1>3. CASE Setup(w)
  <2>1. CASE Goto(w, "turn") /\ UNCHANGED failed
    <3>1. \A v \in Writer : at'[v] = IF v = w THEN "turn" ELSE at[v]
      BY <2>1, <1>m
    <3> QED
      BY <1>3, <2>1, <3>1 DEF Setup, Locked, Equipped, Based, Counted, ToGate
  <2>2. CASE Fails(w)
    <3>1. \A v \in Writer : at'[v] = IF v = w THEN "leaving" ELSE at[v]
      BY <2>2, <1>m DEF Fails
    <3> QED
      BY <1>3, <2>2, <3>1 DEF Setup, Fails, Locked, Equipped, Based, Counted, ToGate
  <2> QED
    BY <1>3, <2>1, <2>2 DEF Setup
<1>4. CASE Commit(w)
  BY <1>4 DEF Commit, Locked, Equipped, Based, Counted, ToGate
<1>5. CASE GateBegins(w)
  <2>1. \A v \in Writer : at'[v] = IF v = w THEN "gateTree" ELSE at[v]
    BY <1>5, <1>m DEF GateBegins
  <2> QED
    BY <1>5, <2>1 DEF GateBegins, Locked, Equipped, Based, Counted, ToGate
<1>6. CASE GateTree(w)
  <2>1. \A v \in Writer : at'[v] = IF v = w THEN "gateDiff" ELSE at[v]
    BY <1>6, <1>m DEF GateTree
  <2>2. tree # None
    BY Kinds DEF TypeOK
  <2> QED
    BY <1>6, <2>1, <2>2 DEF GateTree, Locked, Equipped, Based, Counted, ToGate, TypeOK
<1>7. CASE GateDiff(w)
  <2>1. \A v \in Writer : at'[v] = IF v = w THEN "gatePaths" ELSE at[v]
    BY <1>7, <1>m DEF GateDiff
  <2> QED
    BY <1>7, <2>1 DEF GateDiff, Locked, Equipped, Based, Counted, ToGate
<1>8. CASE GatePaths(w)
  <2>1. \A v \in Writer : at'[v] = IF v = w THEN "judging" ELSE at[v]
    BY <1>8, <1>m DEF GatePaths
  <2> QED
    BY <1>8, <2>1 DEF GatePaths, Locked, Equipped, Based, Counted, ToGate
<1>9. CASE GateGitFails(w)
  <2>1. \A v \in Writer : at'[v] = IF v = w THEN "leaving" ELSE at[v]
    BY <1>9, <1>m DEF GateGitFails, Fails
  <2> QED
    BY <1>9, <2>1 DEF GateGitFails, Fails, Locked, Equipped, Based, Counted, ToGate
<1>10. CASE Judged(w)
  <2>1. CASE \/ Goto(w, "leaving") /\ UNCHANGED failed
             \/ Fails(w)
    <3>1. \A v \in Writer : at'[v] = IF v = w THEN "leaving" ELSE at[v]
      BY <2>1, <1>m DEF Fails
    <3>2. failed \subseteq failed'
      BY <2>1 DEF Fails
    <3> QED
      BY <1>10, <3>1, <3>2 DEF Judged, Locked, Equipped, Based, Counted, ToGate
  <2>2. CASE attempt[w] < MaxAttempts /\ Goto(w, "backoff") /\ UNCHANGED failed
    <3>1. \A v \in Writer : at'[v] = IF v = w THEN "backoff" ELSE at[v]
      BY <2>2, <1>m
    <3> QED
      BY <1>10, <2>2, <3>1 DEF Judged, Locked, Equipped, Based, Counted, ToGate
  <2> QED
    BY <1>10, <2>1, <2>2 DEF Judged
<1> QED
  BY <1>1, <1>2, <1>3, <1>4, <1>5, <1>6, <1>7, <1>8, <1>9, <1>10 DEF WriterStep

\* A reader's step moves that reader and nothing of a writer's.
LEMMA ReaderMoves ==
    ASSUME TypeOK, NEW r \in AnyReader, ReaderStep(r)
    PROVE  /\ UNCHANGED <<runVars, edits, gateVars>> /\ failed \subseteq failed'
           /\ \A n \in Node : n # r => at'[n] = at[n]
<1>1. \E stage : Goto(r, stage)
  BY DEF ReaderStep, Open, StartTree, EndTree, CloseWindow, Ask, Answer, Check, Unexpected, Attribute, Fails
<1>2. UNCHANGED <<runVars, edits, gateVars>>
  BY DEF ReaderStep, Open, StartTree, EndTree, CloseWindow, Ask, Answer
<1>3. failed \subseteq failed'
  BY DEF ReaderStep, Open, StartTree, EndTree, CloseWindow, Ask, Answer, Check, Unexpected, Attribute, Fails
<1> QED
  BY <1>1, <1>2, <1>3, Kinds, Moves

\* So does every step.
LEMMA ControlKept == IInv /\ [Next]_vars => Control'
<1> SUFFICES ASSUME IInv, [Next]_vars PROVE Control'
  OBVIOUS
<1>0. TypeOK /\ Control
  BY DEF IInv, Control
<1>1. CASE UNCHANGED vars
  BY <1>0, <1>1 DEF Control, Locked, Equipped, Based, Counted, ToGate, vars, runVars, nodeVars, gateVars
<1>2. ASSUME NEW r \in AnyReader, ReaderStep(r) PROVE Control'
  <2>1. \A w \in Writer : at'[w] = at[w]
    BY <1>0, <1>2, ReaderMoves, Kinds
  <2> QED
    BY <1>0, <1>2, <2>1, ReaderMoves DEF Control, Locked, Equipped, Based, Counted, ToGate, runVars, gateVars
<1> QED
  BY <1>0, <1>1, <1>2, LockControls, WriterControls DEF Next

-----------------------------------------------------------------------------
(* What the gates read, and what rule (b) takes from them.                   *)

\* For a reader that stays where it is, is given the lock or gives it back, what was read stands.
LEMMA ReadStands ==
    ASSUME NEW r \in AnyReader, ReadFor(r), treeRead \subseteq treeRead', result'[r] = result[r],
           \A i \in DOMAIN acquired : i \in DOMAIN acquired' /\ acquired'[i] = acquired[i],
           bracket'[r].from = bracket[r].from, bracket'[r].to = bracket[r].to,
           bracket'[r].asked = bracket[r].asked, bracket'[r].gateTree = bracket[r].gateTree,
           \/ at'[r] = at[r]
           \/ at[r] = "idle" /\ at'[r] = "held"
           \/ at[r] = "leaving" /\ at'[r] = "ended"
    PROVE  ReadFor(r)'
<1>1. BracketPaths(r)' = BracketPaths(r)
  BY DEF BracketPaths, Changed
<1> QED
  BY <1>1 DEF ReadFor, Judging

\* The lock's steps and the nodes' edits keep what the evidence says was read.
LEMMA LockReads ==
    ASSUME TypeOK, NEW r \in AnyReader, ReadFor(r),
           (\E n \in LockUser : Acquire(n)) \/ (\E n \in Node : Edit(n) \/ Release(n))
    PROVE  ReadFor(r)'
<1>1. ASSUME NEW n \in LockUser, Acquire(n) PROVE ReadFor(r)'
  <2>1. acquired' = Append(acquired, n) /\ acquired \in Seq(LockUser)
    BY <1>1 DEF Acquire, TypeOK
  <2>2. \A i \in DOMAIN acquired : i \in DOMAIN acquired' /\ acquired'[i] = acquired[i]
    BY <2>1
  <2>3. /\ bracket'[r].from = bracket[r].from /\ bracket'[r].to = bracket[r].to
        /\ bracket'[r].asked = bracket[r].asked /\ bracket'[r].gateTree = bracket[r].gateTree
    BY <1>1 DEF Acquire, TypeOK, Bracket
  <2>4. at[n] = "idle" /\ at'[r] = IF r = n THEN "held" ELSE at[r]
    BY <1>1, Kinds, Moves DEF Acquire
  <2>5. result' = result /\ treeRead' = treeRead
    BY <1>1 DEF Acquire, gateVars
  <2> QED
    BY <2>2, <2>3, <2>4, <2>5, ReadStands
<1>2. ASSUME NEW n \in Node, Edit(n) PROVE ReadFor(r)'
  BY <1>2, ReadStands DEF Edit, gateVars, readerVars
<1>3. ASSUME NEW n \in Node, Release(n) PROVE ReadFor(r)'
  <2>1. at[n] = "leaving" /\ at'[r] = IF r = n THEN "ended" ELSE at[r]
    BY <1>3, Kinds, Moves DEF Release
  <2> QED
    BY <1>3, <2>1, ReadStands DEF Release, gateVars, readerVars
<1> QED
  BY <1>1, <1>2, <1>3

\* A writer's step moves that writer, and the gates forget nothing they read.
LEMMA WriterMoves ==
    ASSUME TypeOK, NEW w \in Writer, WriterStep(w)
    PROVE  /\ UNCHANGED <<acquired, holder, edits, readerVars>>
           /\ diffRead \subseteq diffRead' /\ treeRead \subseteq treeRead' /\ hidden \subseteq hidden'
           /\ failed \subseteq failed'
           /\ \A n \in Node : n # w => at'[n] = at[n]
<1> USE DEF WriterStep, BeginAttempt, Baseline, Setup, Commit, GateBegins, GateTree, GateDiff, GatePaths, GateGitFails,
            Judged
<1>1. UNCHANGED <<acquired, holder, edits, readerVars>>
  BY DEF runVars, nodeVars, gateVars
<1>2. diffRead \subseteq diffRead' /\ treeRead \subseteq treeRead' /\ hidden \subseteq hidden'
  BY DEF gateVars
<1>3. failed \subseteq failed'
  BY DEF Fails, nodeVars
<1>4. (\E stage : Goto(w, stage)) \/ at' = at
  BY DEF Fails, nodeVars
<1> QED
  BY <1>1, <1>2, <1>3, <1>4, Kinds, Moves

\* A writer's steps keep it.
LEMMA WriterReads ==
    ASSUME TypeOK, NEW w \in Writer, WriterStep(w), NEW r \in AnyReader, ReadFor(r)
    PROVE  ReadFor(r)'
<1>1. at'[r] = at[r]
  BY WriterMoves, Kinds
<1> QED
  BY <1>1, WriterMoves, ReadStands DEF readerVars

\* A gate records as reviewed only what it read.
LEMMA EvidenceKept == IInv /\ [Next]_vars => EvidenceRead'
<1> SUFFICES ASSUME IInv, [Next]_vars PROVE EvidenceRead'
  OBVIOUS
<1>0. TypeOK /\ EvidenceRead /\ Equipped
  BY DEF IInv
<1>1. CASE UNCHANGED <<evidence, treeRead>>
  BY <1>0, <1>1 DEF EvidenceRead
<1>2. ASSUME NEW w \in Writer, WriterStep(w) PROVE EvidenceRead'
  <2>0. w \in LockUser
    BY Kinds
  <2>1. CASE BeginAttempt(w)
    BY <1>0, <2>1 DEF BeginAttempt, EvidenceRead, TypeOK
  <2>2. CASE GatePaths(w)
    <3>1. /\ evidence' = [evidence EXCEPT ![w] = [paths |-> Changed(base[w], snapshot[w]), tree |-> snapshot[w]]]
          /\ treeRead' = treeRead \cup {<<w, p, snapshot[w][p]>> : p \in Changed(base[w], snapshot[w])}
      BY <2>2 DEF GatePaths
    <3> QED
      BY <1>0, <3>1 DEF EvidenceRead, TypeOK
  <2>3. CASE GateGitFails(w)
    <3>1. \/ evidence' = evidence
          \/ evidence' = [evidence EXCEPT ![w] = [paths |-> {}, tree |-> snapshot[w]]]
      BY <2>3 DEF GateGitFails
    <3>2. treeRead' = treeRead
      BY <2>3 DEF GateGitFails
    <3> QED
      BY SMTT(30), <1>0, <3>1, <3>2 DEF EvidenceRead, TypeOK
  <2>4. CASE ~ (BeginAttempt(w) \/ GatePaths(w) \/ GateGitFails(w))
    BY <1>1, <1>2, <2>4 DEF WriterStep, Baseline, Setup, Commit, GateBegins, GateTree, GateDiff, Judged, gateVars
  <2> QED
    BY <2>1, <2>2, <2>3, <2>4
<1>3. ASSUME NEW r \in AnyReader, ReaderStep(r) PROVE EvidenceRead'
  BY <1>0, <1>1, <1>3, ReaderMoves DEF gateVars
<1>4. ASSUME (\E n \in LockUser : Acquire(n)) \/ (\E n \in Node : Edit(n) \/ Release(n)) PROVE EvidenceRead'
  BY <1>1, <1>4 DEF Acquire, Edit, Release, gateVars
<1>5. CASE UNCHANGED vars
  BY <1>1, <1>5 DEF vars, gateVars
<1> QED
  BY <1>2, <1>3, <1>4, <1>5 DEF Next

\* What a reader that goes on with rule (b) captures, a gate read.
LEMMA CheckReads ==
    ASSUME TypeOK, EvidenceRead, NEW r \in AnyReader, ReadFor(r), at[r] \in {"asking", "checking"}, NEW k \in Nat,
           Check(r, k), UNCHANGED <<runVars, edits, gateVars>>
    PROVE  ReadFor(r)'
<1> USE DEF runVars, gateVars, readerVars
<1>1. CASE Unexpected(r)
  <2>1. at'[r] = "leaving" /\ UNCHANGED <<bracket, result>> /\ result[r].rule = "none"
    BY <1>1, Kinds, Moves DEF Unexpected, Fails, ReadFor
  <2> QED
    BY <2>1 DEF ReadFor, Judging
<1>2. ASSUME NEW i \in ReviewedAfter(k, r), Goto(r, "checking"), UNCHANGED <<failed, result>>,
             bracket' = [bracket EXCEPT ![r].asked = i, ![r].gateTree = evidence[acquired[i]].tree]
      PROVE  ReadFor(r)'
  <2>1. i \in DOMAIN acquired /\ acquired[i] \in LockUser /\ Reviewed(acquired[i], r)
    BY DEF ReviewedAfter, Candidates, TypeOK
  <2>2. \A p \in BracketPaths(r) : <<acquired[i], p, evidence[acquired[i]].tree[p]>> \in treeRead
    BY <2>1 DEF Reviewed, EvidenceRead
  <2>3. /\ bracket'[r].from = bracket[r].from /\ bracket'[r].to = bracket[r].to
        /\ bracket'[r].asked = i /\ bracket'[r].gateTree = evidence[acquired[i]].tree
    BY <1>2 DEF TypeOK, Bracket
  <2>4. BracketPaths(r)' = BracketPaths(r)
    BY <2>3 DEF BracketPaths, Changed
  <2>5. at'[r] = "checking" /\ result'[r].rule = "none"
    BY <1>2, Kinds, Moves DEF ReadFor
  <2> QED
    BY <2>1, <2>2, <2>3, <2>4, <2>5 DEF ReadFor, Judging
<1> QED
  BY <1>1, <1>2 DEF Check

\* A reader's steps keep it.
LEMMA ReaderReads ==
    ASSUME TypeOK, EvidenceRead, NEW r \in AnyReader, ReadFor(r), ReaderStep(r)
    PROVE  ReadFor(r)'
<1>0. r \in Node
  BY Kinds
<1> USE DEF runVars, gateVars, readerVars
<1>1. CASE Open(r)
  <2>1. bracket'[r].from = bracket[r].from /\ bracket'[r].to = bracket[r].to
    BY <1>1 DEF Open, TypeOK, Bracket
  <2>2. at'[r] = "opening" /\ result'[r].rule = "none"
    BY <1>0, <1>1, Moves DEF Open, ReadFor
  <2> QED
    BY <2>1, <2>2 DEF ReadFor, Judging
<1>2. CASE StartTree(r)
  <2>1. bracket'[r].from = tree /\ tree # None
    BY <1>2, Kinds DEF StartTree, TypeOK, Bracket
  <2>2. at'[r] = "turn" /\ result'[r].rule = "none"
    BY <1>0, <1>2, Moves DEF StartTree, ReadFor
  <2> QED
    BY <2>1, <2>2 DEF ReadFor, Judging
<1>3. CASE EndTree(r)
  <2>1. bracket'[r].from = bracket[r].from /\ bracket'[r].to = tree /\ tree # None
    BY <1>3, Kinds DEF EndTree, TypeOK, Bracket
  <2>2. at'[r] \in {"leaving", "closing"} /\ result'[r].rule = "none" /\ bracket[r].from # None
    BY <1>0, <1>3, Moves DEF EndTree, ReadFor
  <2> QED
    BY <2>1, <2>2 DEF ReadFor, Judging
<1>4. CASE CloseWindow(r)
  <2>1. at'[r] = "asking" /\ UNCHANGED <<bracket, result>> /\ result[r].rule = "none"
    BY <1>0, <1>4, Moves DEF CloseWindow, ReadFor
  <2> QED
    BY <1>4, <2>1 DEF CloseWindow, ReadFor, Judging
<1>5. CASE Ask(r)
  <2>1. CASE Unexpected(r)
    <3>1. at'[r] = "leaving" /\ UNCHANGED <<bracket, result>> /\ result[r].rule = "none"
      BY <1>0, <1>5, <2>1, Moves DEF Ask, Unexpected, Fails, ReadFor
    <3> QED
      BY <3>1 DEF ReadFor, Judging
  <2>2. ASSUME NEW w \in RuleA(r), Attribute(r, w, "a") PROVE ReadFor(r)'
    <3>1. at'[r] = "leaving" /\ bracket' = bracket /\ result'[r].rule = "a"
      BY <1>0, <2>2, Moves DEF Attribute, TypeOK
    <3> QED
      BY <3>1 DEF ReadFor, Judging
  <2>3. CASE Check(r, 0)
    BY <1>5, <2>3, CheckReads DEF Ask
  <2> QED
    BY <1>5, <2>1, <2>2, <2>3 DEF Ask
<1>6. CASE Answer(r)
  <2>1. /\ at[r] = "checking" /\ bracket[r].asked \in Nat
        /\ \A p \in BracketPaths(r) : <<acquired[bracket[r].asked], p, bracket[r].gateTree[p]>> \in treeRead
    BY <1>6 DEF Answer, ReadFor, TypeOK, Bracket
  <2>2. CASE /\ \A p \in BracketPaths(r) : bracket[r].gateTree[p] = bracket[r].to[p]
             /\ Attribute(r, acquired[bracket[r].asked], "b")
    <3>1. /\ at'[r] = "leaving" /\ bracket' = bracket
          /\ result'[r].rule = "b" /\ result'[r].writer = acquired[bracket[r].asked]
      BY <1>0, <2>2, Moves DEF Attribute, TypeOK
    <3>2. treeRead' = treeRead /\ BracketPaths(r)' = BracketPaths(r)
      BY <1>6, <3>1 DEF Answer, BracketPaths
    <3> QED
      BY <2>1, <2>2, <3>1, <3>2 DEF ReadFor, Judging
  <2>3. CASE Check(r, bracket[r].asked)
    BY <1>6, <2>1, <2>3, CheckReads DEF Answer
  <2> QED
    BY <1>6, <2>2, <2>3 DEF Answer
<1> QED
  BY <1>1, <1>2, <1>3, <1>4, <1>5, <1>6 DEF ReaderStep

\* The other readers' brackets and verdicts are their own.
LEMMA ReaderAlone ==
    ASSUME TypeOK, NEW r \in AnyReader, ReaderStep(r), NEW q \in AnyReader, q # r
    PROVE  bracket'[q] = bracket[q] /\ result'[q] = result[q]
BY DEF ReaderStep, Open, StartTree, EndTree, CloseWindow, Ask, Answer, Check, Attribute, Unexpected, readerVars, TypeOK

\* So does every step.
LEMMA ReadsKept == IInv /\ [Next]_vars => \A r \in AnyReader : ReadFor(r)'
<1> SUFFICES ASSUME IInv, [Next]_vars, NEW r \in AnyReader PROVE ReadFor(r)'
  OBVIOUS
<1>0. TypeOK /\ EvidenceRead /\ ReadFor(r)
  BY DEF IInv
<1>1. CASE UNCHANGED vars
  BY <1>0, <1>1, ReadStands DEF vars, runVars, nodeVars, gateVars, readerVars
<1>2. ASSUME NEW q \in AnyReader, ReaderStep(q), q # r PROVE ReadFor(r)'
  <2>1. UNCHANGED <<runVars, edits, gateVars>> /\ at'[r] = at[r]
    BY <1>0, <1>2, ReaderMoves, Kinds
  <2>2. bracket'[r] = bracket[r] /\ result'[r] = result[r]
    BY <1>0, <1>2, ReaderAlone
  <2> QED
    BY <1>0, <2>1, <2>2, ReadStands DEF runVars, gateVars
<1> QED
  BY <1>0, <1>1, <1>2, LockReads, WriterReads, ReaderReads DEF Next

-----------------------------------------------------------------------------
(* What is on a path was read, or is still to be.                            *)

\* Nothing that was cleared has to be looked at again.
LEMMA ClearedStays ==
    ASSUME diffRead \subseteq diffRead', treeRead \subseteq treeRead', hidden \subseteq hidden',
           NEW p, NEW c, Cleared(p, c)
    PROVE  Cleared(p, c)'
BY DEF Cleared, Known, ReadByAGate

\* A step that leaves the tree and the readers alone, and takes no gate past its diff.
LEMMA TreeStands ==
    ASSUME diffRead \subseteq diffRead', treeRead \subseteq treeRead', hidden \subseteq hidden',
           UNCHANGED <<tree, edits, readerVars>>, \A r \in AnyReader : at'[r] = at[r],
           \A v \in Writer : at[v] \in BeforeDiff => at'[v] \in BeforeDiff, TreeCleared
    PROVE  TreeCleared'
<1> SUFFICES ASSUME NEW p \in Path
             PROVE  \/ Cleared(p, tree[p])'
                    \/ \E w \in Writer : at'[w] \in BeforeDiff
                    \/ \E r \in AnyReader : ToAnswer(r, p)'
                    \/ \E r \in AnyReader : at'[r] \in Judging \cup {"leaving", "ended"} /\ PutBack(r, p)'
  BY DEF TreeCleared
<1>1. CASE Cleared(p, tree[p])
  BY <1>1, ClearedStays DEF Cleared, Known, ReadByAGate
<1>2. CASE \E w \in Writer : at[w] \in BeforeDiff
  BY <1>2
<1>3. ASSUME NEW r \in AnyReader, ToAnswer(r, p) PROVE ToAnswer(r, p)'
  BY <1>3 DEF ToAnswer, BracketPaths, Changed, readerVars
<1>4. ASSUME NEW r \in AnyReader, at[r] \in Judging \cup {"leaving", "ended"}, PutBack(r, p)
      PROVE  at'[r] \in Judging \cup {"leaving", "ended"} /\ PutBack(r, p)'
  BY <1>4 DEF PutBack, readerVars
<1> QED
  BY <1>1, <1>2, <1>3, <1>4 DEF TreeCleared

\* What was cleared in the last commit stays cleared.
LEMMA HeadStands ==
    ASSUME diffRead \subseteq diffRead', treeRead \subseteq treeRead', hidden \subseteq hidden', UNCHANGED head,
           \A v \in Writer : at[v] \in BeforeDiff \ {"starting", "setup"} => at'[v] \in BeforeDiff \ {"starting", "setup"},
           HeadCleared
    PROVE  HeadCleared'
BY DEF HeadCleared, Cleared, Known, ReadByAGate

\* What was cleared in the baselines stays cleared.
LEMMA BaseStands ==
    ASSUME diffRead \subseteq diffRead', treeRead \subseteq treeRead', hidden \subseteq hidden', UNCHANGED base, BaseCleared
    PROVE  BaseCleared'
BY DEF BaseCleared, Cleared, Known, ReadByAGate

AllCleared == HeadCleared /\ BaseCleared /\ TreeCleared

\* The lock's steps and the nodes' edits clear what they change, or leave it to a reader or a gate.
LEMMA LockClears ==
    ASSUME TypeOK, Control, AllCleared,
           (\E n \in LockUser : Acquire(n)) \/ (\E n \in Node : Edit(n) \/ Release(n))
    PROVE  AllCleared'
<1> USE DEF AllCleared, gateVars
<1>1. ASSUME NEW n \in LockUser, Acquire(n) PROVE AllCleared'
  <2>1. at[n] = "idle" /\ \A m \in Node : at'[m] = IF m = n THEN "held" ELSE at[m]
    BY <1>1, Kinds, Moves DEF Acquire
  <2>2. \A v \in Writer : at[v] \in BeforeDiff => at'[v] = at[v]
    BY <2>1, Kinds DEF BeforeDiff
  <2>3. HeadCleared' /\ BaseCleared'
    BY <1>1, <2>2, HeadStands, BaseStands DEF Acquire, BeforeDiff
  <2>4. \A r \in AnyReader : bracket'[r].from = bracket[r].from /\ bracket'[r].to = bracket[r].to
    BY <1>1 DEF Acquire, TypeOK, Bracket
  <2>5. \A r \in AnyReader : at[r] \in {"turn"} \cup Judging \cup {"leaving", "ended"} => at'[r] = at[r]
    BY <2>1, Kinds DEF Judging
  <2>6. /\ tree' = tree /\ edits' = edits
        /\ diffRead \subseteq diffRead' /\ treeRead \subseteq treeRead' /\ hidden \subseteq hidden'
    BY <1>1 DEF Acquire
  <2>7. ASSUME NEW p \in Path, NEW r \in AnyReader, ToAnswer(r, p) PROVE ToAnswer(r, p)'
    BY <2>4, <2>5, <2>6, <2>7 DEF ToAnswer, BracketPaths, Changed
  <2>8. ASSUME NEW p \in Path, NEW r \in AnyReader, at[r] \in Judging \cup {"leaving", "ended"}, PutBack(r, p)
        PROVE  at'[r] \in Judging \cup {"leaving", "ended"} /\ PutBack(r, p)'
    BY <2>4, <2>5, <2>6, <2>8 DEF PutBack
  <2>9. ASSUME NEW p \in Path, Cleared(p, tree[p]) PROVE Cleared(p, tree[p])'
    BY <2>6, <2>9 DEF Cleared, Known, ReadByAGate
  <2> QED
    BY <2>2, <2>3, <2>7, <2>8, <2>9 DEF TreeCleared
<1>2. ASSUME NEW n \in Node, Edit(n) PROVE AllCleared'
  <2>1. at' = at /\ at[n] = "turn"
    BY <1>2 DEF Edit
  <2>2. HeadCleared' /\ BaseCleared'
    BY <1>2, <2>1, HeadStands, BaseStands DEF Edit
  <2>3. CASE n \in Writer
    BY <2>1, <2>2, <2>3 DEF TreeCleared, BeforeDiff
  <2>4. CASE n \in AnyReader
    <3>1. edits'[n] > 0
      BY <1>2, KindsAssumption DEF Edit, TypeOK
    <3> QED
      BY <2>1, <2>2, <2>4, <3>1 DEF TreeCleared, ToAnswer
  <2> QED
    BY <2>3, <2>4 DEF Node
<1>3. ASSUME NEW n \in Node, Release(n) PROVE AllCleared'
  <2>1. at[n] = "leaving" /\ \A m \in Node : at'[m] = IF m = n THEN "ended" ELSE at[m]
    BY <1>3, Moves DEF Release
  <2>2. \A v \in Writer : at[v] \in BeforeDiff => at'[v] = at[v]
    BY <2>1, Kinds DEF BeforeDiff
  <2>3. HeadCleared' /\ BaseCleared'
    BY <1>3, <2>2, HeadStands, BaseStands DEF Release, BeforeDiff
  <2>4. UNCHANGED <<tree, edits, readerVars, diffRead, treeRead, hidden>>
    BY <1>3 DEF Release
  <2>5. ASSUME NEW p \in Path, NEW r \in AnyReader, ToAnswer(r, p) PROVE ToAnswer(r, p)'
    BY <2>1, <2>4, <2>5, Kinds DEF ToAnswer, BracketPaths, Changed, readerVars, Judging
  <2>6. ASSUME NEW p \in Path, NEW r \in AnyReader, at[r] \in Judging \cup {"leaving", "ended"}, PutBack(r, p)
        PROVE  at'[r] \in Judging \cup {"leaving", "ended"} /\ PutBack(r, p)'
    BY <2>1, <2>4, <2>6, Kinds DEF PutBack, readerVars, Judging
  <2>7. ASSUME NEW p \in Path, Cleared(p, tree[p]) PROVE Cleared(p, tree[p])'
    BY <2>4, <2>7 DEF Cleared, Known, ReadByAGate
  <2> QED
    BY <2>2, <2>3, <2>5, <2>6, <2>7 DEF TreeCleared
<1> QED
  BY <1>1, <1>2, <1>3

\* A gate's diff clears every path of the tree and of the commit HEAD names, against a baseline
\* that is clear itself.
LEMMA DiffClears ==
    ASSUME TypeOK, Equipped, BaseCleared, NEW w \in Writer, GateDiff(w)
    PROVE  AllCleared'
<1>1. base[w] # None /\ base[w] \in Tree
  BY DEF GateDiff, Equipped, Based, TypeOK
<1>2. /\ diffRead' = diffRead \cup {<<w, p, tree[p]>> : p \in Changed(base[w], tree)}
      /\ hidden' = hidden \cup {p \in Path : head[p] \notin {base[w][p], tree[p]}}
      /\ UNCHANGED <<tree, head, base, treeRead>>
  BY DEF GateDiff, runVars
<1>3. BaseCleared'
  BY <1>2, BaseStands
<1>4. ASSUME NEW p \in Path PROVE Cleared(p, base[w][p])'
  BY <1>1, <1>2, ClearedStays DEF BaseCleared, Cleared, Known, ReadByAGate
<1>5. ASSUME NEW p \in Path PROVE Cleared(p, tree[p])'
  <2>1. CASE base[w][p] = tree[p]
    BY <1>2, <1>4, <2>1 DEF Cleared, Known, ReadByAGate
  <2>2. CASE base[w][p] # tree[p]
    <3>1. <<w, p, tree[p]>> \in diffRead'
      BY <1>2, <2>2 DEF Changed
    <3> QED
      BY <1>2, <3>1 DEF Cleared, Known, ReadByAGate
  <2> QED
    BY <2>1, <2>2
<1>6. ASSUME NEW p \in Path PROVE Cleared(p, head[p])'
  <2>1. CASE head[p] \notin {base[w][p], tree[p]}
    BY <1>2, <2>1 DEF Cleared
  <2>2. CASE head[p] = base[w][p]
    BY <1>2, <1>4, <2>2 DEF Cleared, Known, ReadByAGate
  <2>3. CASE head[p] = tree[p]
    BY <1>2, <1>5, <2>3 DEF Cleared, Known, ReadByAGate
  <2> QED
    BY <2>1, <2>2, <2>3
<1> QED
  BY <1>3, <1>5, <1>6 DEF AllCleared, HeadCleared, TreeCleared

\* A writer's steps clear it.
LEMMA WriterClears ==
    ASSUME TypeOK, Control, AllCleared, NEW w \in Writer, WriterStep(w), failed' = {}
    PROVE  AllCleared'
<1>0. /\ w \in Node /\ Writer \subseteq Node /\ AnyReader \subseteq Node /\ w \notin AnyReader
      /\ Locked /\ Equipped /\ HeadCleared /\ BaseCleared /\ TreeCleared
  BY Kinds DEF Control, AllCleared
<1>1. /\ UNCHANGED <<edits, readerVars>>
      /\ diffRead \subseteq diffRead' /\ treeRead \subseteq treeRead' /\ hidden \subseteq hidden'
      /\ \A r \in AnyReader : at'[r] = at[r]
      /\ \A v \in Writer : v # w => at'[v] = at[v]
  BY <1>0, WriterMoves
<1>m. ASSUME NEW stage, Goto(w, stage) PROVE at'[w] = stage
  BY <1>0, <1>m, Moves
<1>f. ~ Fails(w)
  BY DEF Fails
<1> USE DEF runVars, nodeVars, gateVars
<1>2. CASE BeginAttempt(w)
  <2>1. at[w] \in {"held", "backoff"} /\ at'[w] = "starting"
    BY <1>2, <1>m DEF BeginAttempt
  <2>2. HeadCleared' /\ BaseCleared'
    BY <1>0, <1>1, <1>2, <2>1, HeadStands, BaseStands DEF BeginAttempt, BeforeDiff
  <2> QED
    BY <2>1, <2>2 DEF AllCleared, TreeCleared, BeforeDiff
<1>3. CASE Baseline(w)
  <2>1. at[w] = "starting" /\ at'[w] = "setup"
    BY <1>3, <1>m DEF Baseline
  <2>2. HeadCleared'
    BY <1>0, <1>1, <1>3, <2>1, HeadStands DEF Baseline, BeforeDiff
  <2>3. \A p \in Path : Cleared(p, head[p])
    <3>1. \A v \in Writer : at[v] \notin BeforeDiff \ {"starting", "setup"}
      BY <1>0, <2>1 DEF Locked, BeforeDiff
    <3> QED
      BY <1>0, <3>1 DEF HeadCleared
  <2>4. BaseCleared'
    <3>1. UNCHANGED <<diffRead, treeRead, hidden>>
      BY <1>3 DEF Baseline
    <3>2. ASSUME NEW v \in Writer, base'[v] # None, NEW p \in Path PROVE Cleared(p, base'[v][p])
      BY <1>0, <1>3, <2>3, <3>2 DEF Baseline, BaseCleared, TypeOK
    <3> QED
      BY <3>1, <3>2 DEF BaseCleared, Cleared, Known, ReadByAGate
  <2> QED
    BY <2>1, <2>2, <2>4 DEF AllCleared, TreeCleared, BeforeDiff
<1>4. CASE Setup(w)
  <2>1. at[w] = "setup" /\ at'[w] = "turn"
    BY <1>4, <1>f, <1>m DEF Setup
  <2>2. HeadCleared' /\ BaseCleared'
    BY <1>0, <1>1, <1>4, <2>1, HeadStands, BaseStands DEF Setup, BeforeDiff
  <2> QED
    BY <2>1, <2>2 DEF AllCleared, TreeCleared, BeforeDiff
<1>5. CASE Commit(w)
  <2>1. at'[w] = "turn"
    BY <1>5 DEF Commit
  <2>2. BaseCleared'
    BY <1>0, <1>1, <1>5, BaseStands DEF Commit
  <2> QED
    BY <2>1, <2>2 DEF AllCleared, HeadCleared, TreeCleared, BeforeDiff
<1>6. CASE GateBegins(w) \/ GateTree(w)
  <2>1. at[w] \in {"turn", "gateTree"} /\ at'[w] \in {"gateTree", "gateDiff"}
    BY <1>6, <1>m DEF GateBegins, GateTree
  <2>2. UNCHANGED <<head, base>>
    BY <1>6 DEF GateBegins, GateTree
  <2>3. HeadCleared' /\ BaseCleared'
    BY <1>0, <1>1, <2>1, <2>2, HeadStands, BaseStands DEF BeforeDiff
  <2> QED
    BY <2>1, <2>3 DEF AllCleared, TreeCleared, BeforeDiff
<1>7. CASE GateDiff(w)
  BY <1>0, <1>7, DiffClears
<1>8. CASE GatePaths(w) \/ Judged(w)
  <2>1. at[w] \in {"gatePaths", "judging"} /\ UNCHANGED <<tree, head, base>>
    BY <1>8 DEF GatePaths, Judged
  <2>2. \A v \in Writer : at[v] \in BeforeDiff => at'[v] = at[v]
    BY <1>1, <2>1 DEF BeforeDiff
  <2>3. HeadCleared' /\ BaseCleared'
    BY <1>0, <1>1, <2>1, <2>2, HeadStands, BaseStands
  <2>4. TreeCleared'
    BY <1>0, <1>1, <2>1, <2>2, TreeStands
  <2> QED
    BY <2>3, <2>4 DEF AllCleared
<1> QED
  BY <1>f, <1>2, <1>3, <1>4, <1>5, <1>6, <1>7, <1>8 DEF WriterStep, GateGitFails

\* A reader that is judged keeps its snapshots; without a failure it goes on, is excused by a
\* writer whose gate is to come, or by what a gate read.
LEMMA Judgement ==
    ASSUME IInv, NEW r \in AnyReader, ReaderStep(r), failed' = {}, at[r] \in Judging
    PROVE  /\ bracket'[r].from = bracket[r].from /\ bracket'[r].to = bracket[r].to
           /\ at'[r] \in Judging \cup {"leaving"}
           /\ \/ at'[r] \in Judging
              \/ \E w \in Writer : at[w] \in BeforeDiff
              \/ \A p \in BracketPaths(r) : ReadByAGate(p, bracket[r].to[p])
<1>0. TypeOK /\ Control /\ ReadFor(r) /\ r \in Node
  BY Kinds DEF IInv, Control
<1>f. ~ Unexpected(r)
  BY DEF Unexpected, Fails
<1>c. ASSUME NEW k, Check(r, k)
      PROVE  bracket'[r].from = bracket[r].from /\ bracket'[r].to = bracket[r].to /\ at'[r] = "checking"
  <2>1. PICK i : /\ Goto(r, "checking")
                 /\ bracket' = [bracket EXCEPT ![r].asked = i, ![r].gateTree = evidence[acquired[i]].tree]
    BY <1>c, <1>f DEF Check
  <2>2. bracket'[r].from = bracket[r].from /\ bracket'[r].to = bracket[r].to
    BY <1>0, <2>1 DEF TypeOK, Bracket
  <2> QED
    BY <1>0, <2>1, <2>2, Moves
<1>1. CASE CloseWindow(r)
  BY <1>0, <1>1, Moves DEF CloseWindow, readerVars, Judging
<1>2. CASE Ask(r)
  <2>1. ASSUME NEW w \in RuleA(r), Attribute(r, w, "a")
        PROVE  at[w] \in BeforeDiff /\ bracket' = bracket /\ at'[r] = "leaving"
    <3>1. w \in Writer /\ holder = w /\ w \in writerNodes \ gating
      BY DEF RuleA
    <3>2. failed = {}
      BY <1>0, ReaderMoves
    <3>3. at[w] \in {"starting", "setup", "turn"}
      BY <1>0, <3>1, <3>2 DEF Control, ToGate, Locked
    <3> QED
      BY <1>0, <2>1, <3>3, Moves DEF Attribute, BeforeDiff
  <2> QED
    BY <1>2, <1>c, <1>f, <2>1 DEF Ask, RuleA, Judging
<1>3. CASE Answer(r)
  <2>1. CASE /\ \A p \in BracketPaths(r) : bracket[r].gateTree[p] = bracket[r].to[p]
             /\ Attribute(r, acquired[bracket[r].asked], "b")
    <3>1. \A p \in BracketPaths(r) : <<acquired[bracket[r].asked], p, bracket[r].to[p]>> \in treeRead
      BY <1>0, <1>3, <2>1 DEF Answer, ReadFor
    <3>2. \A p \in BracketPaths(r) : ReadByAGate(p, bracket[r].to[p])
      BY <1>0, <3>1 DEF ReadByAGate, TypeOK
    <3> QED
      BY <1>0, <2>1, <3>2, Moves DEF Attribute
  <2>2. CASE Check(r, bracket[r].asked)
    BY <1>c, <2>2 DEF Judging
  <2> QED
    BY <1>3, <2>1, <2>2 DEF Answer
<1> QED
  BY <1>1, <1>2, <1>3 DEF ReaderStep, Open, StartTree, EndTree, Judging

\* A reader's steps clear it, or the reader fails.
LEMMA ReaderClears ==
    ASSUME IInv, NEW r \in AnyReader, ReaderStep(r), failed' = {}
    PROVE  AllCleared'
<1>0. TypeOK /\ Control /\ AllCleared /\ ReadFor(r) /\ r \in Node
  BY Kinds, ReaderMoves DEF IInv, Control, AllCleared
<1>1. /\ UNCHANGED <<tree, head, base, edits, diffRead, treeRead, hidden>>
      /\ \A w \in Writer : at'[w] = at[w]
      /\ \A q \in AnyReader : q # r => at'[q] = at[q] /\ bracket'[q] = bracket[q]
  BY <1>0, ReaderMoves, ReaderAlone, Kinds DEF runVars, gateVars
<1>2. HeadCleared' /\ BaseCleared'
  BY <1>0, <1>1, HeadStands, BaseStands DEF AllCleared
<1>3. ASSUME NEW p \in Path
      PROVE  \/ Cleared(p, tree[p])'
             \/ \E w \in Writer : at'[w] \in BeforeDiff
             \/ \E q \in AnyReader : ToAnswer(q, p)'
             \/ \E q \in AnyReader : at'[q] \in Judging \cup {"leaving", "ended"} /\ PutBack(q, p)'
  <2>1. CASE Cleared(p, tree[p])
    BY <1>1, <2>1 DEF Cleared, Known, ReadByAGate
  <2>2. CASE \E w \in Writer : at[w] \in BeforeDiff
    BY <1>1, <2>2
  <2>3. ASSUME NEW q \in AnyReader, q # r, ToAnswer(q, p) PROVE ToAnswer(q, p)'
    BY <1>1, <2>3 DEF ToAnswer, BracketPaths, Changed
  <2>4. ASSUME NEW q \in AnyReader, q # r, at[q] \in Judging \cup {"leaving", "ended"}, PutBack(q, p)
        PROVE  at'[q] \in Judging \cup {"leaving", "ended"} /\ PutBack(q, p)'
    BY <1>1, <2>4 DEF PutBack
  <2>5. CASE at[r] \in Judging \cup {"leaving", "ended"} /\ PutBack(r, p)
    <3>1. at[r] \in Judging
      BY <2>5 DEF Judging, ReaderStep, Open, StartTree, EndTree, CloseWindow, Ask, Answer
    <3>2. bracket'[r].from = bracket[r].from /\ bracket'[r].to = bracket[r].to /\ at'[r] \in Judging \cup {"leaving"}
      BY <3>1, Judgement
    <3> QED
      BY <1>1, <2>5, <3>2 DEF PutBack
  <2>6. CASE at[r] = "turn" /\ edits[r] > 0
    <3>1. EndTree(r)
      BY <2>6 DEF ReaderStep, Open, StartTree, EndTree, CloseWindow, Ask, Answer
    <3>2. /\ bracket'[r].from = bracket[r].from /\ bracket'[r].to = tree
          /\ at'[r] = IF tree = bracket[r].from THEN "leaving" ELSE "closing"
      BY <1>0, <3>1, Moves DEF EndTree, TypeOK, Bracket
    <3>3. CASE bracket[r].from[p] = tree[p]
      BY <1>1, <2>6, <3>2, <3>3 DEF PutBack, Judging
    <3>4. CASE bracket[r].from[p] # tree[p]
      BY <1>1, <3>2, <3>4 DEF ToAnswer, BracketPaths, Changed, Judging
    <3> QED
      BY <3>3, <3>4
  <2>7. CASE at[r] \in Judging /\ bracket[r].to[p] = tree[p] /\ p \in BracketPaths(r)
    <3>1. /\ bracket'[r].from = bracket[r].from /\ bracket'[r].to = bracket[r].to
          /\ \/ at'[r] \in Judging
             \/ \E w \in Writer : at[w] \in BeforeDiff
             \/ \A x \in BracketPaths(r) : ReadByAGate(x, bracket[r].to[x])
      BY <2>7, Judgement
    <3>2. CASE at'[r] \in Judging
      BY <1>1, <2>7, <3>1, <3>2 DEF ToAnswer, BracketPaths, Changed
    <3>3. CASE \A x \in BracketPaths(r) : ReadByAGate(x, bracket[r].to[x])
      BY <2>1, <2>7, <3>3 DEF Cleared, Known
    <3> QED
      BY <2>2, <3>1, <3>2, <3>3
  <2> QED
    BY <1>0, <2>1, <2>2, <2>3, <2>4, <2>5, <2>6, <2>7 DEF AllCleared, TreeCleared, ToAnswer
<1> QED
  BY <1>2, <1>3 DEF AllCleared, TreeCleared

\* So does every step, until a node fails.
LEMMA ClearsKept == IInv /\ [Next]_vars => (failed' = {} => AllCleared')
<1> SUFFICES ASSUME IInv, [Next]_vars, failed' = {} PROVE AllCleared'
  OBVIOUS
<1>1. TypeOK /\ Control /\ (failed = {} => AllCleared)
  BY DEF IInv, Control, AllCleared
<1>2. CASE UNCHANGED vars
  BY <1>1, <1>2, HeadStands, BaseStands, TreeStands DEF AllCleared, vars, runVars, nodeVars, gateVars, readerVars
<1>3. ASSUME NEW r \in AnyReader, ReaderStep(r) PROVE AllCleared'
  BY <1>3, ReaderClears
<1>4. ASSUME NEW w \in Writer, WriterStep(w) PROVE AllCleared'
  BY <1>1, <1>4, WriterMoves, WriterClears
<1>5. CASE (\E n \in LockUser : Acquire(n)) \/ (\E n \in Node : Edit(n) \/ Release(n))
  BY <1>1, <1>5, LockClears DEF Acquire, Edit, Release
<1> QED
  BY <1>2, <1>3, <1>4, <1>5 DEF Next

-----------------------------------------------------------------------------
(* The invariant, and what the guard holds to.                               *)

\* The invariant holds at first.
LEMMA Begins == Init => IInv
<1> SUFFICES ASSUME Init PROVE IInv
  OBVIOUS
<1>1. TypeOK
  BY TypesBegin
<1>2. \A n \in Node : at[n] \in {"idle", "ended"}
  BY DEF Init
<1>3. Locked /\ Equipped /\ Counted /\ ToGate /\ EvidenceRead
  BY <1>2, Kinds DEF Init, Locked, Equipped, Based, Counted, ToGate, EvidenceRead
<1>4. ASSUME NEW r \in AnyReader PROVE ReadFor(r)
  BY <1>2, Kinds DEF Init, NotAttributed, ReadFor, Judging
<1>5. \A p \in Path : Cleared(p, tree[p]) /\ Cleared(p, head[p])
  BY DEF Init, Cleared, Known
<1>6. HeadCleared /\ BaseCleared /\ TreeCleared
  BY <1>5 DEF Init, HeadCleared, BaseCleared, TreeCleared
<1> QED
  BY <1>1, <1>3, <1>4, <1>6 DEF IInv

\* It holds in every state.
LEMMA Invariant == Spec => []IInv
<1>1. IInv /\ [Next]_vars => IInv'
  BY TypesKept, ControlKept, EvidenceKept, ReadsKept, ClearsKept DEF IInv, Control, AllCleared
<1> QED
  BY <1>1, Begins, PTL DEF Spec

\* Every variable keeps its type.
THEOREM TypeCorrect == Spec => []TypeOK
<1>1. IInv => TypeOK
  BY DEF IInv
<1> QED
  BY <1>1, Invariant, PTL

\* What rule (b) excuses a reader from, a gate of the writer it names has read
\* (RoleDispatcher.attributableWriter, reviewedHolds, unchangedSince).
THEOREM ExcusedWasRead == Spec => []RuleBWasRead
<1>1. IInv => RuleBWasRead
  BY DEF IInv, ReadFor, RuleBWasRead
<1> QED
  BY <1>1, Invariant, PTL

\* No run succeeds with a change that no gate has read, except out of the gates' sight
\* (RoleDispatcher.runPostCoderGates, readerChangeGuard).
THEOREM NoChangeUnread == Spec => []ReadUnlessOutOfSight
<1>1. ASSUME IInv, Succeeded, NEW p \in Path PROVE ReadAtTheEnd(p) \/ OutOfSight(p)
  <2>1. TreeCleared /\ \A n \in Node : at[n] = "ended"
    BY <1>1 DEF IInv, Succeeded, AllEnded
  <2>2. \A w \in Writer : at[w] \notin BeforeDiff
    BY <2>1, Kinds DEF BeforeDiff
  <2>3. \A r \in AnyReader : ~ ToAnswer(r, p)
    BY <2>1, Kinds DEF ToAnswer, Judging
  <2> QED
    BY <2>1, <2>2, <2>3 DEF TreeCleared, Cleared, Known, ReadAtTheEnd, OutOfSight
<1>2. IInv => ReadUnlessOutOfSight
  BY <1>1 DEF ReadUnlessOutOfSight
<1> QED
  BY <1>2, Invariant, PTL
=============================================================================

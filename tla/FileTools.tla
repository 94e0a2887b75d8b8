----------------------------- MODULE FileTools -----------------------------
(* The working tree as the tools see it: what a path leads to, what the fs.* *)
(* tools and patch.apply declare to the gate and then do, and what they      *)
(* refuse. A path is a sequence of names under the project root; the tree    *)
(* gives each path a kind: nothing, a directory, a link or a content.        *)
EXTENDS Integers, Sequences, FiniteSets, SequencesExt

CONSTANTS
    Path,             \* the paths that can hold something; <<"..", x>> is outside the root
    Content,
    LinkTo,           \* per link: a path, and how far up it is taken from, or Absolute
    MaxSymlinkHops

Absolute == -1
Kind == {"none", "dir"} \cup Content \cup DOMAIN LinkTo
Tree == [Path -> Kind]
Elements(s) == {s[i] : i \in DOMAIN s}
Above(p) == {SubSeq(p, 1, i) : i \in 1 .. Len(p) - 1}
IsFile(k) == k \in Content
IsLink(k) == k \in DOMAIN LinkTo
At(t, p) == IF p \in {<<>>, <<"..">>} THEN "dir" ELSE IF p \in Path THEN t[p] ELSE "none"
Target(dir, link) ==
    LET l == LinkTo[link] IN
    IF l.up = Absolute THEN l.to ELSE SubSeq(dir, 1, Len(dir) - l.up) \o l.to

Unresolved == <<"ELOOP">>
Escapes(p) == p # <<>> /\ Head(p) \in {"..", "ELOOP"}
NamesGitDir(p) == ".git" \in Elements(p)

\* The file that opening p reaches, or would create: the system's own resolution.
Opened(t, p, hops) ==
    LET opened[r \in Seq(STRING), n \in 0 .. MaxSymlinkHops] ==
          IF r \in {<<>>, <<"..">>} THEN r
          ELSE LET q == Append(opened[Front(r), n], Last(r)) IN
               IF ~ IsLink(At(t, q)) THEN q
               ELSE IF n = 0 THEN Unresolved
               ELSE opened[Target(Front(q), At(t, q)), n - 1]
    IN  opened[p, hops]
Opens(t, p) == Opened(t, p, MaxSymlinkHops)

\* lstat follows every name but the last.
Lstat(t, p) == IF p \in {<<>>, <<"..">>} THEN "dir" ELSE At(t, Append(Opens(t, Front(p)), Last(p)))

\* Wrong: a link whose target is missing is taken for the name of a new file.
RealpathOfWhatExists(t, p, hops) ==
    LET through[r \in Seq(STRING)] ==
          IF r = <<>> THEN r
          ELSE IF Lstat(t, r) # "none" /\ Lstat(t, Opens(t, r)) # "none" THEN Opens(t, r)
          ELSE Append(through[Front(r)], Last(r))
    IN  through[p]

\* realpathThrough: a missing tail is appended, a link is followed by hand, from the
\* directory it was named in.
RealpathThrough(t, p, hops) ==
    LET through[r \in Seq(STRING), n \in Nat] ==
          IF n > MaxSymlinkHops THEN Unresolved
          ELSE IF Lstat(t, r) = "none" THEN Append(through[Front(r), n], Last(r))
          ELSE IF IsLink(Lstat(t, r)) THEN through[Target(Front(r), Lstat(t, r)), n + 1]
          ELSE Opens(t, r)
    IN  through[p, hops]

ResolveInside(t, p) == RealpathThrough(t, p, 0)

-----------------------------------------------------------------------------
(* The fs.* tools. An outcome is the tree after, and how the call ended: it  *)
(* was refused, it failed, or it did what it says.                           *)

CallOutcome(t, end) == [tree |-> t, end |-> end]
Readers == {"fs.read", "fs.stat", "fs.list", "grep"}

\* What a reader must find at the end of its path.
Readable(tool, k) ==
    \/ tool = "fs.read" /\ IsFile(k)
    \/ tool = "fs.stat" /\ k # "none"
    \/ tool = "fs.list" /\ k = "dir"
    \/ tool = "grep" /\ k # "none"
Read(t, tool, p) ==
    LET q == ResolveInside(t, p) IN
    IF Escapes(q) THEN CallOutcome(t, IF tool = "grep" THEN "failed" ELSE "refused")
    ELSE CallOutcome(t, IF Readable(tool, At(t, q)) THEN "ok" ELSE "failed")

\* Wrong: only the spelling is looked at.
WritableBySpelling(t, p) == ~ NamesGitDir(p) /\ ~ Escapes(ResolveInside(t, p)) /\ p # <<>>

WritablePath(t, p) ==
    LET q == ResolveInside(t, p) IN
    ~ NamesGitDir(p) /\ ~ Escapes(q) /\ q # <<>> /\ ~ NamesGitDir(q)

\* mkdir -p makes what is missing above a file, or fails at what is no directory.
Write(t, p, content, createDirs) ==
    LET q == ResolveInside(t, p)
        above == Above(q)
        made == IF createDirs /\ q \in Path /\ \A a \in above : At(t, a) \in {"none", "dir"}
                THEN [a \in Path |-> IF a \in above THEN "dir" ELSE t[a]] ELSE t IN
    IF ~ WritablePath(t, p) THEN CallOutcome(t, "refused")
    ELSE IF (\A a \in above : At(made, a) = "dir") /\ At(t, q) # "dir" /\ q \in Path
    THEN CallOutcome([made EXCEPT ![q] = content], "ok") ELSE CallOutcome(made, "failed")

Delete(t, p, recursive) ==
    LET q == ResolveInside(t, p) k == At(t, q) IN
    IF ~ WritablePath(t, p) THEN CallOutcome(t, "refused")
    ELSE IF k = "none" \/ (k = "dir" /\ ~ recursive) THEN CallOutcome(t, "failed")
    ELSE CallOutcome([a \in Path |-> IF a = q \/ q \in Above(a) THEN "none" ELSE t[a]], "ok")

-----------------------------------------------------------------------------
(* patch.apply. A section of a diff turns `from` at `old` into `to` at       *)
(* `new`; a creation has no old name and a deletion no new one. Its form is  *)
(* "content", "bare" (content without the mode line git writes) or one a     *)
(* list of paths does not describe. No name is in two sections. A diff whose *)
(* last section git would skip is not readable in full.                      *)

Nowhere == <<>>
Creations(d) == {s.new : s \in {s \in Elements(d.sections) : s.old = Nowhere}}
Deletions(d) == {s.old : s \in {s \in Elements(d.sections) : s.new = Nowhere}}
NumstatPaths(d, reverse) ==
    {LET s == IF reverse THEN [new |-> r.old, old |-> r.new] ELSE r IN
     IF s.new = Nowhere THEN s.old ELSE s.new : r \in Elements(d.sections)}

\* The grammar and the forms --summary names: a creation or a deletion by its mode line.
Described(d) == d.readable /\ \A s \in Elements(d.sections) : s.form \in {"content", "bare"}
Created(d) == {s.new : s \in {s \in Elements(d.sections) : s.old = Nowhere /\ s.form = "content"}}
Deleted(d) == {s.old : s \in {s \in Elements(d.sections) : s.new = Nowhere /\ s.form = "content"}}

SafePath(p) == p # Nowhere /\ ~ Escapes(p)
DeclaredFromGit(d) == NumstatPaths(d, FALSE) \cup NumstatPaths(d, TRUE)
Declarable(d) ==
    /\ Described(d) /\ NumstatPaths(d, FALSE) = NumstatPaths(d, TRUE)
    /\ DeclaredFromGit(d) # {} /\ \A p \in DeclaredFromGit(d) : SafePath(p)

\* Wrong: the name itself is looked at, and not what is above it.
RefusesLinkItself(t, p, d) ==
    \/ IsLink(At(t, p))
    \/ At(t, p) = "dir" /\ p \notin Created(d) \cup Deleted(d)

\* refuseSymlinkTargets, for one declared path: the walk ends where nothing is, and where
\* the diff itself deletes a name above.
RefusesTarget(t, p, d) ==
    \E i \in 1 .. Len(p) : LET q(j) == SubSeq(p, 1, j) k == At(t, q(i)) IN
      /\ \A j \in 1 .. i : At(t, q(j)) # "none" /\ (j < Len(p) => q(j) \notin Deleted(d))
      /\ \/ IsLink(k)
         \/ i < Len(p) /\ k # "dir"
         \/ i = Len(p) /\ k = "dir" /\ p \notin Created(d) \cup Deleted(d)

\* What the gate is told before any rule is asked: a declaration, or a refusal.
PatchDeclares(t, d) ==
    /\ Declarable(d)
    /\ \A p \in DeclaredFromGit(d) : ~ NamesGitDir(p) /\ ~ RefusesTarget(t, p, d)

\* git apply: what it skips in silence, what --check looks at, and what it writes.
SeenByGit(d) == IF d.readable THEN Elements(d.sections) ELSE Elements(Front(d.sections))
BehindLink(t, p) == \E a \in Above(p) : IsLink(At(t, a))
Inside(t, p) == \A a \in Above(p) : At(t, a) = "dir"
Checks(t, d) ==
    \A s \in SeenByGit(d) :
      /\ ~ BehindLink(t, s.new) /\ ~ BehindLink(t, s.old)
      /\ IF s.old = Nowhere THEN At(t, s.new) \in {"none", "dir"}
         ELSE /\ Inside(t, s.old)
              /\ At(t, s.old) \in {s.from} \cup (IF s.form = "content" THEN {} ELSE {"dir"} \cup DOMAIN LinkTo)
Applied(t, sections) ==
    LET kept == {s \in sections : s.old # s.new \/ At(t, s.new) # "dir"}
        gone == {s.old : s \in kept} \ {s.new : s \in kept}
        new == {s.new : s \in kept} \ {Nowhere}
        above == UNION {Above(p) : p \in new}
        To(p) == (CHOOSE s \in kept : s.new = p).to
        Emptied(p) == /\ At(t, p) = "dir" /\ \E g \in gone : p \in Above(g)
                      /\ \A a \in Path : p \in Above(a) => At(t, a) = "none" \/ a \in gone
    IN  [p \in Path |-> IF p \in new THEN To(p) ELSE IF p \in above THEN "dir"
                        ELSE IF p \in gone \/ Emptied(p) THEN "none" ELSE t[p]]
Stuck(t, d, s) ==
    \/ \E a \in Above(s.new) : Inside(t, a) /\ At(t, a) \notin {"none", "dir"} /\ a \notin Deletions(d)
    \/ /\ s.old = Nowhere /\ At(t, s.new) = "dir"
       /\ \E a \in Path : s.new \in Above(a) /\ At(t, a) # "none" /\ a \notin Deletions(d)
Apart(sections) == \A r, s \in sections : r.new \notin Above(s.new)
GitApplies(t, d) ==
    LET stuck == {s \in SeenByGit(d) : Stuck(t, d, s)} IN
    IF stuck = {} /\ Apart(SeenByGit(d)) THEN {CallOutcome(Applied(t, SeenByGit(d)), "ok")}
    ELSE {CallOutcome(Applied(t, part), "failed") : part \in {q \in SUBSET (SeenByGit(d) \ stuck) : Apart(q)}}

\* execute declares again, where it will write: `approved` is None for a caller without a gate.
Patch(t, d, approved, dryRun) ==
    LET declared == DeclaredFromGit(d) IN
    IF \/ ~ PatchDeclares(t, d) \/ approved # declared
       \/ \E p \in declared : LET q == ResolveInside(t, p) IN ~ Escapes(q) /\ NamesGitDir(q)
    THEN {CallOutcome(t, "refused")}
    ELSE IF ~ Checks(t, d) THEN {CallOutcome(t, "failed")}
    ELSE IF dryRun THEN {CallOutcome(t, "ok")} ELSE GitApplies(t, d)
=============================================================================

--------------------------- MODULE MCPatchCycle ---------------------------
EXTENDS PatchCycle, TLC

f == <<"f">>
d == <<"d">>
e == <<"d", "e">>
c == <<"d", "e", "c">>
df == <<"d", "f">>
l == <<"l">>
m == <<"m">>
g == <<".git">>
gc == <<".git", "c">>
o == <<"..", "o">>
fy == <<"f", "y">>
my == <<"m", "y">>
lc == <<"l", "c">>
eg == <<"d", "e", ".git">>
MCPath == {f, d, e, c, df, l, m, g, gc, o, fy, my, lc, eg}

MCLinkTo ==
    [tof |-> [up |-> Absolute, to |-> f], toe |-> [up |-> Absolute, to |-> e],
     tog |-> [up |-> Absolute, to |-> g], toO |-> [up |-> Absolute, to |-> o],
     tom |-> [up |-> 0, to |-> m], tol |-> [up |-> 0, to |-> l], upf |-> [up |-> 1, to |-> <<"f">>]]

Base == [p \in MCPath |-> CASE p \in {d, e, g} -> "dir" [] p \in {f, c} -> "v0" [] p = gc -> "v0" [] OTHER -> "none"]
MCTrees ==
    {[Base EXCEPT ![l] = x, ![c] = y, ![f] = z] :
        x \in {"none", "tof", "toe", "tog", "toO", "tom", "tol"}, y \in {"v0", "upf", "none"}, z \in {"v0", "none"}}
    \cup {[Base EXCEPT ![l] = "toe", ![c] = "none", ![eg] = "v0"]}

Section(old, new, form) ==
    [old |-> old, new |-> new, from |-> "v0", to |-> "v1", form |-> form]
Diff(sections) == [sections |-> sections, readable |-> TRUE]
Change(p) == Section(p, p, "content")
Create(p) == Section(Nowhere, p, "content")
Erase(p) == Section(p, Nowhere, "content")
Bare(s) == [s EXCEPT !.form = "bare"]
MCDiffs == {Diff(<<Change(f)>>), Diff(<<Change(f), Create(m)>>), Diff(<<Bare(Erase(c)), Create(df)>>),
            Diff(<<Create(m), Create(my)>>)}
AllDiffs == MCDiffs \cup
    {Diff(<<Bare(Change(l))>>), Diff(<<Change(f), Change(lc)>>), Diff(<<Change(f), Create(fy)>>),
     Diff(<<Erase(f), Create(fy)>>), Diff(<<Bare(Erase(f)), Create(fy)>>), Diff(<<Bare(Change(d))>>),
     Diff(<<Bare(Erase(e))>>), Diff(<<Erase(e)>>), Diff(<<Create(o)>>),
     Diff(<<Section(f, m, "content")>>),
     Diff(<<Section(f, m, "rename")>>), Diff(<<Change(gc)>>), Diff(<<Change(f), Create(e)>>),
     Diff(<<Erase(c), Create(e)>>), [sections |-> <<Change(f), Create(m)>>, readable |-> FALSE]}

Asks == {<<>>, f, c, l, lc, gc, o, fy}
MCCalls ==
    {[tool |-> "patch.apply", diff |-> x, dryRun |-> dry, input |-> "good", gated |-> gated] :
        x \in AllDiffs, dry \in BOOLEAN, gated \in BOOLEAN}
    \cup {[tool |-> "fs.write", path |-> p, content |-> "v1", createDirs |-> dirs, input |-> "good", gated |-> gated] :
        p \in Asks, dirs \in BOOLEAN, gated \in BOOLEAN}
    \cup {[tool |-> "fs.delete", path |-> p, recursive |-> rec, input |-> "good", gated |-> gated] :
        p \in Asks, rec \in BOOLEAN, gated \in BOOLEAN}
    \cup {[tool |-> t, path |-> p, input |-> "good", gated |-> FALSE] : t \in Readers, p \in {f, l, o}}
    \cup {[tool |-> "fs.write", path |-> f, content |-> "v1", createDirs |-> FALSE, input |-> i, gated |-> gated] :
        i \in {"extra", "missing"}, gated \in BOOLEAN}

MCMeddling == {(l :> "tog"), (l :> "toO"), (f :> "v1")} \cup {(f :> "none" @@ m :> "v0")}

\* A fresh breaker, and one that earlier loops have all but used up: nothing resets it.
MCBreakers == {[attempts |-> 0, errors |-> 0], [attempts |-> 3, errors |-> 1]}
=============================================================================

---------------------------- MODULE MCGoldenRun ----------------------------
EXTENDS GoldenRun

At(file, spelt) == [file |-> file, spelt |-> spelt]
Src == At("src", "same")
Tests == At("tests", "same")

Call(tool, paths) == [tool |-> tool, paths |-> paths, role |-> Nothing]
WriteSrc == Call("fs.write", {Src})
MCCalls == {WriteSrc, Call("fs.write", {Tests}), Call("fs.write", {At("tests", "other")}), Call("fs.write", {At("src", "outside")}),
            Call("patch.apply", {Src, At("tests", "other")}), Call("fs.read", {Tests})}

Rule(id, priority, action) ==
    [id |-> id, priority |-> priority, action |-> action, tools |-> {}, roles |-> {}, glob |-> {}, allowed |-> {}, memory |-> {}]
DenyTests == [Rule("tests", 1, "Deny") EXCEPT !.glob = {Tests}]
EscalateTests == [Rule("ask", 2, "Escalate") EXCEPT !.glob = {At("tests", "other")}]
AllowTests == [Rule("let", 2, "Allow") EXCEPT !.glob = {Tests}, !.tools = {"fs.write"}]
OnlySrc == [Rule("only", 3, "Deny") EXCEPT !.allowed = {Src}, !.roles = {"coder"}]
NotTwice == [Rule("twice", 5, "Deny") EXCEPT !.memory = {"tool"}, !.tools = {"fs.write"}]
Unbound == [Rule("unbound", 4, "Deny") EXCEPT !.memory = {"tool", "user"}, !.tools = {"patch.apply"}]
Policies == {<<>>, <<DenyTests>>, <<DenyTests, EscalateTests>>, <<DenyTests, AllowTests>>, <<DenyTests, AllowTests, NotTwice>>, <<OnlySrc, Unbound>>}

TestScript == [kind |-> "test-script", needs |-> {"src"}, leaves |-> {Tests, At("log", "same")}]
DiffMatch == [kind |-> "diff-match", mustContain |-> {"src"}, mustNotContain |-> {"log"}]
SecurityGate == [kind |-> "security-gate", maxSeverity |-> "low"]
Judge == [kind |-> "llm-judge"]

Golden(id, role, script, verifiers, files) ==
    [id |-> id, role |-> role, prompt |-> id, script |-> script, verifiers |-> verifiers, mustNotModify |-> files,
     wellFormed |-> TRUE, provenance |-> "spec"]
Fix == Golden("fix", "coder", <<WriteSrc, Call("fs.write", {At("tests", "other")})>>, <<TestScript, DiffMatch, SecurityGate>>, {"tests"})
Explain == Golden("explain", "analyst", <<Call("fs.read", {Tests}), WriteSrc>>, <<Judge>>, {})
Ghost == Golden("ghost", "unknown", <<>>, <<DiffMatch>>, {})

Suite(corpus, agent, attempts) ==
    {[corpus |-> corpus, agent |-> agent, attempts |-> attempts, bundle |-> b, policy |-> p, caseInsensitive |-> ci] :
        b \in {DEFAULT_BUNDLE_REFS}, p \in Policies, ci \in BOOLEAN}
Bundled(b, agent) == {[s EXCEPT !.bundle = b] : s \in Suite(<<Fix>>, agent, 1)}
MCSuites ==
    Suite(<<Fix, Explain>>, "model", 1) \union Suite(<<Fix>>, "model", 2)
    \union Suite(<<Fix, Ghost>>, "scripted", 2) \union Suite(<<Explain, Fix>>, "scripted", 2)
    \union Bundled(<<"security-gate", "transcript">>, "scripted") \union Bundled(<<"linter">>, "model")
    \union Bundled(<<"transcript", "transcript">>, "scripted") \union Suite(<<Fix>>, "scripted", -1)
    \union Suite(<<Fix, Fix>>, "model", 1) \union Suite(<<[Fix EXCEPT !.provenance = "the code"]>>, "scripted", 1)

MCOthers ==
    {[reads |-> r, result |-> [corpusSha |-> c, adapter |-> "scripted", attempts |-> 2, solved |-> s]] :
        r \in {TRUE}, c \in {Nothing, CorpusSha(<<Explain, Fix>>)}, s \in SUBSET {"fix", "explain"}}

-----------------------------------------------------------------------------
(* The pipeline, over every pair of processors and every list of three.      *)

Acts == {[edit |-> e, yields |-> y] : e \in Changes,
            y \in {<<>>, <<"same">>} \union {<<x>> : x \in Changes} \union {<<"same", x>> : x \in {"kept", "fixed", "appends"}}}
Histories == {<<Message("user", "u")>>, <<Message("user", "u"), Message("assistant", "a")>>}
Prior(h) == SubSeq(h, 1, Len(h) - 1)

\* What one processor may not change, no pair of them does: whatever leaves a hook, and the caller's own object,
\* has the hook and the read-only part it came with, and of a history what was said; or the run throws. Only an
\* interceptable hook ends with no event (ProcessorPipeline.ts:62-70, 140-153).
ContractKept ==
    pc = "start" => \A hook \in {"before_tool", "before_model", "task_end"} : \A h \in Histories : \A a, b \in Acts :
        LET event == [hook |-> hook, fixed |-> "given", open |-> h]
            run == RunHook(hook, <<a, b>>, event)
            Same(e) ==
                /\ e.hook = hook /\ e.fixed = "given"
                /\ hook = "task_end" => e.open = h
                /\ hook = "before_model" =>
                      Len(e.open) >= Len(h) /\ Prior(h) = SubSeq(e.open, 1, Len(h) - 1) /\ e.open[Len(h)].kind = h[Len(h)].kind
        IN  ~ run.threw =>
            /\ Same(run.caller) /\ \A i \in DOMAIN run.events : Same(run.events[i])
            /\ hook = "task_end" => run.events # <<>>

Listed(i) == {[Processor(i, {"task_end"}, g, o, Passes) EXCEPT !.softAfter = s] :
                g \in {"", i}, o \in {"PRE", "POST"}, s \in SUBSET ({"a", "b", "c"} \ {i})}
Waits(ps, S) == \A i \in S : \E j \in S : ps[j].group # "" /\ ps[j].group \in ps[i].softAfter

\* The order of a bundle is the order its processors ask for: PRE before NORMAL before POST, and within these
\* after the groups they wait for, unless some wait for each other (ProcessorPipeline.ts:12-16, 113-138).
OrderKept ==
    pc = "start" => \A a \in Listed("a"), b \in Listed("b"), c \in Listed("c") :
        LET given == <<a, b, c>> order == TopologicalOrder(given)
        IN  /\ ToSet(order) = ToSet(given) /\ Len(order) = 3
            /\ \A i, j \in 1..3 : i < j =>
                  /\ ORDER_RANK[order[i].order] <= ORDER_RANK[order[j].order]
                  /\ order[i].order = order[j].order /\ order[j].group # "" /\ order[j].group \in order[i].softAfter =>
                        \E S \in SUBSET (1..3) : S # {} /\ Waits(given, S)

\* Under any bundle that builds of the processors there are, a hook ends with one event: the one it was given,
\* but for a tool's result, which the redaction may have changed (defaults.ts, InProcessAgentLoop.ts:213-221).
Bundles == {refs \in UNION {[1..n -> {p.name : p \in DefaultRegistry} \union {"linter"}] : n \in 0..4} : Builds(refs)}
DefaultsServe ==
    pc = "start" => \A refs \in Bundles : \A hook \in INTERCEPTABLE \union {"step_end", "task_end"} : \A h \in Histories :
        LET event == [hook |-> hook, fixed |-> "given", open |-> h]
            redacted == "secret-redact" \in ToSet(refs) /\ hook = "after_tool"
        IN  Hook(refs, event) = IF redacted THEN Changed(event, "edits") ELSE event

PipelineKept == ContractKept /\ OrderKept /\ DefaultsServe
=============================================================================

--------------------------- MODULE MCRunCommand ---------------------------
(* maf run for TLC, and what the command must hold to.                       *)
EXTENDS RunCommand, TLC

Layout(prefixedBelow, covered, state) == [prefixed |-> prefixedBelow, ignored |-> covered, runtime |-> state]
MCLayouts == {Layout(FALSE, TRUE, Absent), Layout(FALSE, TRUE, "old"), Layout(TRUE, FALSE, Absent)}

Config(mapping, worktree, rest) == [document |-> TRUE, mapping |-> mapping, worktree |-> worktree, rest |-> rest]
MCConfigs == {Config(TRUE, "unset", "good"), Config(TRUE, "off", "good"), Config(TRUE, "bad", "good"),
              Config(TRUE, "unset", "unknown"), Config(FALSE, "unset", "good")}

\* A role set: as the built-in ones, with a cli writer, and with each kind of mistake.
Coder == Role("coder", {"reads", "writes"}, "unset", "yes")
Reader == Role("reviewer", {"reads"}, "in-process", "unset")
RoleSet(shape, default, roles) == [document |-> TRUE, shape |-> shape, default |-> default, roles |-> roles]
MCRoleSets == {RoleSet(FALSE, "coder", <<Coder>>), RoleSet(TRUE, "coder", <<Coder, Reader>>),
    RoleSet(TRUE, "coder", <<[Coder EXCEPT !.execution = "cli"]>>), RoleSet(TRUE, "coder", <<Coder, Coder>>),
    RoleSet(TRUE, "reviewer", <<Coder>>), RoleSet(TRUE, "reviewer", <<[Reader EXCEPT !.expectsChange = "yes"]>>),
    RoleSet(TRUE, "coder", <<[Coder EXCEPT !.expectsToolCalls = "yes"]>>),
    RoleSet(TRUE, "reviewer", <<[Reader EXCEPT !.prompt = "empty"]>>),
    RoleSet(TRUE, "reviewer", <<[Reader EXCEPT !.tools = {"nothing known"}]>>),
    RoleSet(TRUE, "reviewer", <<[Reader EXCEPT !.tools = {}, !.expectsToolCalls = "yes"]>>)}

\* Policies: sound, with a rule that does not read beside one that does, an id used twice, no rules.
Rule(id, sound, predicate, kind, fields) ==
    [id |-> id, sound |-> sound, predicate |-> predicate, action |-> [kind |-> kind, fields |-> fields]]
Field(name, value) == name :> value
Allowing == Rule("allow", TRUE, Field("toolId", "good"), "Allow", <<>>)
Denying == Rule("deny", TRUE, Field("pathGlob", "good") @@ Field("agentRole", "good"), "Deny", Field("reason", "good"))
Escalating == Rule("ask", TRUE, <<>>, "Escalate", Field("requiresApproval", "good"))
Policy(shape, rules) == [document |-> TRUE, shape |-> shape, rules |-> rules]
MCPolicies == {Policy(TRUE, <<Allowing, Denying, Escalating>>), Policy(TRUE, <<>>), Policy(FALSE, <<>>),
    Policy(TRUE, <<Denying, Denying>>), Policy(TRUE, <<Denying, [Allowing EXCEPT !.sound = FALSE]>>),
    Policy(TRUE, <<Denying, [Allowing EXCEPT !.predicate = Field("tool", "good")]>>),
    Policy(TRUE, <<[Denying EXCEPT !.action.fields = <<>>], Allowing>>),
    Policy(TRUE, <<[Escalating EXCEPT !.action.kind = "Ask"], Allowing>>)}

\* A default stands in only for a file that was not there, if only for a moment of the load, and
\* never for a policy the operator named; and what is loaded is everything the file says
\* (ConfigLoader.load, RoleRegistry.fromYamlOrDefault, PolicyLoader.resolve: "a policy that exists
\* is never skipped").
NothingSkipped ==
    /\ hand.took = "defaults" => hand.wasAbsent /\ ~ hand.typed
    /\ hand.took = "document" => hand.loaded = hand.doc

\* No step of the command, of a git tool or of BranchIsolator moves the user's branch, whatever
\* became of the worktree's .git link or HEAD: only the user does (WorktreeManager.ts:118-122, "MAF
\* never modifies the user's branch"). What branch the user's checkout is on changes only by
\* BranchIsolator, which no command constructs, and behind a rewritten link.
UserUntouched ==
    [][user'.moves = user.moves =>
          /\ user'.tip = user.tip
          /\ user'.head # user.head => wt.link = "rewritten" /\ (CreateBranch \/ SwitchTo)]_vars

\* A merge is offered only for a run whose plan succeeded and is attested, and the branch then
\* carries all work left in the worktree, no change of MAF's runtime state, and a commit
\* (WorktreeManager.finish).
OfferIsWhole ==
    fin = "merge" /\ Exists =>
        /\ bundle # None /\ outcome = "Succeeded"
        /\ TreeOf(branches["run"])["work"] = wt.files["work"]
        /\ ~ BringsRuntimeState(branches["run"])
        /\ Ahead(base, branches["run"]) > 0

\* A run that is refused before its worktree is in use leaves neither worktree nor branch, unless
\* git refused to take them away again (run.ts:225-241, "leaves nothing to clean up"). A `git
\* worktree add` that fails may leave the branch it made, at its base and with nothing on it
\* (WorktreeManager.ts:176-180).
RefusedLeavesNothing ==
    pc = "exited" =>
        /\ thrown \in {"prepare", "open", "policy", "lcm", "create"} => wt = None /\ branches["run"] = None
        /\ thrown = "add" => branches["run"] \in {None, base}

\* Exit 0 means that the plan succeeded, that the bundle says so, and that an isolated run's work
\* is on its branch; and a plan that ended is attested whatever its outcome, unless writing the
\* bundle failed (run.ts:385-423).
ExitTellsTruth ==
    pc = "exited" =>
        /\ thrown = None =>
              /\ bundle # None /\ bundle.body.predicate.outcome = "Succeeded"
              /\ isolated /\ Exists => TreeOf(branches["run"])["work"] = wt.files["work"]
        /\ outcome # None /\ thrown # "attest" => bundle # None /\ bundle.body.predicate.outcome = outcome

\* The database is freed only when nothing is in flight, and nothing is started on it afterwards
\* (KuzuDriver.ts:92-116).
ReleasedWhenIdle == graph = "released" => inFlight = {}

\* A child of the planner's call that was signalled, by its timer or its cap, and never closes.
ChildHangs == pc = "plan" /\ Running /\ call.by = "child" /\ call.signalled

\* Every run ends, whatever call, store or step fails on the way, and a graph that was opened is
\* closed by then and freed, by whichever query ends last; only a child that outlives its one
\* SIGTERM holds a run for ever: the planner's, here; an agent's, where DagRunner.run does not
\* return, which is RunReturns's to say (run.ts:415-419, KuzuDriver.track, ProcessSpawner.ts:88-98).
EndsReleased == <>(pc = "exited" /\ graph \in {"unopened", "released"}) \/ <>[]ChildHangs

\* `attest verify` calls a bundle valid exactly when nobody changed it since it was signed, or
\* only took it out of its statement, with the key that signed it, and every claim in it is true;
\* a 0.2.x bundle is told from the others (Attestor.examine, judge, subjectMismatch).
VerifiedIsSigned == [][bundle' # bundle =>
    \A how \in Edits \union Foreigns, key \in Keys :
        LET report == Examine(Found(bundle', how), key) IN
            /\ report.valid <=> how \in {"none", "flattened", "0.2.x"} /\ key = bundle'.signature.key
            /\ report.valid => (report.legacy <=> how = "0.2.x")]_vars

=============================================================================

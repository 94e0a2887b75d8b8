---------------------------- MODULE RunCommand ----------------------------
(* `maf run` from its first check to its exit (runTask): what can refuse the *)
(* run, the stores, the worktree, the plan, the plan's run, the attestation, *)
(* the hand-over of the worktree, and the closing of the stores.             *)
EXTENDS Worktrees, GraphHandle, ModelCall, Attestation, SettingsFiles

VARIABLES
    pc,        \* where runTask is
    isolate,   \* cfg.worktree, once it is known
    isolated,  \* the run has its worktree
    lcm,       \* LcmEngine: "unopened", "open" or "closed"
    outcome,   \* RunOutcome.status, or None
    bundle,    \* the bundle written, or None
    fin,       \* FinishResult.kind, or None
    thrown     \* what the command failed with, or None

runVars == <<pc, isolate, isolated, lcm, outcome, bundle, fin, thrown>>
vars == <<gitVars, graphVars, call, hand, runVars>>

\* None is also told from what the command fails with, from what a plan and a worktree come to,
\* and from a bundle.
ASSUME NoNameAssumption ==
    None \notin {"prepare", "open", "policy", "lcm", "create", "add", "undo", "wire", "plan", "dag", "outcome", "attest",
                 "hand-over", "merge", "Succeeded", "Failed"}
ASSUME NoBundleAssumption ==
    \A status \in {"Succeeded", "Failed"}, diffs \in [Names -> {"sha", Unset}], key \in Keys :
        Sign(RunStatement(Predicate(status, TRUE, diffs, key)), key) # None

Init ==
    /\ GitInit /\ GraphInit /\ CallInit /\ hand = NoFile
    /\ pc = "config" /\ isolate = FALSE /\ isolated = FALSE /\ lcm = "unopened"
    /\ outcome = None /\ bundle = None /\ fin = None /\ thrown = None

Goto(next) == pc' = next /\ UNCHANGED thrown
Throw(what, next) == pc' = next /\ thrown' = what

-----------------------------------------------------------------------------
(* The settings, and what they refuse.                                       *)

\* What no loader changes.
laterVars == <<gitVars, graphVars, call, isolated, lcm, outcome, bundle, fin>>

\* cfg.worktree, with what the file said; --no-worktree may be given.
Resolve(file) == \E off \in BOOLEAN : isolate' = ResolvedWorktree(off, file.loaded)

\* A read that finds no file, takes it whole, or throws.
Loads(file, gone, next, what, otherwise) ==
    IF NotFound(file) THEN hand' = file /\ Goto(gone)
    ELSE IF Reads(file) THEN hand' = Taken(file) /\ Goto(next)
    ELSE hand' = file /\ Throw(what, otherwise)

\* The look at the name after a read that found nothing.
LooksAgain(next, what, otherwise) ==
    IF MayDefault(hand) THEN hand' = Defaults(hand) /\ Goto(next) ELSE UNCHANGED hand /\ Throw(what, otherwise)

\* runTask looks for the name before it loads the file.
FindConfig == \E file \in Hands("config", FALSE) :
    /\ pc = "config"
    /\ IF NameExists(file) THEN hand' = file /\ Goto("config-read") ELSE hand' = Defaults(file) /\ Goto("resolve")
    /\ UNCHANGED <<laterVars, isolate>>

ReadConfig ==
    /\ pc = "config-read"
    /\ Loads(hand, "config-gone", "resolve", "prepare", "exited")
    /\ UNCHANGED <<laterVars, isolate>>

ConfigGone ==
    /\ pc = "config-gone"
    /\ LooksAgain("resolve", "prepare", "exited")
    /\ UNCHANGED <<laterVars, isolate>>

ResolveConfig ==
    /\ pc = "resolve"
    /\ Resolve(hand) /\ hand' = NoFile
    /\ \/ Goto("roles")
       \/ Throw("prepare", "exited")   \* the adapter is not there
    /\ UNCHANGED laterVars

\* resolveRunHarness: a stored harness's role set, or the roles file's; neither may resolve.
ReadRoles ==
    /\ pc = "roles"
    /\ \/ \E file \in Hands("roles", FALSE) : Loads(file, "roles-gone", "checks", "prepare", "exited")
       \/ \E doc \in RoleSets : IsRoleSet(doc) /\ Registers(doc) /\ ToolsAllowed(doc) /\
             hand' = [NoFile EXCEPT !.took = "harness", !.loaded = doc] /\ Goto("checks")
       \/ hand' = NoFile /\ Throw("prepare", "exited")
    /\ UNCHANGED <<laterVars, isolate>>

RolesGone ==
    /\ pc = "roles-gone"
    /\ LooksAgain("checks", "prepare", "exited")
    /\ UNCHANGED <<laterVars, isolate>>

\* The flags, the adapter and the tree. A writer on the cli tier is outside MAF's gates.
Flags == [allowUngoverned : BOOLEAN, loops : BOOLEAN, review : BOOLEAN, uncommitted : BOOLEAN]

Ungoverned(roles, loops) ==
    \E i \in DOMAIN roles.roles : IsWriterRole(roles.roles[i]) /\ EffectiveTier(roles.roles[i], loops) = "cli"

Refuses(c) ==
    \/ Ungoverned(hand.loaded, c.loops) /\ ~ c.allowUngoverned
    \/ ~ isolate /\ c.review /\ c.uncommitted
    \/ isolate /\ ~ CheckForRun

Prepare == \E c \in Flags :
    /\ pc = "checks"
    /\ IF Refuses(c) THEN Throw("prepare", "exited") ELSE Goto("open")
    /\ hand' = NoFile
    /\ UNCHANGED <<laterVars, isolate>>

-----------------------------------------------------------------------------
(* The stores, the policy and the worktree.                                  *)

Open ==
    /\ pc = "open"
    /\ \/ OpenGraph /\ Goto("policy")
       \/ Throw("open", "close") /\ UNCHANGED graphVars
    /\ UNCHANGED <<gitVars, call, hand, isolate, isolated, lcm, outcome, bundle, fin>>

\* loadCommandPolicy: resolved before the worktree is created.
LoadPolicy ==
    /\ pc = "policy"
    /\ \/ hand' = WithoutRules /\ Goto("lcm")
       \/ \E typed \in BOOLEAN : \E file \in Hands("policy", typed) : Loads(file, "policy-gone", "lcm", "policy", "close")
    /\ UNCHANGED <<laterVars, isolate>>

PolicyGone ==
    /\ pc = "policy-gone"
    /\ LooksAgain("lcm", "policy", "close")
    /\ UNCHANGED <<laterVars, isolate>>

OpenLcm ==
    /\ pc = "lcm"
    /\ \/ lcm' = "open" /\ Goto(IF isolate THEN "create" ELSE "wire")
       \/ Throw("lcm", "close") /\ UNCHANGED lcm
    /\ hand' = NoFile
    /\ UNCHANGED <<gitVars, graphVars, call, isolate, isolated, outcome, bundle, fin>>

\* createForRun: what was checked is checked again, then the base is read.
CreateForRun ==
    /\ pc = "create"
    /\ IF CheckForRun THEN Goto("base") ELSE Throw("create", "close")
    /\ UNCHANGED <<gitVars, graphVars, call, hand, isolate, isolated, lcm, outcome, bundle, fin>>

ReadBaseCommit ==
    /\ pc = "base"
    /\ (ReadBase /\ Goto("add")) \/ (Throw("create", "close") /\ UNCHANGED base)
    /\ UNCHANGED <<user, branches, wt, ignored, prefixed, others, graphVars, call, hand, isolate, isolated, lcm, outcome,
                   bundle, fin>>

\* Before git is asked, the directory of the worktrees and its .gitignore may fail.
Add ==
    /\ pc = "add"
    /\ \/ AddWorktree /\ Goto("verify")
       \/ AddFails /\ Throw("add", "close")
    /\ UNCHANGED <<user, ignored, prefixed, base, others, graphVars, call, hand, isolate, isolated, lcm, outcome, bundle, fin>>

VerifyDirectory ==
    /\ pc = "verify"
    /\ IF DirectoryMissing
       THEN /\ \E done \in BOOLEAN : UndoCreate(done) /\ Throw(IF done THEN "create" ELSE "undo", "close")
            /\ UNCHANGED isolated
       ELSE isolated' = TRUE /\ Goto("wire") /\ UNCHANGED <<wt, branches>>
    /\ UNCHANGED <<user, ignored, prefixed, base, others, graphVars, call, hand, isolate, lcm, outcome, bundle, fin>>

\* After a throw, `finally` ends the worktree first, if there is one.
Finally == IF isolated THEN "finish" ELSE "close"

\* The transcript and the prompts; then the Run node, which waits for the schema.
Wire ==
    /\ pc = "wire"
    /\ Throw("wire", Finally) \/ (SchemaReady /\ Goto("plan"))
    /\ UNCHANGED <<gitVars, graphVars, call, hand, isolate, isolated, lcm, outcome, bundle, fin>>

-----------------------------------------------------------------------------
(* Planning, the plan's run, and the attestation.                            *)

AskForPlan == \E by \in {"child", "request"} :
    /\ pc = "plan" /\ call.stage = "idle"
    /\ Start(by)
    /\ UNCHANGED <<gitVars, graphVars, hand, runVars>>

PlanCallMoves == pc = "plan" /\ CallMoves /\ UNCHANGED <<gitVars, graphVars, hand, runVars>>

\* parsePlan throws for a role nobody has; an answer without a plan becomes one node.
PlanDone ==
    /\ pc = "plan" /\ CallOver
    /\ \/ call.end = "answer" /\ Goto("dag")
       \/ Throw("plan", Finally)
    /\ call' = NoCall
    /\ UNCHANGED <<gitVars, graphVars, hand, isolate, isolated, lcm, outcome, bundle, fin>>

Agents == pc = "dag" /\ AgentActs /\ UNCHANGED <<graphVars, call, hand, runVars>>

\* A failed node's record may still be under way: the recorder's wait for it is bounded.
DagEnds == \E status \in {"Succeeded", "Failed", None} :
    /\ pc = "dag"
    /\ outcome' = status
    /\ Ask(IF status = "Failed" THEN Queries ELSE {})
    /\ IF status = None THEN Throw("dag", Finally) ELSE Goto("attest")
    /\ UNCHANGED <<gitVars, graph, inFlight, schema, call, hand, isolate, isolated, lcm, bundle, fin>>

\* A diff hash is recorded for what the gates of the run read.
DiffHashes == [n \in Names |-> IF n = "n1" /\ isolated /\ wt # None /\ wt.files # TreeOf(base) THEN "sha" ELSE Unset]

\* The policy in force is read last and the bundle is written first: a failed run is attested too.
Attest == \E secret \in {"own", None} :
    /\ pc = "attest"
    /\ \/ /\ bundle' = Sign(RunStatement(Predicate(outcome, TRUE, DiffHashes, SigningKey(secret))), SigningKey(secret))
          /\ IF outcome = "Succeeded" THEN Goto(Finally) ELSE Throw("outcome", Finally)
       \/ Throw("attest", Finally) /\ UNCHANGED bundle
    /\ UNCHANGED <<gitVars, graphVars, call, hand, isolate, isolated, lcm, outcome, fin>>

-----------------------------------------------------------------------------
(* finally                                                                   *)

Succeeded == thrown = None

\* Mutant of RefusedHandOver: a hand-over that threw is reported and passed over.
OnlyRefused(kind) == kind = "refused"

\* finishWorktree: a hand-over that was refused, or threw, fails a run that succeeded.
RefusedHandOver(kind) == kind \in {"refused", "threw"}

FinishWorktree == \E kind \in {"merge", "no-change", "refused", "threw", "failure"} :
    /\ pc = "finish"
    /\ IF Succeeded THEN FinishSuccess(kind) ELSE kind = "failure" /\ UNCHANGED <<user, branches, wt>>
    /\ fin' = kind
    /\ IF RefusedHandOver(kind) THEN Throw("hand-over", "close") ELSE Goto("close")
    /\ UNCHANGED <<ignored, prefixed, base, others, graphVars, call, hand, isolate, isolated, lcm, outcome, bundle>>

\* graph?.close() and lcm?.close()
Close ==
    /\ pc = "close"
    /\ CloseGraph
    /\ lcm' = IF lcm = "open" THEN "closed" ELSE lcm
    /\ Goto("exited")
    /\ UNCHANGED <<gitVars, inFlight, schema, asked, call, hand, isolate, isolated, outcome, bundle, fin>>

GraphWorks == GraphMoves /\ UNCHANGED <<gitVars, call, hand, runVars>>
\* (Bound: until the base is read. The run does not read the user's branch again.)
Meanwhile ==
    /\ pc \in {"checks", "open", "policy", "policy-gone", "lcm", "create", "base"} /\ UserMoves
    /\ UNCHANGED <<graphVars, call, hand, runVars>>
SomeoneEdits ==
    /\ FileChanges /\ pc \in {"config-read", "config-gone", "roles-gone", "policy-gone"}
    /\ UNCHANGED <<gitVars, graphVars, call, runVars>>
Removed == pc = "exited" /\ RemoveWorktree /\ UNCHANGED <<graphVars, call, hand, runVars>>

Command ==
    \/ FindConfig \/ ReadConfig \/ ConfigGone \/ ResolveConfig \/ ReadRoles \/ RolesGone \/ Prepare
    \/ Open \/ LoadPolicy \/ PolicyGone \/ OpenLcm \/ CreateForRun \/ ReadBaseCommit \/ Add \/ VerifyDirectory \/ Wire
    \/ AskForPlan \/ PlanDone \/ DagEnds \/ Attest \/ FinishWorktree \/ Close

Next == Command \/ PlanCallMoves \/ Agents \/ GraphWorks \/ Meanwhile \/ SomeoneEdits \/ Removed

\* The event loop runs what is ready and fires its timers; native queries answer; agents take only
\* so many turns, so that the plan's run ends. Nothing makes a child close, signalled or not.
Fairness ==
    /\ WF_vars(Command) /\ WF_vars(GraphWorks)
    /\ WF_vars(pc = "plan" /\ (TimerFires \/ Retry) /\ UNCHANGED <<gitVars, graphVars, hand, runVars>>)

Spec == Init /\ [][Next]_vars /\ Fairness
=============================================================================

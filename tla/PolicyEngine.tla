---------------------------- MODULE PolicyEngine ----------------------------
(* The verdict of the policy in force on a tool call: the rules by priority, *)
(* the first that concerns the call decides. On a file system that folds     *)
(* case a second pass matches the refusing rules without regard to case, and *)
(* the stricter of the two verdicts stands.                                  *)
EXTENDS Integers, Sequences, FiniteSets, SequencesExt

\* A rule: tools, roles, glob and allowed are sets, {} where the field is not given; so is memory, the
\* names its template has.
\* A path, and a glob's path: a file and the case it is spelt in; a path may also lead "outside".

\* loadRules: by priority, the highest first, otherwise as listed.
Before(rules, i, j) == rules[i].priority > rules[j].priority \/ (rules[i].priority = rules[j].priority /\ i < j)
Rank(rules, i) == Cardinality({j \in DOMAIN rules : j = i \/ Before(rules, j, i)})
LoadRules(rules) == [k \in DOMAIN rules |-> rules[CHOOSE i \in DOMAIN rules : Rank(rules, i) = k]]

Confined(call) == \A p \in call.paths : p.spelt # "outside"

MatchesToolId(rule, call) == rule.tools = {} \/ call.tool \in rule.tools
MatchesAgentRole(rule, call) == rule.roles = {} \/ call.role \in rule.roles

MatchesGlob(path, glob, fold) == \E g \in glob : g.file = path.file /\ (fold \/ g.spelt = path.spelt)

\* What allows is matched exactly in either pass.
MatchesPath(rule, call, folded) ==
    rule.glob = {} \/ \E p \in call.paths : MatchesGlob(p, rule.glob, folded /\ rule.action # "Allow")

\* A list of allowed paths is matched exactly: the rule bites on a path that is not on it.
MatchesAllowedPaths(rule, call) ==
    rule.allowed = {} \/ \E p \in call.paths : ~ MatchesGlob(p, rule.allowed, FALSE)

Concerns(rule, call, folded) ==
    /\ MatchesToolId(rule, call) /\ MatchesAgentRole(rule, call)
    /\ MatchesPath(rule, call, folded) /\ MatchesAllowedPaths(rule, call)

\* bindPolicyTemplate refuses any other name.
BindPolicyTemplate(names) == names \subseteq {"tool", "path", "runId", "taskId"}

\* evaluateCypher: answer is what the graph says to a pass's queries.
EvaluateCypher(rule, answer) ==
    IF rule.memory = {} THEN "match" ELSE IF BindPolicyTemplate(rule.memory) THEN answer ELSE "error"

BuildDecision(rule, answer) == IF EvaluateCypher(rule, answer) = "error" THEN "Indeterminate" ELSE rule.action

Deciding(rules, call, folded, answer) ==
    {i \in DOMAIN rules : Concerns(rules[i], call, folded) /\ EvaluateCypher(rules[i], answer) # "nomatch"}
FirstOf(places) == CHOOSE i \in places : \A j \in places : i <= j

MatchRules(rules, call, folded, answer) ==
    LET deciding == Deciding(rules, call, folded, answer)
    IN  IF deciding = {} THEN "Allow" ELSE BuildDecision(rules[FirstOf(deciding)], answer)

STRICTNESS == [Allow |-> 0, Escalate |-> 1, Indeterminate |-> 2, Deny |-> 3]
StricterOf(a, b) == IF STRICTNESS[b] > STRICTNESS[a] THEN b ELSE a

\* Mutant of Decide: one pass, which folds where the file system does.
DecideFolded(rules, call, caseInsensitive, answers) ==
    IF ~ Confined(call) THEN "Deny" ELSE MatchRules(rules, call, caseInsensitive, answers[1])

\* decide: answers has the graph's answer to each pass.
Decide(rules, call, caseInsensitive, answers) ==
    LET exact == MatchRules(rules, call, FALSE, answers[1]) IN
    IF ~ Confined(call) THEN "Deny"
    ELSE IF ~ caseInsensitive \/ exact = "Deny" THEN exact
    ELSE StricterOf(exact, MatchRules(rules, call, TRUE, answers[2]))

NoCounts == [v \in DOMAIN STRICTNESS |-> 0]
Tally(counts, verdict) == [counts EXCEPT ![verdict] = @ + 1]

SummarizeRule(rule) == [id |-> rule.id, effect |-> rule.action]

\* inForce: what is attested of the policy.
InForce(rules, counts) == [rules |-> [i \in DOMAIN rules |-> SummarizeRule(rules[i])], counts |-> counts]
=============================================================================

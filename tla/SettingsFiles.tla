--------------------------- MODULE SettingsFiles ---------------------------
(* The files a run takes its settings from: config.yaml, roles.yaml and      *)
(* policy.yaml under .maf. A loader reads the file and, when the read finds  *)
(* nothing, looks for the name; anyone may change the file between the two.  *)
(* Without the file there is a default; a file that exists is taken whole or *)
(* the run does not start. A document is what its parts are good for.        *)
EXTENDS Naturals, Sequences, FiniteSets

CONSTANTS Configs, RoleSets, Policies   \* the documents such a file may hold

\* A policy is a document with a list of rules.
ASSUME PoliciesAssumption == \A doc \in Policies :
    /\ doc = [document |-> doc.document, shape |-> doc.shape, rules |-> doc.rules]
    /\ doc.rules \in Seq({doc.rules[i] : i \in DOMAIN doc.rules})

VARIABLE hand   \* the file in the loader's hand, and what was taken of it

NoDoc == [document |-> FALSE]
Documents(name) == CASE name = "config" -> Configs [] name = "roles" -> RoleSets [] name = "policy" -> Policies

\* "dangling" is a link to nothing; "garbled" is no YAML, or YAML with a merge key or too many aliases.
FileStates == {"absent", "dangling", "unreadable", "garbled", "text"}
Holds(state, name) == IF state = "text" THEN Documents(name) ELSE {NoDoc}

NoFile == [name |-> "none", state |-> "absent", doc |-> NoDoc, wasAbsent |-> FALSE, changed |-> FALSE, typed |-> FALSE,
           took |-> "undecided", loaded |-> NoDoc]

\* What a loader may find as it begins. typed: the operator gave the file's path.
File(name, typed, state, doc) ==
    [NoFile EXCEPT !.name = name, !.typed = typed, !.state = state, !.doc = doc, !.wasAbsent = (state = "absent")]
Hands(name, typed) == UNION {{File(name, typed, state, doc) : doc \in Holds(state, name)} : state \in FileStates}

\* (Bound: one change of each file.)
FileChanges ==
    /\ hand.name # "none" /\ hand.took = "undecided" /\ ~ hand.changed
    /\ \E state \in FileStates : \E doc \in Holds(state, hand.name) :
          hand' = [hand EXCEPT !.state = state, !.doc = doc, !.changed = TRUE, !.wasAbsent = (@ \/ state = "absent")]

NotFound(file) == file.state \in {"absent", "dangling"}

\* Mutant of NameExists: the name is followed.
NameResolves(file) == ~ NotFound(file)

\* lstat: the name itself.
NameExists(file) == file.state # "absent"

-----------------------------------------------------------------------------
(* config.yaml                                                               *)

\* readConfig, section: no key that is not known, no value that is not usable.
ConfigProblems(doc) == ~ doc.mapping \/ doc.worktree = "bad" \/ doc.rest \in {"unknown", "bad"}

\* ConfigLoader.load, once the text is there.
ConfigReads(file) == file.state = "text" /\ ~ ConfigProblems(file.doc)

\* resolveConfig for `worktree`: the command line, then the file, then the default. (There is a
\* flag to turn it off only.)
ResolvedWorktree(flagOff, doc) == ~ flagOff /\ (doc = NoDoc \/ doc.worktree # "off")

-----------------------------------------------------------------------------
(* roles.yaml                                                                *)

WriteTools == {"writes"}
KnownTools == {"reads"} \union WriteTools
IsWriterRole(r) == r.tools \intersect WriteTools # {}

\* expectsToolCalls, requestedTier, effectiveTier
RequestedTier(r) == IF r.execution # "unset" THEN r.execution ELSE IF IsWriterRole(r) THEN "in-process" ELSE "cli"
EffectiveTier(r, loops) == IF RequestedTier(r) = "in-process" /\ loops THEN "in-process" ELSE "cli"

Role(name, tools, execution, change) ==
    [role |-> name, tools |-> tools, execution |-> execution, prompt |-> "file", expectsChange |-> change,
     expectsToolCalls |-> "unset"]

\* DEFAULT_ROLE_SET: a coder that is to change the tree, a tester, and three in-process readers.
BuiltInRoles ==
    [shape |-> TRUE, default |-> "coder",
     roles |-> <<Role("coder", {"reads", "writes"}, "unset", "yes"), Role("tester", {"reads", "writes"}, "unset", "unset"),
                 Role("security", {"reads"}, "in-process", "unset"), Role("reviewer", {"reads"}, "in-process", "unset"),
                 Role("analyst", {"reads"}, "in-process", "unset")>>]

AllRoles(doc, Fit(_)) == \A i \in DOMAIN doc.roles : Fit(doc.roles[i])

\* isRoleSet: the shape, and each role's execution and expectations.
IsRoleSet(doc) ==
    /\ doc.shape
    /\ AllRoles(doc, LAMBDA r : /\ r.execution \in {"unset", "cli", "in-process"}
                                /\ {r.expectsChange, r.expectsToolCalls} \subseteq {"unset", "yes", "no"})

ParsesAsRoles(doc) == IsRoleSet(doc) /\ AllRoles(doc, LAMBDA r : r.prompt # "empty")

ToolsAllowed(doc) == AllRoles(doc, LAMBDA r : r.tools \subseteq KnownTools)

\* The constructor of RoleRegistry: names are unique, expectations can be met, the default is there.
Registers(doc) ==
    LET names == {doc.roles[i].role : i \in DOMAIN doc.roles} IN
    /\ Cardinality(names) = Len(doc.roles) /\ doc.default \in names
    /\ AllRoles(doc, LAMBDA r :
          /\ r.expectsChange = "yes" => IsWriterRole(r)
          /\ r.expectsToolCalls = "yes" => r.tools # {}
          /\ r.expectsChange = "yes" => r.expectsToolCalls = "unset")

RolesRead(file) == file.state = "text" /\ ParsesAsRoles(file.doc) /\ ToolsAllowed(file.doc) /\ Registers(file.doc)

-----------------------------------------------------------------------------
(* policy.yaml                                                               *)

PredicateFields == {"toolId", "pathGlob", "allowedPathGlobs", "agentRole", "memoryPattern", "minFailureCount"}
ActionFields(kind) ==
    CASE kind = "Allow" -> {} [] kind = "Deny" -> {"reason", "alternative"} [] kind = "Escalate" -> {"requiresApproval"}
      [] OTHER -> {}

\* A mapping's fields, each "good" or "bad"; a field that is not known is an error.
FieldsRead(fields, known) == \A f \in DOMAIN fields : f \in known /\ fields[f] = "good"

ReadPredicate(predicate) == FieldsRead(predicate, PredicateFields)

ReadAction(action) ==
    /\ action.kind \in {"Allow", "Deny", "Escalate"}
    /\ FieldsRead(action.fields, ActionFields(action.kind))
    /\ action.kind = "Deny" => "reason" \in DOMAIN action.fields
    /\ action.kind = "Escalate" => "requiresApproval" \in DOMAIN action.fields

\* readRule: an id, a finite priority, and nothing else besides.
ReadRule(rule) == rule.sound /\ ReadPredicate(rule.predicate) /\ ReadAction(rule.action)

\* readRules: each rule reads, and no id is used twice.
UsedBefore(rules, i) == \E j \in 1..(i - 1) : rules[j].id = rules[i].id
ReadRules(rules) ==
    LET read == {i \in DOMAIN rules : ReadRule(rules[i])}
        place(k) == CHOOSE i \in read : Cardinality({j \in read : j <= i}) = k
    IN  [k \in 1 .. Cardinality(read) |-> rules[place(k)]]
RuleErrors(rules) == \E i \in DOMAIN rules : ~ ReadRule(rules[i]) \/ UsedBefore(rules, i)

\* readDocument, parsePolicy: one error and none of the rules is loaded.
PolicyReads(file) == file.state = "text" /\ file.doc.shape /\ ~ RuleErrors(file.doc.rules)

-----------------------------------------------------------------------------
(* The loaders: what a file in the hand comes to.                            *)

Reads(file) ==
    CASE file.name = "config" -> ConfigReads(file) [] file.name = "roles" -> RolesRead(file)
      [] file.name = "policy" -> PolicyReads(file)
LoadedFrom(file) == IF file.name = "policy" THEN [file.doc EXCEPT !.rules = ReadRules(@)] ELSE file.doc

Taken(file) == [file EXCEPT !.took = "document", !.loaded = LoadedFrom(file)]
Defaults(file) == [file EXCEPT !.took = "defaults", !.loaded = IF file.name = "roles" THEN BuiltInRoles ELSE NoDoc]

\* PolicyLoader.resolve: a path the operator gave is not replaced by the built-in policy.
MayDefault(file) == ~ NameExists(file) /\ ~ (file.name = "policy" /\ file.typed)

\* `--policy none`
WithoutRules == [NoFile EXCEPT !.name = "policy", !.typed = TRUE, !.took = "none"]
=============================================================================

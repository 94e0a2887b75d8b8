------------------------------ MODULE Evolver ------------------------------
(***************************************************************************)
(* The evolution loop, evolver/src/loop.ts, with its edits, its gate and   *)
(* the comparison of two golden results.  A round digests the evidence,    *)
(* asks a planner for one edit of the harness and a critic about it, tries *)
(* the edited harness on one task and on the corpus, and ships it if the   *)
(* gate says so; the next round starts from what was shipped.              *)
(*                                                                         *)
(* Of a harness the model keeps what the gate and the properties look at:  *)
(* the number of the round that made it (0 for the first), each role's     *)
(* tools and prompt, its processors and its review requirement.  Models,   *)
(* budgets and recall are left out, and the edits of them change nothing   *)
(* here.  A golden result is the set of tasks solved; two measurements of  *)
(* one harness may differ.                                                 *)
(***************************************************************************)
EXTENDS Integers, Sequences, FiniteSets

CONSTANTS
  Roles, Sensitive,        \* the roles of the harness; safetyAdjacentRoles
  Tools, KnownTools, KnownProcessors, KnownModels,
  Prompts, Screened,       \* texts of prompts; those screenInstructionText accepts
  Tasks, JudgeOnly,        \* the corpus; its tasks with none but llm-judge verifiers
  Rows,                    \* results of the first harness the memory graph may hold
  Firsts,                  \* harnesses to start from
  Manifests,               \* what a planner may propose
  MaxRounds, Patience,
  None                     \* no row, no manifest, no scores, no target

Edit ==
  [kind : {"prompt"}, role : STRING, text : Prompts]
    \cup [kind : {"tools"}, role : STRING, add : SUBSET Tools, remove : SUBSET Tools]
    \cup [kind : {"model"}, role : STRING, model : STRING]
    \cup [kind : {"budgets"}, role : STRING]
    \cup [kind : {"processor"}, name : STRING]
    \cup [kind : {"recall"}]
Harness == [id : Nat, tools : [Roles -> SUBSET Tools], prompt : [Roles -> Prompts],
            processors : SUBSET STRING, review : BOOLEAN]

ASSUME RolesAssumption == Sensitive \subseteq Roles /\ Roles \subseteq STRING
ASSUME FirstsAssumption == \A h \in Firsts : h \in Harness /\ h.id = 0
ASSUME ManifestsAssumption ==
  \A m \in Manifests : DOMAIN m = {"edit", "target"} /\ m.edit \in Edit
ASSUME RowsAssumption == None \notin Rows /\ \A s \in SUBSET Tasks : s # None
ASSUME BoundsAssumption == MaxRounds \in Nat \ {0} /\ Patience \in Nat \ {0}

VARIABLES
  approve,    \* approveSensitive
  at,         \* the await at which the loop stands
  round,
  base,       \* the harness this round starts from
  baseline,   \* what it solved, None before that is known
  manifest,   \* this round's manifest
  revised,    \* the critic's one revision has been used
  scores,     \* what the candidate solved
  outcome,    \* how the round ended
  idle, ships, rounds, stop,
  current,    \* CURRENT of the store
  first,      \* history: the harness evolve began with
  proven,     \* history: every task that a base was measured to solve
  passed      \* history: the edits that the critic let pass, smoke ran and the corpus measured

vars == <<approve, at, round, base, baseline, manifest, revised, scores, outcome, idle,
          ships, rounds, stop, current, first, proven, passed>>

Outcomes == {"ship", "reject", "no-op", "needs-approval", "planner-error", "smoke-failed",
             "critic-reject"}
Stages == {"digest", "baseline", "plan", "critic", "revise", "smoke", "goldens", "ship",
           "record", "returned", "failed"}

(***************************************************************************)
(* Edits and the gate                                                      *)
(***************************************************************************)

NamesRole(e) == e.kind \in {"prompt", "tools", "model", "budgets"}
TargetsSensitive(e) == NamesRole(e) /\ e.role \in Sensitive

\* applyEdit throws on a role the harness does not have.
Applies(e) == NamesRole(e) => e.role \in Roles
Apply(h, e, id) ==
  CASE e.kind = "prompt" -> [h EXCEPT !.id = id, !.prompt[e.role] = e.text]
    [] e.kind = "tools" -> [h EXCEPT !.id = id, !.tools[e.role] = (@ \ e.remove) \cup e.add]
    [] e.kind = "processor" -> [h EXCEPT !.id = id, !.processors = @ \cup {e.name}]
    [] OTHER -> [h EXCEPT !.id = id]

\* Stage b: the candidate's tools are known, none of its roles has lost all of them, its
\* processors and the model asked for are known.
Sound(e, candidate, parent) ==
  /\ \A r \in Roles : /\ candidate.tools[r] \subseteq KnownTools
                      /\ candidate.tools[r] = {} => parent.tools[r] = {}
  /\ candidate.processors \subseteq KnownProcessors
  /\ e.kind = "model" /\ KnownModels # {} => e.model \in KnownModels

\* Mutant of Seesaw: what counts is how many are solved.
SeesawByCount(before, after) ==
  IF Cardinality(after) < Cardinality(before) THEN "reject"
  ELSE IF Cardinality(after) = Cardinality(before) THEN "no-change" ELSE "ship"

\* seesawDecision.
Seesaw(before, after) ==
  IF ~(before \subseteq after) THEN "reject" ELSE IF after = before THEN "no-change" ELSE "ship"

\* gateEvaluate: the first stage that objects decides.
Gate(e, candidate, parent, before, after) ==
  IF ~Sound(e, candidate, parent) THEN "reject"
  ELSE IF e.kind = "prompt" /\ e.text \notin Screened THEN "reject"
  ELSE IF TargetsSensitive(e) THEN "needs-approval"
  ELSE IF Seesaw(before, after) # "ship" THEN "reject"
  ELSE IF after \ before \subseteq JudgeOnly THEN "needs-approval" ELSE "ship"

(***************************************************************************)
(* The loop                                                                *)
(***************************************************************************)

Unscored == [critic |-> None, smoke |-> None, goldens |-> None]
Init ==
  /\ approve \in BOOLEAN
  /\ base \in Firsts /\ first = base /\ current = base
  /\ at = "digest" /\ round = 0 /\ idle = 0 /\ ships = 0 /\ rounds = <<>>
  /\ baseline = None /\ manifest = None /\ revised = FALSE /\ scores = None
  /\ outcome = None /\ stop = "budget"
  /\ proven = {} /\ passed = Unscored

Candidate == Apply(base, manifest.edit, round + 1)

Goes(stage) == /\ at' = stage
               /\ UNCHANGED <<approve, round, base, idle, ships, rounds, stop, current, first>>

\* What is thrown outside the two try blocks ends the evolution.
Throws(stage) ==
  /\ at = stage
  /\ Goes("failed")
  /\ UNCHANGED <<baseline, manifest, revised, scores, outcome, proven, passed>>

\* A round that ships nothing.
Ends(o) ==
  /\ at' = "record" /\ outcome' = o /\ idle' = idle + 1
  /\ UNCHANGED <<approve, round, base, baseline, scores, ships, rounds, stop, current, first, proven>>

\* digestEvidence; in the first round the graph may know what the base solved.
Digest ==
  /\ at = "digest"
  /\ \E row \in {None} \cup (IF round = 0 THEN Rows ELSE {}) :
       /\ baseline' = IF round = 0 THEN row ELSE baseline
       /\ proven' = IF row = None THEN proven ELSE row
       /\ Goes(IF baseline' = None THEN "baseline" ELSE "plan")
  /\ UNCHANGED <<manifest, revised, scores, outcome, passed>>

Baseline ==
  /\ at = "baseline"
  /\ \E s \in SUBSET Tasks : baseline' = s /\ proven' = s
  /\ Goes("plan")
  /\ UNCHANGED <<manifest, revised, scores, outcome, passed>>

\* The planner proposes; an edit of a sensitive role that nobody approved is archived.
Plan ==
  /\ at = "plan"
  /\ \/ \E m \in Manifests :
          /\ manifest' = m
          /\ IF TargetsSensitive(m.edit) /\ ~approve
             THEN Ends("needs-approval")
             ELSE Goes("critic") /\ UNCHANGED <<baseline, scores, outcome, proven>>
     \/ Ends("no-op") /\ UNCHANGED manifest
     \/ Ends("planner-error") /\ UNCHANGED manifest
  /\ UNCHANGED <<revised, passed>>

\* Mutant of Critic: a manifest revised once is taken without asking again.
CriticOnce ==
  /\ at = "critic"
  /\ \/ /\ ~revised
        /\ Ends("critic-reject") /\ UNCHANGED passed
     \/ /\ Goes("smoke")
        /\ passed' = IF revised THEN passed ELSE [passed EXCEPT !.critic = manifest.edit]
        /\ UNCHANGED <<baseline, scores, outcome, proven>>
     \/ /\ ~revised
        /\ Goes("revise") /\ UNCHANGED <<baseline, scores, outcome, proven, passed>>
  /\ UNCHANGED <<manifest, revised>>

\* The critic rejects, passes, or asks for a revision, which it is granted once: asked of a
\* revised manifest it lets it pass.  What cannot be parsed rejects.
Critic ==
  /\ at = "critic"
  /\ \/ Ends("critic-reject") /\ UNCHANGED passed
     \/ /\ Goes("smoke")
        /\ passed' = [passed EXCEPT !.critic = manifest.edit]
        /\ UNCHANGED <<baseline, scores, outcome, proven>>
     \/ /\ ~revised
        /\ Goes("revise") /\ UNCHANGED <<baseline, scores, outcome, proven, passed>>
  /\ UNCHANGED <<manifest, revised>>

\* The planner revises; a refusal to, or one that does not parse, is the critic's rejection.
Revise ==
  /\ at = "revise"
  /\ \/ /\ manifest' \in Manifests /\ revised' = TRUE
        /\ Goes("critic") /\ UNCHANGED <<baseline, scores, outcome, proven>>
     \/ Ends("critic-reject") /\ UNCHANGED <<manifest, revised>>
  /\ UNCHANGED passed

\* The edit is applied, and tried on the first task it targets.
Smoke ==
  /\ at = "smoke" /\ Applies(manifest.edit)
  /\ \/ /\ manifest.target \in Tasks \cup {None}
        /\ Goes("goldens")
        /\ passed' = [passed EXCEPT !.smoke = manifest.edit]
        /\ UNCHANGED <<baseline, scores, outcome, proven>>
     \/ manifest.target # None /\ Ends("smoke-failed") /\ UNCHANGED passed
  /\ UNCHANGED <<manifest, revised>>
NoSuchRole == at = "smoke" /\ ~Applies(manifest.edit) /\ Throws("smoke")

\* Rounds without a ship are counted, anew after each ship.
Counts(verdict) ==
  IF verdict = "ship" THEN idle' = 0 /\ ships' = ships + 1
  ELSE idle' = idle + 1 /\ UNCHANGED ships

\* The corpus is run under the candidate, and the gate decides.
Goldens ==
  /\ at = "goldens"
  /\ passed' = [passed EXCEPT !.goldens = manifest.edit]
  /\ \E s \in SUBSET Tasks :
       LET verdict == Gate(manifest.edit, Candidate, base, baseline, s) IN
       /\ scores' = s
       /\ Counts(verdict)
       /\ IF verdict = "ship" THEN at' = "ship" /\ UNCHANGED outcome
          ELSE at' = "record" /\ outcome' = verdict
  /\ UNCHANGED <<approve, round, base, baseline, manifest, revised, rounds, stop, current,
                 first, proven>>

\* onShip saves the candidate and points CURRENT at it.
Ship ==
  /\ at = "ship"
  /\ at' = "record" /\ outcome' = "ship" /\ current' = Candidate
  /\ UNCHANGED <<approve, round, base, baseline, manifest, revised, scores, idle, ships,
                 rounds, stop, first, proven, passed>>

PatienceGone == outcome # "ship" /\ idle >= Patience

\* The round is on record, whether or not the graph took it, and the loop goes on from what
\* was shipped, unless it has been patient enough or has had all its rounds.
Record ==
  LET shipped == outcome = "ship"
      over == PatienceGone \/ round + 1 = MaxRounds
  IN
  /\ at = "record"
  /\ rounds' = Append(rounds, outcome)
  /\ base' = IF shipped THEN Candidate ELSE base
  /\ baseline' = IF shipped THEN scores ELSE baseline
  /\ proven' = IF shipped THEN proven \cup scores ELSE proven
  /\ stop' = IF PatienceGone THEN "patience" ELSE stop
  /\ at' = IF over THEN "returned" ELSE "digest"
  /\ round' = IF over THEN round ELSE round + 1
  /\ manifest' = None /\ revised' = FALSE /\ scores' = None /\ outcome' = None
  /\ passed' = Unscored
  /\ UNCHANGED <<approve, idle, ships, current, first>>

Fails == \E s \in {"digest", "baseline", "plan", "critic", "revise", "goldens", "ship"} : Throws(s)

Next == \/ Digest \/ Baseline \/ Plan \/ Critic \/ Revise \/ Smoke \/ NoSuchRole
        \/ Goldens \/ Ship \/ Record \/ Fails

Spec == Init /\ [][Next]_vars

TypeOK ==
  /\ approve \in BOOLEAN /\ revised \in BOOLEAN
  /\ at \in Stages
  /\ round \in 0 .. MaxRounds - 1
  /\ base \in Harness /\ current \in Harness /\ first \in Firsts
  /\ baseline \in {None} \cup Rows \cup SUBSET Tasks
  /\ scores \in {None} \cup SUBSET Tasks
  /\ manifest \in {None} \cup Manifests
  /\ outcome \in {None} \cup Outcomes
  /\ idle \in 0 .. Patience
  /\ ships \in 0 .. MaxRounds
  /\ rounds \in Seq(Outcomes) /\ Len(rounds) <= MaxRounds
  /\ stop \in {"budget", "patience"}
  /\ passed \in [critic : {None} \cup Edit, smoke : {None} \cup Edit, goldens : {None} \cup Edit]

(***************************************************************************)
(* Properties                                                              *)
(***************************************************************************)

\* What any base of this evolution was measured to solve, the present base was measured to
\* solve too: rounds that build on each other's ships never trade one task for another
\* (seesawDecision, and the baseline that moves with the base, loop.ts:238).
NothingUnsolved == baseline # None => proven \subseteq baseline

\* What is shipped is what was looked at: the critic let this very edit pass, after its
\* revision, the smoke test ran on it if it targets a task, and these scores are its own.
ShippedAsExamined ==
  at = "ship" =>
    /\ passed.critic = manifest.edit
    /\ passed.smoke = manifest.edit
    /\ passed.goldens = manifest.edit

\* Through any number of ships the harness keeps its review requirement and every
\* safety-adjacent role as it began with, no role loses all of its tools, and no tool,
\* processor or prompt comes in that is not known or screened, approveSensitive or not.
SurfaceHeld ==
  /\ current.review = first.review
  /\ \A r \in Roles :
       /\ r \in Sensitive => current.tools[r] = first.tools[r] /\ current.prompt[r] = first.prompt[r]
       /\ current.tools[r] = {} => first.tools[r] = {}
       /\ current.tools[r] \subseteq first.tools[r] \cup KnownTools
       /\ current.prompt[r] \in {first.prompt[r]} \cup Screened
  /\ current.processors \subseteq first.processors \cup KnownProcessors

\* The report is true: ships is how many rounds shipped, CURRENT is the harness it names,
\* and it stopped for want of patience exactly when that many rounds in a row shipped
\* nothing, else after all its rounds.
Shipless(n) == \A i \in Len(rounds) - n + 1 .. Len(rounds) : rounds[i] # "ship"
ReportTrue == at = "returned" =>
  /\ ships = Cardinality({i \in DOMAIN rounds : rounds[i] = "ship"})
  /\ current = base /\ (ships > 0 <=> base # first)
  /\ idle <= Len(rounds) /\ Shipless(idle)
  /\ idle < Len(rounds) => rounds[Len(rounds) - idle] = "ship"
  /\ IF stop = "patience" THEN idle = Patience ELSE Len(rounds) = MaxRounds

\* What EvolveOptions says of approveSensitive (loop.ts:45): without it, no edit of a
\* safety-adjacent role is evaluated.
UnapprovedNotEvaluated ==
  at \in {"smoke", "goldens"} => approve \/ ~TargetsSensitive(manifest.edit)
=============================================================================

-------------------------- MODULE Evolver_proofs --------------------------
(***************************************************************************)
(* Theorems about Evolver, for any harness, edits, corpus, gate parameters *)
(* and number of rounds, and any answers of planner, critic and corpus.    *)
(***************************************************************************)
EXTENDS Evolver, GoldenRun, FiniteSetTheorems, SequenceTheorems, TLAPS

USE RolesAssumption, FirstsAssumption, ManifestsAssumption, RowsAssumption, BoundsAssumption

\* An edit is one of six kinds, and has what its kind has.
LEMMA EditKinds ==
  ASSUME NEW e \in Edit
  PROVE /\ e.kind = "prompt" => e.text \in Prompts
        /\ e.kind = "tools" => e.add \subseteq Tools /\ e.remove \subseteq Tools
        /\ e.kind = "processor" => e.name \in STRING
  BY DEF Edit

\* A child is a harness, of its round, with its parent's review requirement.
LEMMA ChildOfParent ==
  ASSUME NEW h \in Harness, NEW e \in Edit, NEW id \in Nat
  PROVE /\ Apply(h, e, id) \in Harness
        /\ Apply(h, e, id).id = id /\ Apply(h, e, id).review = h.review
<1>1. CASE e.kind = "prompt"
    BY <1>1, EditKinds DEF Apply, Harness
<1>2. CASE e.kind = "tools"
    BY <1>2, EditKinds DEF Apply, Harness
<1>3. CASE e.kind = "processor"
    BY <1>3, EditKinds DEF Apply, Harness
<1>4. CASE e.kind \notin {"prompt", "tools", "processor"}
    BY <1>4 DEF Apply, Harness
<1> QED
    BY <1>1, <1>2, <1>3, <1>4

\* What a shipped child has of its parent.
Inherits(child, parent) ==
  /\ child.review = parent.review
  /\ \A r \in Roles : /\ r \in Sensitive => child.tools[r] = parent.tools[r] /\ child.prompt[r] = parent.prompt[r]
                      /\ child.tools[r] = {} => parent.tools[r] = {}
                      /\ child.tools[r] \subseteq KnownTools
                      /\ child.prompt[r] \in {parent.prompt[r]} \cup Screened
  /\ child.processors \subseteq KnownProcessors

\* The gate, when it says ship.
LEMMA GateShips ==
  ASSUME NEW e \in Edit, NEW h \in Harness, NEW id \in Nat, NEW before, NEW after,
         Gate(e, Apply(h, e, id), h, before, after) = "ship"
  PROVE before \subseteq after /\ Inherits(Apply(h, e, id), h)
<1> DEFINE child == Apply(h, e, id)
<1>1. /\ Sound(e, child, h)
      /\ e.kind = "prompt" => e.text \in Screened
      /\ ~TargetsSensitive(e)
      /\ Seesaw(before, after) = "ship"
    BY DEF Gate
<1>2. before \subseteq after
    BY <1>1 DEF Seesaw
<1>3. child.review = h.review
    BY ChildOfParent
<1>4. child.processors \subseteq KnownProcessors
    BY <1>1 DEF Sound
<1>5. ASSUME NEW r \in Roles
      PROVE /\ r \in Sensitive => child.tools[r] = h.tools[r] /\ child.prompt[r] = h.prompt[r]
            /\ child.prompt[r] \in {h.prompt[r]} \cup Screened
  <2>1. CASE e.kind = "prompt"
      BY <1>1, <2>1 DEF Apply, Harness, TargetsSensitive, NamesRole
  <2>2. CASE e.kind = "tools"
      BY <1>1, <2>2 DEF Apply, Harness, TargetsSensitive, NamesRole
  <2>3. CASE e.kind \notin {"prompt", "tools"}
      BY <2>3 DEF Apply, Harness
  <2> QED
      BY <2>1, <2>2, <2>3
<1>6. \A r \in Roles : child.tools[r] \subseteq KnownTools /\ (child.tools[r] = {} => h.tools[r] = {})
    BY <1>1 DEF Sound
<1> QED
    BY <1>2, <1>3, <1>4, <1>5, <1>6 DEF Inherits

-----------------------------------------------------------------------------
WithManifest == {"critic", "revise", "smoke", "goldens", "ship"}
Shipping == at = "ship" \/ (at = "record" /\ outcome = "ship")

\* What a round has by the await it stands at.
RoundOK ==
  /\ at \in WithManifest => manifest \in Manifests
  /\ at \in {"plan", "record"} \cup WithManifest => baseline # None
  /\ Shipping => /\ manifest \in Manifests /\ scores \in SUBSET Tasks /\ baseline # None
                 /\ Gate(manifest.edit, Candidate, base, baseline, scores) = "ship"
  /\ at = "record" => outcome \in Outcomes

\* Where the counters stand.
CountersOK ==
  /\ Len(rounds) = IF at = "returned" THEN round + 1 ELSE round
  /\ at \notin {"record", "returned"} \/ Shipping => idle < Patience
  /\ ships <= round + 1
  /\ at \notin {"returned", "failed"} /\ ~Shipping => ships <= round

IInv == TypeOK /\ RoundOK /\ CountersOK

LEMMA CandidateOK ==
  ASSUME TypeOK, manifest \in Manifests
  PROVE Candidate \in Harness /\ Candidate.id = round + 1
<1>1. manifest.edit \in Edit /\ base \in Harness /\ round + 1 \in Nat
    BY DEF TypeOK
<1> QED
    BY <1>1, ChildOfParent DEF Candidate

LEMMA GateAnswers ==
  ASSUME NEW e, NEW c, NEW p, NEW before, NEW after
  PROVE Gate(e, c, p, before, after) \in {"ship", "reject", "needs-approval"}
  BY DEF Gate

LEMMA InitOK == Init => IInv
<1> SUFFICES ASSUME Init PROVE IInv
    OBVIOUS
<1>1. TypeOK
  <2>1. base \in Harness /\ rounds \in Seq(Outcomes) /\ Len(rounds) = 0
      BY DEF Init
  <2>2. 0 \in 0 .. MaxRounds - 1 /\ 0 \in 0 .. MaxRounds /\ 0 \in 0 .. Patience /\ 0 <= MaxRounds
      OBVIOUS
  <2>3. Unscored \in [critic : {None} \cup Edit, smoke : {None} \cup Edit, goldens : {None} \cup Edit]
      BY DEF Unscored
  <2> QED
      BY <2>1, <2>2, <2>3 DEF Init, TypeOK, Stages
<1> QED
    BY <1>1 DEF Init, IInv, RoundOK, CountersOK, Shipping, WithManifest

LEMMA Step == IInv /\ [Next]_vars => IInv'
<1> SUFFICES ASSUME IInv, [Next]_vars PROVE IInv'
    OBVIOUS
<1> USE DEF IInv
<1>1. CASE UNCHANGED vars
    BY <1>1 DEF vars, TypeOK, RoundOK, CountersOK, Shipping, WithManifest, Candidate
<1>2. ASSUME NEW o \in Outcomes \ {"ship"}, Ends(o), at \in {"plan"} \cup WithManifest, at # "ship",
             manifest' \in {None} \cup Manifests, revised' \in BOOLEAN,
             passed' \in [critic : {None} \cup Edit, smoke : {None} \cup Edit, goldens : {None} \cup Edit]
      PROVE IInv'
  <2>1. TypeOK'
      BY <1>2 DEF TypeOK, Ends, Stages, CountersOK, WithManifest
  <2>2. RoundOK'
      BY <1>2 DEF RoundOK, Ends, Shipping, WithManifest
  <2>3. CountersOK'
      BY <1>2 DEF CountersOK, Ends, Shipping, WithManifest
  <2> QED
      BY <2>1, <2>2, <2>3
<1>3. ASSUME NEW stage \in Stages \ {"record", "returned", "ship"}, Goes(stage),
             at \in Stages \ {"record", "returned", "ship", "failed"},
             TypeOK', stage \in WithManifest => manifest' \in Manifests,
             stage \in {"plan"} \cup WithManifest => baseline' # None
      PROVE IInv'
    BY <1>3 DEF Goes, RoundOK, CountersOK, Shipping, WithManifest
<1>4. CASE Digest
  <2>1. TypeOK'
      BY <1>4 DEF Digest, Goes, TypeOK, Stages
  <2>2. at = "digest" /\ Goes(IF baseline' = None THEN "baseline" ELSE "plan")
      BY <1>4 DEF Digest
  <2> QED
      BY <2>1, <2>2, <1>3 DEF Stages, WithManifest
<1>5. CASE Baseline
  <2>1. TypeOK' /\ baseline' # None
      BY <1>5 DEF Baseline, Goes, TypeOK, Stages
  <2> QED
      BY <2>1, <1>3, <1>5 DEF Baseline, Stages, WithManifest
<1>6. CASE Plan
  <2>1. ASSUME NEW m \in Manifests, manifest' = m, Goes("critic"),
               UNCHANGED <<baseline, scores, outcome, proven>>
        PROVE IInv'
    <3>1. TypeOK'
        BY <1>6, <2>1 DEF Plan, Goes, TypeOK, Stages
    <3>2. baseline' # None /\ at = "plan"
        BY <1>6, <2>1 DEF Plan, RoundOK
    <3> QED
        BY <2>1, <3>1, <3>2, <1>3 DEF Stages
  <2>2. ASSUME NEW o \in {"needs-approval", "no-op", "planner-error"}, Ends(o),
               manifest' \in {None} \cup Manifests
        PROVE IInv'
      BY <1>2, <1>6, <2>2 DEF Plan, Outcomes, TypeOK
  <2> QED
      BY <1>6, <2>1, <2>2 DEF Plan, TypeOK
<1>7. CASE Critic
  <2>0. at = "critic" /\ manifest \in Manifests /\ manifest.edit \in Edit /\ baseline # None
        /\ UNCHANGED <<manifest, revised>>
      BY <1>7 DEF Critic, RoundOK, WithManifest
  <2>1. CASE Ends("critic-reject") /\ UNCHANGED passed
      BY <2>0, <2>1, <1>2 DEF Outcomes, TypeOK, WithManifest
  <2>2. CASE Goes("smoke") /\ passed' = [passed EXCEPT !.critic = manifest.edit]
             /\ UNCHANGED <<baseline, scores, outcome, proven>>
    <3>1. TypeOK'
        BY <2>0, <2>2 DEF Goes, TypeOK, Stages
    <3> QED
        BY <2>0, <2>2, <3>1, <1>3 DEF Stages
  <2>3. CASE Goes("revise") /\ UNCHANGED <<baseline, scores, outcome, proven, passed>>
    <3>1. TypeOK'
        BY <2>0, <2>3 DEF Goes, TypeOK, Stages
    <3> QED
        BY <2>0, <2>3, <3>1, <1>3 DEF Stages
  <2> QED
      BY <1>7, <2>1, <2>2, <2>3 DEF Critic
<1>8. CASE Revise
  <2>0. at = "revise" /\ baseline # None /\ UNCHANGED passed
      BY <1>8 DEF Revise, RoundOK, WithManifest
  <2>1. CASE /\ manifest' \in Manifests /\ revised' = TRUE /\ Goes("critic")
             /\ UNCHANGED <<baseline, scores, outcome, proven>>
    <3>1. TypeOK'
        BY <2>0, <2>1 DEF Goes, TypeOK, Stages
    <3> QED
        BY <2>0, <2>1, <3>1, <1>3 DEF Stages
  <2>2. CASE Ends("critic-reject") /\ UNCHANGED <<manifest, revised>>
      BY <2>0, <2>2, <1>2 DEF Outcomes, TypeOK, WithManifest
  <2> QED
      BY <1>8, <2>1, <2>2 DEF Revise
<1>9. CASE Smoke
  <2>0. at = "smoke" /\ manifest \in Manifests /\ manifest.edit \in Edit /\ baseline # None
        /\ UNCHANGED <<manifest, revised>>
      BY <1>9 DEF Smoke, RoundOK, WithManifest
  <2>1. CASE Goes("goldens") /\ passed' = [passed EXCEPT !.smoke = manifest.edit]
             /\ UNCHANGED <<baseline, scores, outcome, proven>>
    <3>1. TypeOK'
        BY <2>0, <2>1 DEF Goes, TypeOK, Stages
    <3> QED
        BY <2>0, <2>1, <3>1, <1>3 DEF Stages
  <2>2. CASE Ends("smoke-failed") /\ UNCHANGED passed
      BY <2>0, <2>2, <1>2 DEF Outcomes, TypeOK, WithManifest
  <2> QED
      BY <1>9, <2>1, <2>2 DEF Smoke
<1>10. CASE NoSuchRole \/ Fails
  <2>1. /\ Goes("failed") /\ at \in Stages \ {"record", "returned", "failed"}
        /\ UNCHANGED <<baseline, manifest, revised, scores, outcome, proven, passed>>
      BY <1>10 DEF NoSuchRole, Fails, Throws, Stages
  <2>2. TypeOK'
      BY <2>1 DEF Goes, TypeOK, Stages
  <2> QED
      BY <2>1, <2>2 DEF Goes, RoundOK, CountersOK, Shipping, WithManifest
<1>11. CASE Goldens
  <2>0. at = "goldens" /\ manifest \in Manifests /\ manifest.edit \in Edit /\ baseline # None
      BY <1>11 DEF Goldens, RoundOK, WithManifest
  <2>1. PICK s \in SUBSET Tasks :
          LET verdict == Gate(manifest.edit, Candidate, base, baseline, s) IN
          /\ scores' = s
          /\ Counts(verdict)
          /\ IF verdict = "ship" THEN at' = "ship" /\ UNCHANGED outcome
             ELSE at' = "record" /\ outcome' = verdict
      BY <1>11 DEF Goldens
  <2> DEFINE verdict == Gate(manifest.edit, Candidate, base, baseline, s)
  <2>2. verdict \in {"ship", "reject", "needs-approval"}
      BY GateAnswers
  <2>3. /\ passed' = [passed EXCEPT !.goldens = manifest.edit]
        /\ UNCHANGED <<approve, round, base, baseline, manifest, revised, rounds, stop, current,
                        first, proven>>
      BY <1>11 DEF Goldens
  <2>4. TypeOK'
      BY <2>0, <2>1, <2>2, <2>3 DEF TypeOK, Counts, CountersOK, Stages, Outcomes, Shipping
  <2>5. RoundOK'
      BY <2>0, <2>1, <2>2, <2>3 DEF RoundOK, Shipping, Outcomes, Candidate
  <2>6. CountersOK'
      BY <2>0, <2>1, <2>2, <2>3 DEF CountersOK, Counts, Shipping, TypeOK
  <2> QED
      BY <2>4, <2>5, <2>6
<1>12. CASE Ship
  <2>1. Shipping /\ manifest \in Manifests
      BY <1>12 DEF Ship, Shipping, RoundOK
  <2>2. TypeOK'
      BY <1>12, <2>1, CandidateOK DEF Ship, TypeOK, Stages, Outcomes
  <2>3. RoundOK' /\ CountersOK'
      BY <1>12, <2>1 DEF Ship, RoundOK, CountersOK, Shipping, WithManifest, Candidate, Outcomes
  <2> QED
      BY <2>2, <2>3
<1>13. CASE Record
  <2>0. at = "record" /\ outcome \in Outcomes /\ baseline # None
      BY <1>13 DEF Record, RoundOK
  <2>1. outcome = "ship" => Candidate \in Harness /\ scores \in SUBSET Tasks
      BY <2>0, CandidateOK DEF RoundOK, Shipping
  <2>2. /\ rounds' = Append(rounds, outcome) /\ rounds \in Seq(Outcomes) /\ Len(rounds) = round
        /\ rounds' \in Seq(Outcomes) /\ Len(rounds') = round + 1
      BY <1>13, <2>0 DEF Record, TypeOK, CountersOK
  <2>3. /\ at' = IF PatienceGone \/ round + 1 = MaxRounds THEN "returned" ELSE "digest"
        /\ round' = IF PatienceGone \/ round + 1 = MaxRounds THEN round ELSE round + 1
        /\ stop' \in {"patience", stop}
        /\ manifest' = None /\ revised' = FALSE /\ scores' = None /\ outcome' = None
        /\ passed' = Unscored /\ UNCHANGED <<approve, idle, ships, current, first>>
        /\ base' = IF outcome = "ship" THEN Candidate ELSE base
        /\ baseline' = IF outcome = "ship" THEN scores ELSE baseline
      BY <1>13 DEF Record
  <2>4. TypeOK'
    <3>1. round' \in 0 .. MaxRounds - 1 /\ round + 1 <= MaxRounds
        BY <2>3 DEF TypeOK
    <3>2. Len(rounds') <= MaxRounds
        BY <2>2, <3>1
    <3>3. passed' \in [critic : {None} \cup Edit, smoke : {None} \cup Edit, goldens : {None} \cup Edit]
        BY <2>3 DEF Unscored
    <3>4. base' \in Harness /\ baseline' \in {None} \cup Rows \cup SUBSET Tasks
        BY <2>1, <2>3 DEF TypeOK
    <3> QED
        BY <2>2, <2>3, <3>1, <3>2, <3>3, <3>4 DEF TypeOK, Stages
  <2>5. RoundOK'
      BY <2>3 DEF RoundOK, Shipping, WithManifest
  <2>6. idle < Patience \/ PatienceGone \/ outcome = "ship"
      BY <2>0 DEF PatienceGone, TypeOK
  <2>7. outcome = "ship" => idle < Patience
      BY <2>0 DEF CountersOK, Shipping
  <2>8. CountersOK'
      BY <2>0, <2>2, <2>3, <2>6, <2>7 DEF CountersOK, TypeOK, Shipping, PatienceGone
  <2> QED
      BY <2>4, <2>5, <2>8
<1> QED
    BY <1>1, <1>4, <1>5, <1>6, <1>7, <1>8, <1>9, <1>10, <1>11, <1>12, <1>13 DEF Next

LEMMA Always == Spec => []IInv
  BY InitOK, Step, PTL DEF Spec

\* The state is well typed (TypeOK): the rounds and the idle rounds stay within their limits.
THEOREM TypeCorrect == Spec => []TypeOK
<1>1. IInv => TypeOK
    BY DEF IInv
<1> QED
    BY <1>1, Always, PTL

-----------------------------------------------------------------------------
\* What was ever won is in the baseline, which is known whenever something was won.
Won ==
  /\ baseline = None => proven = {}
  /\ at = "digest" /\ round = 0 => baseline = None
  /\ NothingUnsolved

LEMMA WonStep == IInv /\ Won /\ [Next]_vars => Won'
<1> SUFFICES ASSUME IInv, Won, [Next]_vars PROVE Won'
    OBVIOUS
<1>1. CASE UNCHANGED <<baseline, proven>> /\ (at' # "digest" \/ UNCHANGED <<at, round>>)
    BY <1>1 DEF Won, NothingUnsolved
<1>2. CASE Digest
  <2>1. at = "digest" /\ at' \in {"baseline", "plan"}
      BY <1>2 DEF Digest, Goes
  <2>2. CASE round = 0
      BY <1>2, <2>1, <2>2 DEF Digest, Won, NothingUnsolved
  <2>3. CASE round # 0
      BY <1>2, <2>1, <2>3 DEF Digest, Won, NothingUnsolved
  <2> QED
      BY <2>2, <2>3
<1>3. CASE Baseline
    BY <1>3 DEF Baseline, Won, NothingUnsolved, Goes
<1>4. CASE Record
  <2>0. at' = "digest" => round' # 0
      BY <1>4 DEF Record, IInv, TypeOK
  <2>1. CASE outcome = "ship"
    <3>1. baseline # None /\ manifest \in Manifests
          /\ Gate(manifest.edit, Candidate, base, baseline, scores) = "ship"
        BY <1>4, <2>1 DEF Record, IInv, RoundOK, Shipping
    <3>2. baseline \subseteq scores
        BY <3>1, GateShips DEF Candidate, IInv, TypeOK
    <3>3. scores # None /\ baseline' = scores /\ proven' = proven \cup scores
        BY <1>4, <2>1 DEF Record, IInv, RoundOK, Shipping
    <3> QED
        BY <2>0, <3>1, <3>2, <3>3 DEF Won, NothingUnsolved
  <2>2. CASE outcome # "ship"
      BY <2>0, <1>4, <2>2 DEF Record, Won, NothingUnsolved
  <2> QED
      BY <2>1, <2>2
<1> QED
    BY <1>1, <1>2, <1>3, <1>4 DEF Next, vars, Plan, Critic, Revise, Smoke, NoSuchRole, Goldens,
       Ship, Fails, Throws, Goes, Ends

\* Through any number of rounds, what a base was measured to solve is never given up
\* (NothingUnsolved).
THEOREM NoRegression == Spec => []NothingUnsolved
<1>1. Init => Won
    BY DEF Init, Won, NothingUnsolved
<1>2. Won => NothingUnsolved
    BY DEF Won
<1> QED
    BY <1>1, <1>2, WonStep, Always, PTL DEF Spec

-----------------------------------------------------------------------------
\* What the critic, the smoke test and the corpus were asked about is what goes on.
Examined ==
  /\ at \in {"smoke", "goldens", "ship"} => passed.critic = manifest.edit
  /\ at \in {"goldens", "ship"} => passed.smoke = manifest.edit
  /\ at = "ship" => passed.goldens = manifest.edit

LEMMA ExaminedStep == IInv /\ Examined /\ [Next]_vars => Examined'
<1> SUFFICES ASSUME IInv, Examined, [Next]_vars PROVE Examined'
    OBVIOUS
<1>0. passed \in [critic : {None} \cup Edit, smoke : {None} \cup Edit, goldens : {None} \cup Edit]
    BY DEF IInv, TypeOK
<1>1. CASE UNCHANGED vars
    BY <1>1 DEF vars, Examined
<1>2. CASE at' \notin {"smoke", "goldens", "ship"}
    BY <1>2 DEF Examined
<1>3. CASE Critic
    BY <1>0, <1>2, <1>3 DEF Critic, Goes, Ends, Examined
<1>4. CASE Smoke
    BY <1>0, <1>2, <1>4 DEF Smoke, Goes, Ends, Examined
<1>5. CASE Goldens
    BY <1>0, <1>2, <1>5 DEF Goldens, Examined
<1> QED
    BY <1>1, <1>2, <1>3, <1>4, <1>5 DEF Next, Digest, Baseline, Plan, Revise, NoSuchRole, Ship,
       Record, Fails, Throws, Goes, Ends

\* What ships is the edit that was examined (ShippedAsExamined).
THEOREM ExaminedShips == Spec => []ShippedAsExamined
<1>1. Init => Examined
    BY DEF Init, Examined
<1>2. Examined => ShippedAsExamined
    BY DEF Examined, ShippedAsExamined
<1> QED
    BY <1>1, <1>2, ExaminedStep, Always, PTL DEF Spec

-----------------------------------------------------------------------------
\* A harness that keeps the surface evolution began with.
Holds(h) ==
  /\ h.review = first.review
  /\ \A r \in Roles :
       /\ r \in Sensitive => h.tools[r] = first.tools[r] /\ h.prompt[r] = first.prompt[r]
       /\ h.tools[r] = {} => first.tools[r] = {}
       /\ h.tools[r] \subseteq first.tools[r] \cup KnownTools
       /\ h.prompt[r] \in {first.prompt[r]} \cup Screened
  /\ h.processors \subseteq first.processors \cup KnownProcessors
BothHold == Holds(base) /\ Holds(current)

LEMMA BothHoldStep == IInv /\ BothHold /\ [Next]_vars => BothHold'
<1> SUFFICES ASSUME IInv, BothHold, [Next]_vars PROVE BothHold'
    OBVIOUS
<1>1. CASE UNCHANGED <<base, current, first>>
    BY <1>1 DEF BothHold, Holds
<1>2. ASSUME Shipping PROVE Holds(Candidate)
  <2>1. manifest.edit \in Edit /\ base \in Harness /\ round + 1 \in Nat
        /\ Gate(manifest.edit, Candidate, base, baseline, scores) = "ship"
      BY <1>2 DEF IInv, TypeOK, RoundOK
  <2>2. Inherits(Candidate, base)
      BY <2>1, GateShips DEF Candidate
  <2> QED
      BY <2>2 DEF Inherits, BothHold, Holds
<1>3. CASE Ship
  <2>1. Holds(Candidate)
      BY <1>2, <1>3 DEF Ship, Shipping
  <2> QED
      BY <1>3, <2>1 DEF Ship, BothHold, Holds
<1>4. CASE Record
  <2>1. outcome = "ship" => Holds(Candidate)
      BY <1>2, <1>4 DEF Record, Shipping
  <2> QED
      BY <1>4, <2>1 DEF Record, BothHold, Holds
<1> QED
    BY <1>1, <1>3, <1>4 DEF Next, vars, Digest, Baseline, Plan, Critic, Revise, Smoke, NoSuchRole,
       Goldens, Fails, Throws, Goes, Ends

\* Through any number of ships the harness keeps its review requirement, its safety-adjacent
\* roles and a surface of known and screened parts (SurfaceHeld).
THEOREM SurfaceStays == Spec => []SurfaceHeld
<1>1. Init => BothHold
    BY DEF Init, BothHold, Holds
<1>2. BothHold => SurfaceHeld
    BY DEF BothHold, Holds, SurfaceHeld
<1> QED
    BY <1>1, <1>2, BothHoldStep, Always, PTL DEF Spec

-----------------------------------------------------------------------------
Ships(rs) == {i \in DOMAIN rs : rs[i] = "ship"}

\* One more round on record.
LEMMA OneMoreRound ==
  ASSUME NEW rs \in Seq(Outcomes), NEW o \in Outcomes
  PROVE /\ o = "ship" => Cardinality(Ships(Append(rs, o))) = Cardinality(Ships(rs)) + 1
        /\ o # "ship" => Cardinality(Ships(Append(rs, o))) = Cardinality(Ships(rs))
        /\ Cardinality(Ships(rs)) \in Nat
<1> DEFINE n == Len(rs)
           more == Append(rs, o)
<1>1. n \in Nat /\ DOMAIN rs = 1 .. n /\ DOMAIN more = 1 .. n + 1
      /\ more[n + 1] = o /\ \A i \in 1 .. n : more[i] = rs[i]
    OBVIOUS
<1>2. IsFiniteSet(Ships(rs))
  <2>1. Ships(rs) \subseteq 1 .. n /\ IsFiniteSet(1 .. n)
      BY <1>1, FS_Interval DEF Ships
  <2> QED
      BY <2>1, FS_Subset
<1>3. Ships(more) = IF o = "ship" THEN Ships(rs) \cup {n + 1} ELSE Ships(rs)
    BY <1>1 DEF Ships
<1>4. n + 1 \notin Ships(rs)
    BY <1>1 DEF Ships
<1> QED
    BY <1>2, <1>3, <1>4, FS_AddElement, FS_CardinalityType

\* The idle rounds on record.
Idled == IF at = "record" /\ outcome # "ship" THEN idle - 1 ELSE idle
IdleBehind(k) ==
  /\ k <= Len(rounds) /\ Shipless(k)
  /\ k < Len(rounds) => rounds[Len(rounds) - k] = "ship"

\* The report as it comes to be.
Reporting == at # "failed" =>
  /\ ships = Cardinality(Ships(rounds)) + (IF Shipping THEN 1 ELSE 0)
  /\ current = IF at = "record" /\ outcome = "ship" THEN Candidate ELSE base
  /\ Cardinality(Ships(rounds)) = 0 => base = first
  /\ Cardinality(Ships(rounds)) > 0 => base.id > 0
  /\ Shipping => idle = 0
  /\ at = "record" /\ outcome # "ship" => idle > 0
  /\ ~Shipping => IdleBehind(Idled)
  /\ stop = "patience" => at = "returned" /\ idle = Patience
  /\ at = "returned" /\ stop # "patience" => Len(rounds) = MaxRounds

LEMMA ReportingInit == Init => Reporting
<1> SUFFICES ASSUME Init PROVE Reporting
    OBVIOUS
<1>1. Ships(rounds) = {} /\ Len(rounds) = 0
    BY DEF Init, Ships
<1>2. Cardinality(Ships(rounds)) = 0
    BY <1>1, FS_EmptySet
<1>3. IdleBehind(0)
    BY <1>1 DEF IdleBehind, Shipless
<1> QED
    BY <1>1, <1>2, <1>3 DEF Init, Reporting, Shipping, Idled

LEMMA ReportingStep == IInv /\ Reporting /\ [Next]_vars => Reporting'
<1> SUFFICES ASSUME IInv, Reporting, [Next]_vars PROVE Reporting'
    OBVIOUS
<1>0. idle \in Nat /\ rounds \in Seq(Outcomes) /\ Len(rounds) \in Nat /\ ships \in Nat
      /\ Cardinality(Ships(rounds)) \in Nat
    BY OneMoreRound DEF IInv, TypeOK, Outcomes
<1>1. CASE at' = "failed"
    BY <1>1 DEF Reporting
<1>2. CASE UNCHANGED vars
    BY <1>2 DEF vars, Reporting, Shipping, Candidate, Idled, IdleBehind, Shipless
<1>3. ASSUME NEW stage \in Stages \ {"record", "returned", "ship", "failed"}, Goes(stage),
             at \notin {"record", "returned", "ship", "failed"}
      PROVE Reporting'
  <2>1. ~Shipping /\ ~Shipping' /\ Idled = idle /\ Idled' = idle
      BY <1>3 DEF Goes, Shipping, Idled
  <2>2. IdleBehind(idle)'
      BY <1>3, <2>1 DEF Goes, Reporting, IdleBehind, Shipless
  <2> QED
      BY <1>3, <2>1, <2>2 DEF Goes, Reporting
<1>4. ASSUME NEW o \in Outcomes \ {"ship"}, at \notin {"record", "returned", "ship", "failed"},
             at' = "record", outcome' = o, idle' = idle + 1,
             UNCHANGED <<base, ships, rounds, stop, current, first>>
      PROVE Reporting'
  <2>1. ~Shipping /\ ~Shipping' /\ Idled = idle /\ Idled' = idle
      BY <1>0, <1>4 DEF Shipping, Idled
  <2>2. IdleBehind(idle)
      BY <1>4, <2>1 DEF Reporting
  <2>3. IdleBehind(Idled)'
      BY <1>4, <2>1, <2>2 DEF IdleBehind, Shipless
  <2> QED
      BY <1>0, <1>4, <2>1, <2>3 DEF Reporting
<1>5. CASE Digest \/ Baseline
  <2>1. PICK stage \in {"baseline", "plan"} : Goes(stage)
      BY <1>5 DEF Digest, Baseline
  <2> QED
      BY <1>3, <1>5, <2>1 DEF Digest, Baseline, Stages
<1>6. CASE Plan \/ Critic \/ Revise \/ Smoke
  <2>1. at \in {"plan", "critic", "revise", "smoke"}
      BY <1>6 DEF Plan, Critic, Revise, Smoke
  <2>2. \/ \E stage \in {"critic", "smoke", "revise", "goldens"} : Goes(stage)
        \/ \E o \in Outcomes \ {"ship"} : Ends(o)
      BY <1>6 DEF Plan, Critic, Revise, Smoke, Outcomes
  <2> QED
      BY <1>3, <1>4, <2>1, <2>2 DEF Stages, Ends
<1>7. CASE NoSuchRole \/ Fails
    BY <1>1, <1>7 DEF NoSuchRole, Fails, Throws, Goes
<1>8. CASE Goldens
  <2> DEFINE verdict(s) == Gate(manifest.edit, Candidate, base, baseline, s)
  <2>1. PICK s \in SUBSET Tasks :
          /\ Counts(verdict(s))
          /\ IF verdict(s) = "ship" THEN at' = "ship" /\ UNCHANGED outcome
             ELSE at' = "record" /\ outcome' = verdict(s)
      BY <1>8 DEF Goldens
  <2>2. at = "goldens" /\ UNCHANGED <<base, rounds, stop, current, first>>
      BY <1>8 DEF Goldens
  <2>3. CASE verdict(s) = "ship"
    <3>1. ~Shipping /\ Shipping' /\ idle' = 0 /\ ships' = ships + 1
        BY <2>1, <2>2, <2>3 DEF Counts, Shipping
    <3> QED
        BY <1>0, <2>1, <2>2, <2>3, <3>1 DEF Reporting
  <2>4. CASE verdict(s) # "ship"
    <3>1. verdict(s) \in Outcomes \ {"ship"}
        BY <2>4, GateAnswers DEF Outcomes
    <3> QED
        BY <2>1, <2>2, <2>4, <3>1, <1>4 DEF Counts
  <2> QED
      BY <2>3, <2>4
<1>9. CASE Ship
  <2>1. Shipping /\ Shipping' /\ Candidate' = Candidate
      BY <1>9 DEF Ship, Shipping, Candidate
  <2> QED
      BY <1>9, <2>1 DEF Ship, Reporting
<1>10. CASE Record
  <2>0. at = "record" /\ outcome \in Outcomes /\ idle \in 0 .. Patience
      BY <1>10 DEF Record, IInv, RoundOK, TypeOK
  <2>1. rounds' = Append(rounds, outcome) /\ UNCHANGED <<idle, ships, current, first>>
        /\ base' = current /\ at' \in {"returned", "digest"} /\ ~Shipping'
        /\ Idled' = idle /\ at' # "failed"
      BY <1>10, <2>0 DEF Record, Reporting, Shipping, Idled
  <2>2. Len(rounds') = Len(rounds) + 1 /\ rounds'[Len(rounds) + 1] = outcome
        /\ \A i \in 1 .. Len(rounds) : rounds'[i] = rounds[i]
      BY <1>0, <2>0, <2>1
  <2>3. ships = Cardinality(Ships(rounds'))
      BY <1>0, <2>0, <2>1, OneMoreRound DEF Reporting, Shipping
  <2>4. IdleBehind(idle)'
    <3>1. CASE outcome = "ship"
      <4>1. idle = 0
          BY <2>0, <3>1 DEF Reporting, Shipping
      <4> QED
          BY <1>0, <2>1, <2>2, <3>1, <4>1 DEF IdleBehind, Shipless
    <3>2. CASE outcome # "ship"
      <4>1. IdleBehind(idle - 1) /\ idle > 0
          BY <2>0, <3>2 DEF Reporting, Shipping, Idled
      <4> QED
          BY <1>0, <2>1, <2>2, <3>2, <4>1 DEF IdleBehind, Shipless
    <3> QED
        BY <3>1, <3>2
  <2>5. /\ Cardinality(Ships(rounds')) = 0 => base' = first
        /\ Cardinality(Ships(rounds')) > 0 => base'.id > 0
    <3>1. CASE outcome = "ship"
      <4>1. base'.id = round + 1 /\ round \in Nat
          BY <1>10, <2>0, <3>1, CandidateOK DEF Record, IInv, RoundOK, Shipping, TypeOK
      <4> QED
          BY <1>0, <2>0, <2>1, <3>1, <4>1, OneMoreRound
    <3>2. CASE outcome # "ship"
        BY <1>0, <2>0, <2>1, <3>2, OneMoreRound DEF Reporting
    <3> QED
        BY <3>1, <3>2
  <2>6. /\ stop' = IF PatienceGone THEN "patience" ELSE stop
        /\ at' = IF PatienceGone \/ round + 1 = MaxRounds THEN "returned" ELSE "digest"
      BY <1>10 DEF Record
  <2>7. /\ stop' = "patience" => at' = "returned" /\ idle' = Patience
        /\ at' = "returned" /\ stop' # "patience" => Len(rounds') = MaxRounds
      BY <2>0, <2>1, <2>2, <2>6 DEF PatienceGone, Reporting, IInv, CountersOK
  <2>8. IdleBehind(Idled)'
      BY <2>1, <2>4 DEF IdleBehind, Shipless
  <2>9. ships' = Cardinality(Ships(rounds')) + (IF Shipping' THEN 1 ELSE 0)
      BY <1>0, <2>1, <2>3
  <2> QED
      BY <2>1, <2>5, <2>7, <2>8, <2>9 DEF Reporting
<1> QED
    BY <1>2, <1>5, <1>6, <1>7, <1>8, <1>9, <1>10 DEF Next

\* What an evolution reports is what happened (ReportTrue).
THEOREM ReportIsTrue == Spec => []ReportTrue
<1>1. IInv /\ Reporting => ReportTrue
  <2> SUFFICES ASSUME IInv, Reporting, at = "returned" PROVE ReportTrue
      BY DEF ReportTrue
  <2>1. ~Shipping /\ Idled = idle /\ first.id = 0
      BY DEF Shipping, Idled, IInv, TypeOK
  <2>2. Ships(rounds) = {i \in DOMAIN rounds : rounds[i] = "ship"} /\ Cardinality(Ships(rounds)) \in Nat
      BY OneMoreRound DEF Ships, IInv, TypeOK, Outcomes
  <2> QED
      BY <2>1, <2>2 DEF ReportTrue, Reporting, IdleBehind
<1> QED
    BY <1>1, ReportingInit, ReportingStep, Always, PTL DEF Spec

-----------------------------------------------------------------------------
(* The golden suite (GoldenRun). First the policy: the order of its rules,   *)
(* and what the first that decides does to a call.                           *)

\* The rules of a suite's policy, as its lists have them.
RuleList(rules) ==
  /\ rules \in Seq(ToSet(rules))
  /\ \A i \in DOMAIN rules : rules[i].priority \in Int /\ rules[i].action \in {"Allow", "Escalate", "Deny"}

\* A set of numbers that is not empty has its first.
LEMMA FirstIsLeast ==
  ASSUME NEW S, S \subseteq Nat, S # {}
  PROVE FirstOf(S) \in S /\ \A j \in S : FirstOf(S) <= j
<1>1. PICK k \in S : \A j \in S : ~ (<<j, k>> \in OpToRel(<, Nat))
    BY NatLessThanWellFounded, WFMin
<1>2. \A j \in S : ~ (j < k)
    BY <1>1 DEF OpToRel
<1>3. \A j \in S : k <= j
    BY <1>2
<1> QED
    BY <1>3 DEF FirstOf

\* There are n numbers up to n.
LEMMA CountTo == ASSUME NEW n \in Nat PROVE IsFiniteSet(1 .. n) /\ Cardinality(1 .. n) = n
  BY FS_Interval

\* Of two rules one comes first, and it has the lower rank.
LEMMA RanksFollow ==
  ASSUME NEW rules, RuleList(rules), NEW i \in DOMAIN rules, NEW j \in DOMAIN rules
  PROVE /\ Rank(rules, i) \in 1 .. Len(rules)
        /\ Before(rules, i, j) => Rank(rules, i) < Rank(rules, j)
        /\ i = j \/ Before(rules, i, j) \/ Before(rules, j, i)
<1> DEFINE P == DOMAIN rules
           A == {k \in P : k = i \/ Before(rules, k, i)}
           B == {k \in P : k = j \/ Before(rules, k, j)}
<1>1. P = 1 .. Len(rules) /\ Len(rules) \in Nat
    BY LenProperties DEF RuleList
<1>2. IsFiniteSet(P) /\ Cardinality(P) = Len(rules)
    BY <1>1, CountTo
<1>3. IsFiniteSet(A) /\ IsFiniteSet(B) /\ Cardinality(A) <= Len(rules)
    BY <1>2, FS_Subset
<1>4. Cardinality(A) \in Nat /\ Cardinality(B) \in Nat
    BY <1>3, FS_CardinalityType
<1>5. Cardinality(A) # 0
    BY <1>3, FS_EmptySet
<1>6. Rank(rules, i) = Cardinality(A) /\ Rank(rules, j) = Cardinality(B)
    BY DEF Rank
<1>7. ASSUME Before(rules, i, j) PROVE Cardinality(A) < Cardinality(B)
  <2>1. /\ \A k \in P : rules[k].priority \in Int
        /\ i \in Int /\ j \in Int /\ \A k \in P : k \in Int
      BY <1>1 DEF RuleList
  <2>2. j \notin A
      BY <1>7, <2>1 DEF Before
  <2>3. A \cup {j} \in SUBSET B
      BY <1>7, <2>1 DEF Before
  <2>4. IsFiniteSet(A \cup {j}) /\ Cardinality(A \cup {j}) = Cardinality(A) + 1
      BY <1>3, <2>2, FS_AddElement
  <2>5. Cardinality(A \cup {j}) <= Cardinality(B)
      BY <1>3, <2>3, FS_Subset
  <2> QED
      BY <1>4, <2>4, <2>5
<1>8. i = j \/ Before(rules, i, j) \/ Before(rules, j, i)
    BY <1>1 DEF Before, RuleList
<1> HIDE DEF A, B
<1> QED
    BY <1>1, <1>3, <1>4, <1>5, <1>6, <1>7, <1>8

\* The rule at a place of the loaded list.
At(rules, k) == CHOOSE i \in DOMAIN rules : Rank(rules, i) = k

\* The loaded rules are the policy's, each at its rank, in the order they come.
LEMMA RulesLoaded ==
  ASSUME NEW rules, RuleList(rules)
  PROVE /\ DOMAIN LoadRules(rules) = DOMAIN rules /\ DOMAIN rules \subseteq Nat
        /\ \A k \in DOMAIN rules : At(rules, k) \in DOMAIN rules /\ LoadRules(rules)[k] = rules[At(rules, k)]
        /\ \A i \in DOMAIN rules : Rank(rules, i) \in DOMAIN rules /\ At(rules, Rank(rules, i)) = i
        /\ \A k, m \in DOMAIN rules : m < k => Before(rules, At(rules, m), At(rules, k))
<1> DEFINE P == DOMAIN rules
           rank == [i \in P |-> Rank(rules, i)]
<1>1. P = 1 .. Len(rules) /\ Len(rules) \in Nat
    BY LenProperties DEF RuleList
<1>2. \A i, j \in P : /\ Rank(rules, i) \in P
                      /\ Before(rules, i, j) => Rank(rules, i) < Rank(rules, j)
                      /\ i = j \/ Before(rules, i, j) \/ Before(rules, j, i)
    BY <1>1, RanksFollow
<1>3. \A i, j \in P : Rank(rules, i) = Rank(rules, j) => i = j
  <2>1. \A n \in P : n \in Int
      BY <1>1
  <2> QED
      BY <1>2, <2>1
<1>4. rank \in Injection(P, P)
    BY <1>2, <1>3 DEF Injection, IsInjective
<1>5. IsFiniteSet(P)
    BY <1>1, FS_Interval
<1>6. rank \in Surjection(P, P)
  <2> HIDE DEF rank, P
  <2> QED
      BY <1>4, <1>5, FS_Injection
<1>7. ASSUME NEW k \in P PROVE At(rules, k) \in P /\ Rank(rules, At(rules, k)) = k
  <2>1. \E i \in P : Rank(rules, i) = k
      BY <1>6 DEF Surjection
  <2> QED
      BY <2>1 DEF At
<1>8. \A i \in P : At(rules, Rank(rules, i)) = i
    BY <1>2, <1>3, <1>7
<1>9. ASSUME NEW k \in P, NEW m \in P, m < k PROVE Before(rules, At(rules, m), At(rules, k))
  <2>1. k \in Int /\ m \in Int
      BY <1>1
  <2> QED
      BY <1>2, <1>7, <1>9, <2>1
<1>10. DOMAIN LoadRules(rules) = P /\ \A k \in P : LoadRules(rules)[k] = rules[At(rules, k)]
    BY DEF LoadRules, At
<1> QED
    BY <1>1, <1>2, <1>7, <1>8, <1>9, <1>10

\* A pass: a rule that decides is the first, or one before it is.
LEMMA PassDecides ==
  ASSUME NEW rules, RuleList(rules), NEW c, NEW folded, NEW answer, NEW i \in DOMAIN rules,
         Concerns(rules[i], c, folded), rules[i].memory = {}
  PROVE \E j \in DOMAIN rules :
           /\ j = i \/ Before(rules, j, i)
           /\ Concerns(rules[j], c, folded)
           /\ MatchRules(LoadRules(rules), c, folded, answer) = BuildDecision(rules[j], answer)
<1> DEFINE loaded == LoadRules(rules)
           D == Deciding(loaded, c, folded, answer)
           m == FirstOf(D)
<1>1. Rank(rules, i) \in DOMAIN loaded /\ loaded[Rank(rules, i)] = rules[i]
    BY RulesLoaded
<1>2. Rank(rules, i) \in D
    BY <1>1 DEF Deciding, EvaluateCypher
<1>3. D \subseteq Nat
    BY RulesLoaded DEF Deciding
<1>4. m \in D /\ m <= Rank(rules, i)
    BY <1>2, <1>3, FirstIsLeast
<1>5. /\ m \in DOMAIN rules /\ loaded[m] = rules[At(rules, m)] /\ At(rules, m) \in DOMAIN rules
      /\ Concerns(rules[At(rules, m)], c, folded)
    BY <1>4, RulesLoaded DEF Deciding
<1>6. At(rules, m) = i \/ Before(rules, At(rules, m), i)
  <2>1. m = Rank(rules, i) \/ m < Rank(rules, i)
      BY <1>2, <1>3, <1>4
  <2> QED
      BY <1>1, <1>5, <2>1, RulesLoaded
<1>7. MatchRules(loaded, c, folded, answer) = BuildDecision(rules[At(rules, m)], answer)
    BY <1>2, <1>5 DEF MatchRules
<1> QED
    BY <1>5, <1>6, <1>7

\* The stricter of two verdicts is no Allow if one of them is none.
LEMMA StricterRefuses ==
  ASSUME NEW a, NEW b \in {"Escalate", "Indeterminate", "Deny"}
  PROVE StricterOf(a, b) # "Allow"
  BY DEF StricterOf, STRICTNESS

\* What a rule with neither a list of allowed paths nor a graph half comes to, on a call it is about.
Bites(rule, c) ==
  /\ rule.tools = {} \/ c.tool \in rule.tools
  /\ rule.roles = {} \/ c.role \in rule.roles
  /\ rule.glob # {} /\ rule.allowed = {} /\ rule.memory = {}

\* A glob's path and a call's are one file to the file system.
OneFile(g, p, ci) == g.file = p.file /\ (g.spelt = p.spelt \/ ci)

\* The two halves of RefusalsHold, of a policy and any verdict on a call.
LEMMA DecideRefuses ==
  ASSUME NEW rules, RuleList(rules), NEW c, NEW ci \in BOOLEAN, NEW answers, NEW i \in DOMAIN rules,
         Bites(rules[i], c), rules[i].action # "Allow",
         NEW p \in c.paths, NEW g \in rules[i].glob, OneFile(g, p, ci)
  PROVE \/ Decide(LoadRules(rules), c, ci, answers) # "Allow"
        \/ \E j \in DOMAIN rules : /\ Before(rules, j, i) /\ rules[j].action = "Allow"
                                   /\ Concerns(rules[j], c, FALSE)
<1> DEFINE loaded == LoadRules(rules)
           exact == MatchRules(loaded, c, FALSE, answers[1])
           folded == MatchRules(loaded, c, TRUE, answers[2])
<1> SUFFICES ASSUME Confined(c)
             PROVE \/ Decide(loaded, c, ci, answers) # "Allow"
                   \/ \E j \in DOMAIN rules : /\ Before(rules, j, i) /\ rules[j].action = "Allow"
                                              /\ Concerns(rules[j], c, FALSE)
    BY DEF Decide
<1>1. ASSUME NEW f \in BOOLEAN, NEW answer, OneFile(g, p, f)
      PROVE \/ MatchRules(loaded, c, f, answer) \in {"Escalate", "Indeterminate", "Deny"}
            \/ \E j \in DOMAIN rules : /\ Before(rules, j, i) /\ rules[j].action = "Allow"
                                       /\ Concerns(rules[j], c, FALSE)
  <2>1. Concerns(rules[i], c, f)
      BY <1>1 DEF Concerns, MatchesToolId, MatchesAgentRole, MatchesPath, MatchesGlob, MatchesAllowedPaths, Bites, OneFile
  <2>2. PICK j \in DOMAIN rules :
           /\ j = i \/ Before(rules, j, i)
           /\ Concerns(rules[j], c, f)
           /\ MatchRules(loaded, c, f, answer) = BuildDecision(rules[j], answer)
      BY <2>1, PassDecides DEF Bites
  <2>3. CASE rules[j].action = "Allow"
    <3>1. Concerns(rules[j], c, FALSE)
        BY <2>2, <2>3 DEF Concerns, MatchesPath
    <3> QED
        BY <2>2, <2>3, <3>1
  <2>4. CASE rules[j].action # "Allow"
    <3>1. rules[j].action \in {"Escalate", "Deny"}
        BY <2>4 DEF RuleList
    <3> QED
        BY <2>2, <3>1 DEF BuildDecision
  <2> QED
      BY <2>3, <2>4
<1>2. CASE ~ ci
    BY <1>1, <1>2 DEF Decide, OneFile
<1>3. CASE ci
  <2>1. CASE \E j \in DOMAIN rules : /\ Before(rules, j, i) /\ rules[j].action = "Allow"
                                     /\ Concerns(rules[j], c, FALSE)
      BY <2>1
  <2>2. CASE folded \in {"Escalate", "Indeterminate", "Deny"}
    <3>1. StricterOf(exact, folded) # "Allow"
        BY <2>2, StricterRefuses
    <3>2. Decide(loaded, c, ci, answers) = IF exact = "Deny" THEN exact ELSE StricterOf(exact, folded)
        BY <1>3 DEF Decide
    <3> HIDE DEF exact, folded
    <3> QED
        BY <3>1, <3>2
  <2>3. OneFile(g, p, TRUE)
      BY DEF OneFile
  <2> QED
      BY <1>1, <2>1, <2>2, <2>3
<1> QED
    BY <1>2, <1>3

LEMMA DecideDenies ==
  ASSUME NEW rules, RuleList(rules), NEW c, NEW ci \in BOOLEAN, NEW answers, NEW i \in DOMAIN rules,
         Bites(rules[i], c), rules[i].action = "Deny",
         NEW p \in c.paths, p \in rules[i].glob
  PROVE \/ Decide(LoadRules(rules), c, ci, answers) = "Deny"
        \/ \E j \in DOMAIN rules : Before(rules, j, i) /\ Concerns(rules[j], c, FALSE)
<1>1. ASSUME NEW f \in BOOLEAN, NEW answer
      PROVE \/ MatchRules(LoadRules(rules), c, f, answer) = "Deny"
            \/ \E j \in DOMAIN rules : Before(rules, j, i) /\ Concerns(rules[j], c, f)
  <2>1. Concerns(rules[i], c, f) /\ rules[i].memory = {}
      BY DEF Concerns, MatchesToolId, MatchesAgentRole, MatchesPath, MatchesGlob, MatchesAllowedPaths, Bites
  <2>2. PICK j \in DOMAIN rules :
           /\ j = i \/ Before(rules, j, i)
           /\ Concerns(rules[j], c, f)
           /\ MatchRules(LoadRules(rules), c, f, answer) = BuildDecision(rules[j], answer)
      BY <2>1, PassDecides
  <2>3. CASE j = i
      BY <2>1, <2>2, <2>3 DEF BuildDecision, EvaluateCypher
  <2> QED
      BY <2>2, <2>3
<1> QED
    BY <1>1 DEF Decide

-----------------------------------------------------------------------------
(* The suite as it goes: its tasks are tried in their order.                 *)

Sequence(s) == s \in Seq(ToSet(s))

\* Appending to a list.
LEMMA Appended ==
  ASSUME NEW s, Sequence(s), NEW e
  PROVE /\ Sequence(Append(s, e))
        /\ Len(s) \in Nat /\ Len(Append(s, e)) = Len(s) + 1 /\ DOMAIN s = 1 .. Len(s)
        /\ DOMAIN Append(s, e) = 1 .. Len(s) + 1
        /\ \A i \in 1 .. Len(s) : Append(s, e)[i] = s[i]
        /\ Append(s, e)[Len(s) + 1] = e
<1> DEFINE T == ToSet(s) \cup {e}
           r == Append(s, e)
<1>1. s \in Seq(T)
  <2>1. ToSet(s) \subseteq T
      OBVIOUS
  <2> HIDE DEF T
  <2> QED
      BY <2>1, SeqMonotonic DEF Sequence
<1>2. e \in T
    OBVIOUS
<1> HIDE DEF T
<1>3. /\ r \in Seq(T) /\ Len(s) \in Nat /\ Len(r) = Len(s) + 1 /\ DOMAIN s = 1 .. Len(s)
      /\ DOMAIN r = 1 .. Len(r)
      /\ \A i \in 1 .. Len(s) : r[i] = s[i]
      /\ r[Len(s) + 1] = e
    BY <1>1, <1>2
<1>4. r \in Seq(ToSet(r))
  <2>1. r \in [1 .. Len(r) -> ToSet(r)] /\ Len(r) \in Nat
    <3>1. r \in [1 .. Len(r) -> T]
        BY <1>3, LenProperties
    <3>2. \A i \in 1 .. Len(r) : r[i] \in ToSet(r)
        BY <1>3 DEF ToSet
    <3> HIDE DEF r
    <3> QED
        BY <1>3, <3>1, <3>2
  <2> HIDE DEF r
  <2> QED
      BY <2>1, SeqDef
<1> QED
    BY <1>3, <1>4 DEF Sequence

LEMMA EmptyIsSequence == Sequence(<<>>) /\ Len(<<>>) = 0
  BY EmptySeq DEF Sequence

Working == {"dispatch", "turn", "gate", "measure", "verify"}
Trying == {"attempt"} \cup Working

\* How many attempts a task has when the suite is at the one at hand.
Tried(t) ==
  IF t < task THEN Len(results[t]) = Tries
  ELSE IF t = task THEN Len(results[t]) = 0 \/ Len(results[t]) < Tries
  ELSE Len(results[t]) = 0

TriedInOrder ==
  /\ pc = "start" => results = <<>> /\ decided = {} /\ ~ threw /\ project = NoProject
  /\ pc # "start" =>
       /\ suite \in Suites /\ DOMAIN results = DOMAIN suite.corpus
       /\ \A t \in DOMAIN results : Sequence(results[t]) /\ Tried(t)
  /\ task \in Nat \ {0}
  /\ pc \in {"start", "stage", "corpus"} => task = 1
  /\ pc \in Working => Tries > 0 /\ task \in DOMAIN results

\* What a suite's lists are.
LEMMA SuiteLists ==
  ASSUME NEW s \in Suites
  PROVE /\ Lists(s) /\ DOMAIN s.corpus = 1 .. Len(s.corpus) /\ Len(s.corpus) \in Nat
        /\ s.attempts \in Int /\ s.caseInsensitive \in BOOLEAN /\ RuleList(s.policy)
<1>1. Lists(s)
    BY SuitesAssumption
<1> QED
    BY <1>1, LenProperties DEF Lists, RuleList

\* A step of an attempt goes on, or ends the attempt with an error or a verdict.
Attempting ==
  BeginAttempt \/ Dispatch \/ Turn \/ GateCall \/ AgentEnds \/ Measure \/ Verify \/ Judged

GoesOn == pc' \in Working /\ UNCHANGED <<task, results>>
Failing == [passed |-> FALSE, error |-> TRUE, left |-> {}, outcomes |-> <<>>]
Verdict == [passed |-> FALSE \notin ToSet(outcomes), error |-> FALSE, left |-> left, outcomes |-> outcomes]

LEMMA AttemptStep ==
  ASSUME Attempting
  PROVE /\ pc \in Trying /\ UNCHANGED <<suite, suiteVars>>
        /\ pc = "attempt" => Tries > 0 /\ task <= Len(suite.corpus)
        /\ \/ GoesOn
           \/ EndAttempt(Failing)
           \/ pc = "verify" /\ Asked = Len(Task.verifiers) /\ EndAttempt(Verdict)
<1>1. CASE BeginAttempt
    BY <1>1 DEF BeginAttempt, TriesLeft, Errored, Failing, GoesOn, Trying, Working
<1>2. CASE Dispatch
    BY <1>2 DEF Dispatch, Errored, Failing, GoesOn, Trying, Working
<1>3. CASE Turn
    BY <1>3 DEF Turn, GoesOn, Trying, Working
<1>4. CASE GateCall
    BY <1>4 DEF GateCall, Errored, Failing, GoesOn, Trying, Working
<1>5. CASE AgentEnds
    BY <1>5 DEF AgentEnds, Errored, Failing, GoesOn, Trying, Working
<1>6. CASE Measure
    BY <1>6 DEF Measure, Errored, Failing, GoesOn, Trying, Working
<1>7. CASE Verify
    BY <1>7 DEF Verify, Errored, Failing, GoesOn, Trying, Working
<1>8. CASE Judged
    BY <1>8 DEF Judged, Verdict, Trying, Working
<1> QED
    BY <1>1, <1>2, <1>3, <1>4, <1>5, <1>6, <1>7, <1>8 DEF Attempting

\* After the attempts, or in place of one that has no directory: the result is stored, and compared.
Storing == NoDirectory \/ Attest \/ Close \/ CopyBundle \/ RemoveDir \/ Score \/ WriteResult \/ Compares

LEMMA StoringStep ==
  ASSUME Storing
  PROVE /\ UNCHANGED <<suite, task, attemptVars, graph, counts, results>>
        /\ pc # "start" /\ pc' \notin Trying \cup {"start", "stage", "corpus"}
<1>1. CASE NoDirectory \/ Attest \/ Close \/ CopyBundle \/ RemoveDir \/ Score \/ WriteResult
    BY <1>1 DEF NoDirectory, Attest, Close, CopyBundle, RemoveDir, Score, WriteResult, Trying, Working
<1>2. CASE Compares
  <2>1. \A a, b : Compare(a, b) \notin Trying \cup {"start", "stage", "corpus"}
      BY DEF Compare, SeesawDecision, Trying, Working
  <2> QED
      BY <1>2, <2>1 DEF Compares
<1> QED
    BY <1>1, <1>2 DEF Storing

LEMMA OrderBegins == GoldenInit => TriedInOrder
  BY DEF GoldenInit, TriedInOrder, Working

\* The step to the next attempt, or to the next task.
LEMMA NextTry ==
  ASSUME TriedInOrder, pc \in Trying, Tries > 0, task <= Len(suite.corpus), UNCHANGED suite, NEW r, EndAttempt(r)
  PROVE /\ TriedInOrder'
        /\ DOMAIN results' = DOMAIN results
        /\ \A t \in DOMAIN results : \A i \in DOMAIN results'[t] :
              (results'[t][i] = r /\ t = task) \/ (i \in DOMAIN results[t] /\ results'[t][i] = results[t][i])
<1> DEFINE n == Len(results[task])
<1>1. /\ suite \in Suites /\ suite' = suite /\ DOMAIN results = 1 .. Len(suite.corpus) /\ task \in DOMAIN results
      /\ Len(suite.corpus) \in Nat /\ suite.attempts \in Int /\ DOMAIN results = DOMAIN suite.corpus
    BY SuiteLists DEF TriedInOrder, Trying, Working
<1>2. /\ \A t \in DOMAIN results : Sequence(results[t]) /\ Tried(t)
      /\ task \in Nat \ {0}
    BY <1>1 DEF TriedInOrder, Trying, Working
<1>3. /\ results' = [results EXCEPT ![task] = Append(results[task], r)]
      /\ task' = IF n + 1 = suite.attempts THEN task + 1 ELSE task
      /\ pc' = "attempt"
    BY DEF EndAttempt
<1>4. /\ Sequence(Append(results[task], r)) /\ n \in Nat /\ Len(Append(results[task], r)) = n + 1
      /\ DOMAIN results[task] = 1 .. n /\ DOMAIN Append(results[task], r) = 1 .. n + 1
      /\ \A i \in 1 .. n : Append(results[task], r)[i] = results[task][i]
      /\ Append(results[task], r)[n + 1] = r
    BY <1>1, <1>2, Appended
<1>5. DOMAIN results' = DOMAIN results /\ results'[task] = Append(results[task], r)
      /\ \A t \in DOMAIN results \ {task} : results'[t] = results[t]
    BY <1>1, <1>3
<1>6. Tries = suite.attempts /\ Tries' = Tries
    BY <1>1 DEF Tries
<1>7. n < Tries
    BY <1>1, <1>2, <1>4 DEF Tried
<1> HIDE DEF n
<1>8. ASSUME NEW t \in DOMAIN results PROVE Sequence(results'[t]) /\ Tried(t)'
  <2>1. CASE t = task
      BY <1>1, <1>2, <1>3, <1>4, <1>5, <1>6, <1>7, <2>1 DEF Tried
  <2>2. CASE t # task
    <3>1. results'[t] = results[t] /\ t \in Nat
        BY <1>1, <1>5, <2>2
    <3> QED
        BY <1>1, <1>2, <1>3, <1>4, <1>6, <2>2, <3>1 DEF Tried
  <2> QED
      BY <2>1, <2>2
<1>9. TriedInOrder'
    BY <1>1, <1>2, <1>3, <1>4, <1>5, <1>8 DEF TriedInOrder, Working
<1>10. ASSUME NEW t \in DOMAIN results, NEW i \in DOMAIN results'[t]
       PROVE (results'[t][i] = r /\ t = task) \/ (i \in DOMAIN results[t] /\ results'[t][i] = results[t][i])
  <2>1. CASE t = task
    <3>1. i \in 1 .. n + 1
        BY <1>4, <1>5, <1>10, <2>1
    <3>2. CASE i = n + 1
        BY <1>4, <1>5, <2>1, <3>2
    <3>3. CASE i # n + 1
      <4>1. i \in 1 .. n
          BY <1>4, <3>1, <3>3
      <4> QED
          BY <1>4, <1>5, <2>1, <4>1
    <3> QED
        BY <3>2, <3>3
  <2>2. CASE t # task
      BY <1>5, <1>10, <2>2
  <2> QED
      BY <2>1, <2>2
<1> QED
    BY <1>5, <1>9, <1>10

LEMMA OrderStep ==
  ASSUME TriedInOrder, [GoldenNext]_goldenVars
  PROVE TriedInOrder'
<1>1. CASE Begin
  <2>1. PICK s \in Suites :
           /\ suite' = s /\ results' = [t \in DOMAIN s.corpus |-> <<>>]
           /\ pc' \in {"stage", "failed"}
      BY <1>1 DEF Begin
  <2>2. task' = task /\ task = 1
      BY <1>1 DEF Begin, TriedInOrder
  <2>3. \A t \in DOMAIN s.corpus : t \in Nat \ {0}
      BY SuiteLists
  <2> QED
      BY <2>1, <2>2, <2>3, EmptyIsSequence DEF TriedInOrder, Tried, Working
<1>2. CASE Stage \/ LoadCorpus
    BY <1>2 DEF Stage, LoadCorpus, TriedInOrder, Tried, Tries, Working
<1>3. CASE Attempting
  <2>1. CASE GoesOn
    <3>1. /\ UNCHANGED <<suite, task, results>> /\ pc \in Trying /\ pc' \in Working
          /\ pc = "attempt" => Tries > 0 /\ task <= Len(suite.corpus)
        BY <1>3, <2>1, AttemptStep DEF GoesOn
    <3>2. suite \in Suites /\ task \in Nat \ {0}
        BY <3>1 DEF TriedInOrder, Trying, Working
    <3>3. pc = "attempt" => task \in DOMAIN results
        BY <3>1, <3>2, SuiteLists DEF TriedInOrder
    <3> QED
        BY <3>1, <3>2, <3>3 DEF TriedInOrder, Tried, Tries, Trying, Working
  <2>2. CASE ~ GoesOn
    <3>1. PICK r : EndAttempt(r)
        BY <1>3, <2>2, AttemptStep
    <3>2. pc \in Trying /\ UNCHANGED suite /\ (pc = "attempt" => Tries > 0 /\ task <= Len(suite.corpus))
        BY <1>3, AttemptStep
    <3>3. pc # "attempt" => Tries > 0 /\ task <= Len(suite.corpus)
      <4>1. pc \in Trying => pc # "start" /\ (pc # "attempt" => pc \in Working)
          BY DEF Trying, Working
      <4> QED
          BY <3>2, <4>1, SuiteLists DEF TriedInOrder
    <3> QED
        BY <3>1, <3>2, <3>3, NextTry
  <2> QED
      BY <2>1, <2>2
<1>4. CASE Storing
  <2>1. /\ UNCHANGED <<suite, task, decided, results>> /\ pc # "start"
        /\ pc' \notin Working \cup {"start", "stage", "corpus"}
      BY <1>4, StoringStep DEF attemptVars, Trying
  <2> QED
      BY <2>1 DEF TriedInOrder, Tried, Tries
<1>5. CASE UNCHANGED goldenVars
    BY <1>5 DEF TriedInOrder, Tried, Tries, goldenVars, attemptVars, suiteVars
<1> QED
    BY <1>1, <1>2, <1>3, <1>4, <1>5 DEF GoldenNext, Attempting, Storing

-----------------------------------------------------------------------------
(* What is stored of it.                                                     *)

Attested ==
  /\ staged = [status |-> GoldenRunStatus, solved |-> Solved, policy |-> InForce(Rules, counts)]
  /\ \A t \in DOMAIN results : Len(results[t]) = Tries

\* What the project has is what was attested, under the bundle.
Whole ==
  /\ Attested /\ stack = "closed"
  /\ project = [bundle |-> staged, score |-> project.score, result |-> project.result]
  /\ project.result \in {Nothing, Result}

Stored ==
  /\ project = NoProject \/ Whole
  /\ pc \in {"start", "stage", "corpus"} \cup Trying => project = NoProject /\ ~ threw
  /\ pc = "close" => project = NoProject /\ (threw \/ Attested)
  /\ pc = "copy" => project = NoProject /\ Attested /\ stack = "closed"
  /\ pc = "remove" => threw \/ Whole
  /\ pc \in {"score", "write"} => Whole

\* What is said of the results stays while they do.
LEMMA ResultsKept ==
  ASSUME UNCHANGED <<suite, results, counts>>
  PROVE /\ GoldenRunStatus' = GoldenRunStatus /\ Solved' = Solved /\ Rules' = Rules
        /\ Result' = Result /\ Tries' = Tries
<1>1. GoldenRunStatus' = GoldenRunStatus
    BY DEF GoldenRunStatus, Some
<1>2. Solved' = Solved
    BY DEF Solved, Some
<1> QED
    BY <1>1, <1>2 DEF Rules, Result, Tries

LEMMA StoredBegins == GoldenInit => Stored
  BY DEF GoldenInit, Stored, Trying, Working

\* Attesting: every task has its attempts by then.
LEMMA AttestStep ==
  ASSUME TriedInOrder, Stored, Attest
  PROVE Stored'
<1>1. /\ UNCHANGED <<suite, results, counts, task, stack, project>> /\ pc = "attempt" /\ pc' = "close"
      /\ project = NoProject
      /\ Tries = 0 \/ task > Len(suite.corpus)
    BY SuiteLists DEF Attest, TriesLeft, Tries, TriedInOrder, Stored, Trying
<1>2. CASE threw'
    BY <1>1, <1>2 DEF Stored, Trying, Working
<1>3. CASE ~ threw'
  <2>1. staged' = [status |-> GoldenRunStatus, solved |-> Solved, policy |-> InForce(Rules, counts)]
      BY <1>3 DEF Attest
  <2>2. ASSUME NEW t \in DOMAIN results PROVE Len(results[t]) = Tries
    <3>1. /\ suite \in Suites /\ DOMAIN results = DOMAIN suite.corpus
          /\ Sequence(results[t]) /\ Tried(t) /\ task \in Nat \ {0}
        BY <1>1, <2>2 DEF TriedInOrder
    <3>2. /\ DOMAIN results = 1 .. Len(suite.corpus) /\ Len(suite.corpus) \in Nat
          /\ suite.attempts \in Int
        BY <3>1, SuiteLists
    <3>3. Len(results[t]) \in Nat
        BY <3>1, Appended
    <3>4. t \in Nat /\ (Tries = 0 \/ t < task)
        BY <1>1, <2>2, <3>1, <3>2
    <3> QED
        BY <3>1, <3>2, <3>3, <3>4 DEF Tried, Tries
  <2>3. Attested'
      BY <1>1, <2>1, <2>2, ResultsKept DEF Attested
  <2> QED
      BY <1>1, <2>3 DEF Stored, Trying, Working
<1> QED
    BY <1>2, <1>3

LEMMA StoredStep ==
  ASSUME TriedInOrder, Stored, [GoldenNext]_goldenVars
  PROVE Stored'
<1>k. ASSUME UNCHANGED <<suite, results, counts, staged>> PROVE Attested' = Attested
    BY <1>k, ResultsKept DEF Attested
<1>w. ASSUME UNCHANGED <<suite, results, counts, staged, stack, project>> PROVE Whole' = Whole
    BY <1>k, <1>w, ResultsKept DEF Whole
<1>1. CASE Begin \/ Stage \/ LoadCorpus
  <2>1. project' = project /\ project = NoProject /\ ~ threw
        /\ \/ pc' = "failed"
           \/ pc' \in {"remove", "close"} /\ threw'
           \/ pc' \in {"stage", "corpus", "attempt"} /\ ~ threw'
    <3>1. CASE Begin
        BY <3>1 DEF Begin, Stored
    <3>2. CASE Stage
        BY <3>2 DEF Stage, Stored
    <3>3. CASE LoadCorpus
        BY <3>3 DEF LoadCorpus, Stored
    <3> QED
        BY <1>1, <3>1, <3>2, <3>3
  <2> QED
      BY <2>1 DEF Stored, Trying, Working
<1>2. CASE Attempting
  <2>1. pc \in Trying /\ UNCHANGED suiteVars /\ pc' \in Trying
      BY <1>2, AttemptStep DEF GoesOn, EndAttempt, Trying
  <2>2. project' = NoProject /\ ~ threw'
      BY <2>1 DEF Stored, suiteVars
  <2> QED
      BY <2>1, <2>2 DEF Stored, Trying, Working
<1>3. CASE Attest
    BY <1>3, AttestStep
<1>10. CASE NoDirectory
    BY <1>10 DEF NoDirectory, Stored, Trying, Working
<1>4. CASE Close
  <2>1. /\ UNCHANGED <<suite, results, counts, staged, project, threw>> /\ pc = "close"
        /\ project = NoProject /\ (threw \/ Attested) /\ stack' = "closed"
        /\ pc' = IF threw THEN "remove" ELSE "copy"
      BY <1>4 DEF Close, Stored
  <2> QED
      BY <1>k, <2>1 DEF Stored, Trying, Working
<1>5. CASE CopyBundle
  <2>1. /\ UNCHANGED <<suite, results, counts, staged, stack>> /\ pc' = "remove"
        /\ project = NoProject /\ Attested /\ stack = "closed"
      BY <1>5 DEF CopyBundle, Stored
  <2>2. Attested' /\ stack' = "closed"
      BY <1>k, <2>1
  <2>3. CASE project' = [project EXCEPT !.bundle = staged]
    <3>1. project' = [bundle |-> staged', score |-> Nothing, result |-> Nothing]
        BY <2>1, <2>3 DEF NoProject
    <3>2. Whole'
        BY <2>2, <3>1 DEF Whole
    <3> QED
        BY <2>1, <3>2 DEF Stored, Trying, Working
  <2>4. CASE threw' /\ project' = project
      BY <2>1, <2>4 DEF Stored, Trying, Working
  <2> QED
      BY <1>5, <2>3, <2>4 DEF CopyBundle
<1>6. CASE RemoveDir
  <2>1. /\ UNCHANGED <<suite, results, counts, staged, stack, project, threw>> /\ pc = "remove"
        /\ pc' = IF threw THEN "failed" ELSE "score"
      BY <1>6 DEF RemoveDir
  <2>2. Whole' = Whole
      BY <1>w, <2>1
  <2> QED
      BY <2>1, <2>2 DEF Stored, Trying, Working
<1>7. CASE Score \/ WriteResult
  <2>1. /\ UNCHANGED <<suite, results, counts, staged, stack>> /\ pc' \in {"write", "failed", "done"}
        /\ Whole
      BY <1>7 DEF Score, WriteResult, Stored
  <2>2. Attested' /\ Result' = Result
      BY <1>k, <2>1, ResultsKept DEF Whole
  <2>3. \/ project' = [project EXCEPT !.score = Solved]
        \/ project' = [project EXCEPT !.result = Result]
        \/ project' = project
      BY <1>7 DEF Score, WriteResult
  <2>4. Whole'
    <3>1. PICK sc, re : project = [bundle |-> staged, score |-> sc, result |-> re] /\ re \in {Nothing, Result}
        BY <2>1 DEF Whole
    <3>2. \/ project' = [bundle |-> staged, score |-> Solved, result |-> re]
          \/ project' = [bundle |-> staged, score |-> sc, result |-> Result]
          \/ project' = [bundle |-> staged, score |-> sc, result |-> re]
        BY <2>3, <3>1
    <3> QED
        BY <2>1, <2>2, <3>1, <3>2 DEF Whole
  <2> QED
      BY <2>1, <2>4 DEF Stored, Trying, Working
<1>8. CASE Compares
  <2>1. pc' \notin Trying \cup {"start", "stage", "corpus"}
      BY <1>8, StoringStep DEF Storing
  <2>2. UNCHANGED <<suite, results, counts, staged, stack, project>>
      BY <1>8 DEF Compares, suiteVars
  <2>3. \A a, b : Compare(a, b) \notin {"close", "copy", "remove", "score", "write"}
      BY DEF Compare, SeesawDecision
  <2>4. pc' \notin {"close", "copy", "remove", "score", "write"}
      BY <1>8, <2>3 DEF Compares
  <2>5. Whole' = Whole
      BY <1>w, <2>2
  <2> QED
      BY <2>1, <2>2, <2>4, <2>5 DEF Stored
<1>9. CASE UNCHANGED goldenVars
  <2>1. UNCHANGED <<pc, suite, results, counts, staged, stack, project, threw>>
      BY <1>9 DEF goldenVars, suiteVars
  <2>2. Whole' = Whole /\ Attested' = Attested
      BY <1>k, <1>w, <2>1
  <2> QED
      BY <2>1, <2>2 DEF Stored
<1> QED
    BY <1>1, <1>2, <1>3, <1>4, <1>5, <1>6, <1>7, <1>8, <1>9, <1>10 DEF GoldenNext, Attempting

\* What a suite leaves in the project is whole, and its bundle says what happened (FailureAttested):
\* whichever step of it fails, for any suites, policies and numbers of attempts.
THEOREM FailuresAttested == GoldenSpec => []FailureAttested
<1>1. Stored => FailureAttested
  <2> SUFFICES ASSUME Stored PROVE FailureAttested
      OBVIOUS
  <2>1. CASE project = NoProject
    <3>1. project.bundle = NoBundle
        BY <2>1 DEF NoProject
    <3> QED
        BY <2>1, <3>1 DEF FailureAttested, NoProject
  <2>2. CASE Whole
    <3>1. /\ project.bundle = staged /\ stack = "closed"
          /\ \A t \in DOMAIN results : Len(results[t]) = Tries
          /\ project.result \in {Nothing, Result}
        BY <2>2 DEF Whole, Attested
    <3>2. /\ staged.status = GoldenRunStatus /\ staged.solved = Solved
          /\ staged.policy.counts = counts
        BY <2>2 DEF Whole, Attested, InForce
    <3>3. staged # NoBundle
      <4>1. GoldenRunStatus \in {"Failed", "Succeeded"}
          BY DEF GoldenRunStatus
      <4>2. NoBundle.status = "none"
          BY DEF NoBundle
      <4> QED
          BY <3>2, <4>1, <4>2
    <3>4. GoldenRunStatus = "Failed" <=> \E t \in DOMAIN results : \E i \in DOMAIN results[t] : results[t][i].error
        BY DEF GoldenRunStatus, Some
    <3>5. Result.solved = Solved
        BY DEF Result
    <3> QED
        BY <3>1, <3>2, <3>3, <3>4, <3>5 DEF FailureAttested
  <2> QED
      BY <2>1, <2>2 DEF Stored
<1>2. GoldenInit => TriedInOrder /\ Stored
    BY OrderBegins, StoredBegins
<1>3. TriedInOrder /\ Stored /\ [GoldenNext]_goldenVars => (TriedInOrder /\ Stored)'
    BY OrderStep, StoredStep
<1> QED
    BY <1>1, <1>2, <1>3, PTL DEF GoldenSpec

LEMMA PrecededKept ==
  ASSUME UNCHANGED suite, NEW i, NEW c, NEW actions
  PROVE Preceded(i, c, actions)' = Preceded(i, c, actions)
  BY DEF Preceded

\* What the policy's verdicts on an attempt's calls are (RefusalsHold).
THEOREM Refusing == GoldenSpec => []RefusalsHold
<1>1. ASSUME TriedInOrder, RefusalsHold, [GoldenNext]_goldenVars PROVE RefusalsHold'
  <2>1. CASE UNCHANGED <<suite, decided>>
      BY <1>1, <2>1, PrecededKept DEF RefusalsHold, Names, About
  <2>2. CASE decided' = {}
      BY <2>2 DEF RefusalsHold
  <2>3. CASE GateCall /\ ~ UNCHANGED <<suite, decided>> /\ decided' # {}
    <3>1. PICK answers : decided' = decided \cup {[call |-> call, verdict |-> Decide(Rules, call, suite.caseInsensitive, answers)]}
        BY <2>3 DEF GateCall, Errored, EndAttempt, NoAttempt
    <3> DEFINE v == Decide(Rules, call, suite.caseInsensitive, answers)
    <3>2. suite' = suite /\ suite \in Suites
        BY <1>1, <2>3 DEF GateCall, TriedInOrder
    <3>3. RuleList(suite.policy) /\ suite.caseInsensitive \in BOOLEAN
        BY <3>2, SuiteLists
    <3>4. ASSUME NEW i \in DOMAIN suite.policy, About(suite.policy[i], call)
          PROVE /\ (suite.policy[i].action # "Allow" /\ \E p \in call.paths : Names(suite.policy[i], p)) =>
                      v # "Allow" \/ Preceded(i, call, {"Allow"})
                /\ (suite.policy[i].action = "Deny" /\ \E p \in call.paths : p \in suite.policy[i].glob) =>
                      v = "Deny" \/ Preceded(i, call, {"Allow", "Escalate", "Deny"})
      <4>1. Bites(suite.policy[i], call)
          BY <3>4 DEF About, Bites
      <4>2. ASSUME suite.policy[i].action # "Allow", NEW p \in call.paths, Names(suite.policy[i], p)
            PROVE v # "Allow" \/ Preceded(i, call, {"Allow"})
        <5>1. PICK g \in suite.policy[i].glob : OneFile(g, p, suite.caseInsensitive)
            BY <4>2 DEF Names, OneFile
        <5>2. ASSUME NEW rules, NEW ci, rules = suite.policy, ci = suite.caseInsensitive
              PROVE \/ Decide(LoadRules(rules), call, ci, answers) # "Allow"
                    \/ \E j \in DOMAIN rules : /\ Before(rules, j, i) /\ rules[j].action = "Allow"
                                               /\ Concerns(rules[j], call, FALSE)
          <6>1. /\ RuleList(rules) /\ ci \in BOOLEAN /\ i \in DOMAIN rules /\ Bites(rules[i], call)
                /\ rules[i].action # "Allow" /\ g \in rules[i].glob /\ OneFile(g, p, ci)
              BY <3>3, <4>1, <4>2, <5>1, <5>2
          <6> QED
              BY <6>1, DecideRefuses
        <5> QED
            BY <5>2 DEF Preceded, Rules
      <4>3. ASSUME suite.policy[i].action = "Deny", NEW p \in call.paths, p \in suite.policy[i].glob
            PROVE v = "Deny" \/ Preceded(i, call, {"Allow", "Escalate", "Deny"})
        <5>1. \/ v = "Deny"
              \/ \E j \in DOMAIN suite.policy : Before(suite.policy, j, i) /\ Concerns(suite.policy[j], call, FALSE)
          <6>1. ASSUME NEW rules, NEW ci, rules = suite.policy, ci = suite.caseInsensitive
                PROVE \/ Decide(LoadRules(rules), call, ci, answers) = "Deny"
                      \/ \E j \in DOMAIN rules : Before(rules, j, i) /\ Concerns(rules[j], call, FALSE)
            <7>1. /\ RuleList(rules) /\ ci \in BOOLEAN /\ i \in DOMAIN rules /\ Bites(rules[i], call)
                  /\ rules[i].action = "Deny" /\ p \in rules[i].glob
                BY <3>3, <4>1, <4>3, <6>1
            <7> QED
                BY <7>1, DecideDenies
          <6> QED
              BY <6>1 DEF Rules
        <5>2. CASE v = "Deny"
            BY <5>2
        <5>3. ASSUME NEW j \in DOMAIN suite.policy, Before(suite.policy, j, i), Concerns(suite.policy[j], call, FALSE)
              PROVE Preceded(i, call, {"Allow", "Escalate", "Deny"})
          <6>1. suite.policy[j].action \in {"Allow", "Escalate", "Deny"}
              BY <3>3, <5>3 DEF RuleList
          <6> QED
              BY <5>3, <6>1 DEF Preceded
        <5> QED
            BY <5>1, <5>2, <5>3
      <4> QED
          BY <4>2, <4>3
    <3> HIDE DEF v
    <3> QED
      <4>1. ASSUME NEW d \in decided', NEW i \in DOMAIN suite.policy, About(suite.policy[i], d.call)
            PROVE /\ (suite.policy[i].action # "Allow" /\ \E p \in d.call.paths : Names(suite.policy[i], p)) =>
                        d.verdict # "Allow" \/ Preceded(i, d.call, {"Allow"})
                  /\ (suite.policy[i].action = "Deny" /\ \E p \in d.call.paths : p \in suite.policy[i].glob) =>
                        d.verdict = "Deny" \/ Preceded(i, d.call, {"Allow", "Escalate", "Deny"})
        <5>1. CASE d \in decided
            BY <1>1, <4>1, <5>1 DEF RefusalsHold
        <5>2. CASE d = [call |-> call, verdict |-> v]
            BY <3>4, <4>1, <5>2
        <5> QED
            BY <3>1, <4>1, <5>1, <5>2 DEF v
      <4> QED
          BY <3>2, <4>1, PrecededKept DEF RefusalsHold, Names, About
  <2>4. CASE ~ GateCall
    <3>1. CASE Begin
        BY <1>1, <2>2, <3>1 DEF Begin, attemptVars, TriedInOrder
    <3>2. CASE Attempting
        BY <2>1, <2>2, <2>4, <3>2 DEF Attempting, BeginAttempt, Dispatch, Turn, AgentEnds, Measure, Verify, Judged,
                                      Errored, EndAttempt, NoAttempt, attemptVars
    <3>3. CASE Storing
        BY <2>1, <3>3, StoringStep DEF attemptVars
    <3>4. CASE Stage \/ LoadCorpus \/ UNCHANGED goldenVars
        BY <2>1, <3>4 DEF Stage, LoadCorpus, attemptVars, goldenVars
    <3> QED
        BY <1>1, <3>1, <3>2, <3>3, <3>4 DEF GoldenNext, Attempting, Storing
  <2> QED
      BY <2>1, <2>2, <2>3, <2>4
<1>2. GoldenInit => RefusalsHold
    BY DEF GoldenInit, RefusalsHold
<1>3. GoldenInit => TriedInOrder /\ RefusalsHold
    BY <1>2, OrderBegins
<1>4. TriedInOrder /\ RefusalsHold /\ [GoldenNext]_goldenVars => (TriedInOrder /\ RefusalsHold)'
    BY <1>1, OrderStep
<1> QED
    BY <1>3, <1>4, PTL DEF GoldenSpec

-----------------------------------------------------------------------------
(* What an attempt is judged by.                                             *)

\* The place of the verdict on the protected files, if there are any.
Offset == IF Task.mustNotModify = {} THEN 0 ELSE 1

\* What diff-match asks of a change.
Found(v, change) == v.mustContain \subseteq Files(change) /\ v.mustNotContain \intersect Files(change) = {}

Judging ==
  /\ pc = "measure" => left = tree
  /\ pc = "verify" =>
       /\ diff = left /\ outcomes \in Seq(BOOLEAN)
       /\ Asked \in 0 .. Len(Task.verifiers)
       /\ Task.mustNotModify # {} => outcomes[1] = Untouched(left, Task.mustNotModify)
       /\ \A k \in 1 .. Asked : Task.verifiers[k].kind = "diff-match" =>
             outcomes[Offset + k] = Found(Task.verifiers[k], left)

\* A verifier says yes or no, and diff-match what the measured change is.
LEMMA VerifierSays ==
  ASSUME NEW v, v.kind \in {"test-script", "diff-match", "security-gate", "llm-judge"}, NEW b \in Verdicts(v)
  PROVE b \in BOOLEAN /\ (v.kind = "diff-match" => b = Found(v, diff))
<1>1. CASE v.kind = "test-script"
  <2>1. b = (v.needs \subseteq Files(tree))
      BY <1>1 DEF Verdicts
  <2> QED
      BY <1>1, <2>1
<1>2. CASE v.kind = "diff-match"
  <2>1. b = Found(v, diff)
      BY <1>2 DEF Verdicts, Subject, Found
  <2>2. Found(v, diff) \in BOOLEAN
      BY DEF Found
  <2> QED
      BY <2>1, <2>2
<1>3. CASE v.kind = "security-gate"
  <2>1. PICK w \in Worst(Subject(diff, tree)) : b = SeverityAtMost(w, v.maxSeverity)
      BY <1>3 DEF Verdicts
  <2>2. SeverityAtMost(w, v.maxSeverity) \in BOOLEAN
      BY DEF SeverityAtMost
  <2> QED
      BY <1>3, <2>1, <2>2
<1>4. CASE v.kind = "llm-judge"
  <2>1. PICK a \in JudgeAnswers : b = (a = "pass")
      BY <1>4 DEF Verdicts
  <2> QED
      BY <1>4, <2>1
<1> QED
    BY <1>1, <1>2, <1>3, <1>4

LEMMA NoneFails ==
  ASSUME NEW s \in Seq(BOOLEAN)
  PROVE FALSE \notin ToSet(s) <=> \A i \in 1 .. Len(s) : s[i]
<1>1. DOMAIN s = 1 .. Len(s) /\ \A i \in 1 .. Len(s) : s[i] \in BOOLEAN
    BY LenProperties, ElementOfSeq
<1>2. ASSUME NEW i \in 1 .. Len(s), ~ s[i] PROVE FALSE \in ToSet(s)
  <2>1. s[i] = FALSE
      BY <1>1, <1>2
  <2> QED
      BY <1>1, <2>1 DEF ToSet
<1>3. ASSUME FALSE \in ToSet(s) PROVE \E i \in 1 .. Len(s) : ~ s[i]
  <2>1. PICK i \in DOMAIN s : s[i] = FALSE
      BY <1>3 DEF ToSet
  <2> QED
      BY <1>1, <2>1
<1> QED
    BY <1>2, <1>3

\* The task at hand has a list of verifiers of four kinds.
LEMMA TaskLists ==
  ASSUME TriedInOrder, pc \in Working
  PROVE /\ suite \in Suites /\ task \in DOMAIN suite.corpus
        /\ Len(Task.verifiers) \in Nat /\ DOMAIN Task.verifiers = 1 .. Len(Task.verifiers)
        /\ \A k \in DOMAIN Task.verifiers : Task.verifiers[k].kind \in {"test-script", "diff-match", "security-gate", "llm-judge"}
<1>1. suite \in Suites /\ task \in DOMAIN suite.corpus
    BY DEF TriedInOrder, Working
<1>2. /\ Task.verifiers \in Seq(ToSet(Task.verifiers))
      /\ \A k \in DOMAIN Task.verifiers : Task.verifiers[k].kind \in {"test-script", "diff-match", "security-gate", "llm-judge"}
    BY <1>1, SuiteLists DEF Lists, Task
<1> QED
    BY <1>1, <1>2, LenProperties

\* The verdict of an attempt whose verifiers have all been asked.
LEMMA JudgedOnItsWork ==
  ASSUME TriedInOrder, Judging, pc = "verify", Asked = Len(Task.verifiers)
  PROVE PassedOnItsWork(Verdict, Task)
<1> DEFINE n == Len(Task.verifiers)
<1>1. n \in Nat /\ DOMAIN Task.verifiers = 1 .. n
    BY TaskLists DEF Working
<1>2. /\ outcomes \in Seq(BOOLEAN) /\ Len(outcomes) \in Nat /\ Len(outcomes) = Offset + n /\ Offset \in {0, 1}
  <2>1. outcomes \in Seq(BOOLEAN)
      BY DEF Judging
  <2>2. Len(outcomes) \in Nat /\ Asked = Len(outcomes) - Offset
      BY <2>1, LenProperties DEF Asked, Offset
  <2> QED
      BY <1>1, <2>1, <2>2 DEF Offset
<1>3. FALSE \notin ToSet(outcomes) <=> \A i \in 1 .. Len(outcomes) : outcomes[i]
    BY <1>2, NoneFails
<1>4. \A k \in 1 .. n : Task.verifiers[k].kind = "diff-match" => outcomes[Offset + k] = Found(Task.verifiers[k], left)
    BY DEF Judging
<1>5. Task.mustNotModify # {} => outcomes[1] = Untouched(left, Task.mustNotModify)
    BY DEF Judging
<1>6. Task.mustNotModify = {} => Untouched(left, Task.mustNotModify)
    BY DEF Untouched
<1>7. (\A i \in 1 .. Len(outcomes) : outcomes[i]) <=>
        /\ Untouched(left, Task.mustNotModify)
        /\ \A k \in 1 .. n : IF Task.verifiers[k].kind = "diff-match" THEN Found(Task.verifiers[k], left) ELSE outcomes[Offset + k]
  <2>1. CASE Task.mustNotModify = {}
    <3>1. Offset = 0
        BY <2>1 DEF Offset
    <3>2. \A k \in 1 .. n : Offset + k = k
        BY <3>1
    <3> HIDE DEF n
    <3> QED
        BY <1>1, <1>2, <1>4, <1>6, <2>1, <3>1, <3>2
  <2>2. CASE Task.mustNotModify # {}
    <3>1. Offset = 1
        BY <2>2 DEF Offset
    <3>2. \A i \in 1 .. Len(outcomes) : i = 1 \/ \E k \in 1 .. n : i = Offset + k
      <4> SUFFICES ASSUME NEW i \in 1 .. Len(outcomes), i # 1 PROVE \E k \in 1 .. n : i = Offset + k
          OBVIOUS
      <4>1. i - 1 \in 1 .. n /\ i = Offset + (i - 1)
          BY <1>1, <1>2, <3>1
      <4> QED
          BY <4>1
    <3>3. 1 \in 1 .. Len(outcomes) /\ \A k \in 1 .. n : Offset + k \in 1 .. Len(outcomes)
        BY <1>1, <1>2, <3>1
    <3> HIDE DEF n
    <3> QED
        BY <1>4, <1>5, <2>2, <3>2, <3>3
  <2> QED
      BY <2>1, <2>2
<1>8. Len(Verdict.outcomes) - n = Offset
    BY <1>1, <1>2 DEF Verdict
<1> HIDE DEF n
<1>9. Verdict.passed <=> \A i \in 1 .. Len(outcomes) : outcomes[i]
    BY <1>3 DEF Verdict
<1> QED
    BY <1>1, <1>7, <1>8, <1>9 DEF PassedOnItsWork, Verdict, Untouched, Found, n

LEMMA JudgingStep ==
  ASSUME TriedInOrder, Judging, [GoldenNext]_goldenVars
  PROVE Judging'
<1>1. CASE pc' \notin {"measure", "verify"}
    BY <1>1 DEF Judging
<1>2. CASE AgentEnds
    BY <1>2 DEF AgentEnds, Errored, EndAttempt, Judging
<1>3. CASE Measure /\ pc' = "verify"
  <2>1. /\ diff' = tree /\ left = tree /\ UNCHANGED <<suite, task, left>>
        /\ outcomes' = IF Task.mustNotModify = {} THEN <<>> ELSE <<Untouched(tree, Task.mustNotModify)>>
      BY <1>3 DEF Measure, Errored, EndAttempt, Judging
  <2>2. Task' = Task /\ Offset' = Offset
      BY <2>1 DEF Task, Offset
  <2>3. /\ outcomes' \in Seq(BOOLEAN) /\ Len(outcomes') = Offset
        /\ Task.mustNotModify # {} => outcomes'[1] = Untouched(left, Task.mustNotModify)
    <3>1. CASE Task.mustNotModify = {}
        BY <2>1, <3>1 DEF Offset
    <3>2. CASE Task.mustNotModify # {}
      <4>1. Untouched(tree, Task.mustNotModify) \in BOOLEAN
          BY DEF Untouched
      <4> QED
          BY <2>1, <3>2, <4>1 DEF Offset
    <3> QED
        BY <3>1, <3>2
  <2>4. Asked' = 0
    <3>1. Asked' = Len(outcomes') - Offset'
        BY DEF Asked, Offset
    <3> QED
        BY <2>2, <2>3, <3>1 DEF Offset
  <2>5. Len(Task.verifiers) \in Nat
      BY <1>3, TaskLists DEF Measure, Working
  <2> QED
      BY <1>3, <2>1, <2>2, <2>3, <2>4, <2>5 DEF Judging
<1>4. CASE Verify /\ pc' = "verify"
  <2> DEFINE v == Task.verifiers[Asked + 1]
  <2>1. /\ pc = "verify" /\ Asked < Len(Task.verifiers) /\ UNCHANGED <<suite, task, left, diff>>
        /\ \E b \in Verdicts(v) : outcomes' = Append(outcomes, b)
      BY <1>4 DEF Verify, Errored, EndAttempt
  <2>2. Task' = Task /\ Offset' = Offset /\ Offset \in {0, 1}
      BY <2>1 DEF Task, Offset
  <2>3. /\ Len(Task.verifiers) \in Nat /\ Asked \in 0 .. Len(Task.verifiers) /\ outcomes \in Seq(BOOLEAN)
        /\ Len(outcomes) \in Nat /\ Len(outcomes) = Offset + Asked /\ Asked + 1 \in DOMAIN Task.verifiers
    <3>1. /\ Len(Task.verifiers) \in Nat /\ DOMAIN Task.verifiers = 1 .. Len(Task.verifiers)
        BY <2>1, TaskLists DEF Working
    <3>2. Asked \in 0 .. Len(Task.verifiers) /\ outcomes \in Seq(BOOLEAN)
        BY <2>1 DEF Judging
    <3>3. Len(outcomes) \in Nat /\ Asked = Len(outcomes) - Offset
        BY <3>2, LenProperties DEF Asked, Offset
    <3> QED
        BY <2>1, <2>2, <3>1, <3>2, <3>3
  <2>4. PICK b \in Verdicts(v) : outcomes' = Append(outcomes, b)
      BY <2>1
  <2>5. b \in BOOLEAN /\ (v.kind = "diff-match" => b = Found(v, left))
    <3>1. v.kind \in {"test-script", "diff-match", "security-gate", "llm-judge"}
        BY <2>1, <2>3, TaskLists DEF Working
    <3>2. diff = left
        BY <2>1 DEF Judging
    <3> HIDE DEF v
    <3> QED
        BY <3>1, <3>2, VerifierSays
  <2>6. /\ outcomes' \in Seq(BOOLEAN) /\ Len(outcomes') = Len(outcomes) + 1
        /\ outcomes'[Len(outcomes) + 1] = b
        /\ \A i \in 1 .. Len(outcomes) : outcomes'[i] = outcomes[i]
      BY <2>3, <2>4, <2>5
  <2>7. Asked' = Asked + 1
    <3>1. Asked' = Len(outcomes') - Offset'
        BY DEF Asked, Offset
    <3> QED
        BY <2>2, <2>3, <2>6, <3>1
  <2>8. ASSUME NEW k \in 1 .. Asked + 1, Task.verifiers[k].kind = "diff-match"
        PROVE outcomes'[Offset + k] = Found(Task.verifiers[k], left)
    <3>1. CASE k = Asked + 1
      <4>1. Offset + k = Len(outcomes) + 1
          BY <2>2, <2>3, <3>1
      <4> QED
          BY <2>5, <2>6, <2>8, <3>1, <4>1
    <3>2. CASE k # Asked + 1
      <4>1. k \in 1 .. Asked /\ Offset + k \in 1 .. Len(outcomes)
          BY <2>2, <2>3, <3>2
      <4>2. outcomes[Offset + k] = Found(Task.verifiers[k], left)
          BY <2>1, <2>8, <4>1 DEF Judging
      <4> QED
          BY <2>6, <4>1, <4>2
    <3> QED
        BY <3>1, <3>2
  <2>9. Task.mustNotModify # {} => outcomes'[1] = Untouched(left, Task.mustNotModify)
    <3> SUFFICES ASSUME Task.mustNotModify # {} PROVE outcomes'[1] = Untouched(left, Task.mustNotModify)
        OBVIOUS
    <3>1. 1 \in 1 .. Len(outcomes)
        BY <2>3 DEF Offset
    <3> QED
        BY <2>1, <2>6, <3>1 DEF Judging
  <2>10. diff' = left'
      BY <2>1 DEF Judging
  <2>11. Asked' \in 0 .. Len(Task.verifiers)
      BY <2>1, <2>3, <2>7
  <2> QED
      BY <1>4, <2>1, <2>2, <2>6, <2>7, <2>8, <2>9, <2>10, <2>11 DEF Judging
<1>5. CASE UNCHANGED goldenVars
    BY <1>5 DEF goldenVars, attemptVars, Judging, Asked, Offset, Task, Untouched
<1>6. CASE Attempting
  <2>1. CASE pc' = "attempt"
      BY <1>1, <2>1
  <2>2. CASE BeginAttempt \/ Dispatch \/ Turn \/ GateCall \/ Judged
      BY <1>1, <2>2 DEF BeginAttempt, Dispatch, Turn, GateCall, Judged, Errored, EndAttempt
  <2>3. CASE pc' # "attempt" /\ (Measure \/ Verify)
    <3>1. pc' = "verify"
        BY <2>3 DEF Measure, Verify, Errored, EndAttempt
    <3> QED
        BY <1>3, <1>4, <2>3, <3>1
  <2> QED
      BY <1>2, <1>6, <2>1, <2>2, <2>3 DEF Attempting
<1>7. CASE Begin \/ Stage \/ LoadCorpus
    BY <1>1, <1>7 DEF Begin, Stage, LoadCorpus
<1>8. CASE Storing
  <2>1. pc' \notin Trying
      BY <1>8, StoringStep
  <2> QED
      BY <1>1, <2>1 DEF Trying, Working
<1> QED
    BY <1>5, <1>6, <1>7, <1>8 DEF GoldenNext, Attempting, Storing

\* An attempt that was judged passed exactly when its verifiers and the protected files pass what the
\* agent left (VerdictIsOfTheWork): for any verifiers, whatever they leave in the tree.
THEOREM VerdictsOfTheWork == GoldenSpec => []VerdictIsOfTheWork
<1>1. ASSUME TriedInOrder, Judging, VerdictIsOfTheWork, [GoldenNext]_goldenVars
      PROVE VerdictIsOfTheWork'
  <2>1. CASE UNCHANGED <<suite, results>>
      BY <1>1, <2>1 DEF VerdictIsOfTheWork
  <2>2. CASE Attempting /\ ~ UNCHANGED results
    <3>1. PICK r : EndAttempt(r) /\ (r.error \/ PassedOnItsWork(r, Task))
      <4>1. CASE EndAttempt(Failing)
          BY <4>1 DEF Failing
      <4>2. CASE pc = "verify" /\ Asked = Len(Task.verifiers) /\ EndAttempt(Verdict)
          BY <1>1, <4>2, JudgedOnItsWork
      <4> QED
          BY <2>2, <4>1, <4>2, AttemptStep DEF GoesOn
    <3>2. pc \in Trying /\ UNCHANGED suite /\ (pc = "attempt" => Tries > 0 /\ task <= Len(suite.corpus))
        BY <2>2, AttemptStep
    <3>3. Tries > 0 /\ task <= Len(suite.corpus)
      <4>1. pc # "attempt" => pc \in Working /\ pc # "start"
          BY <3>2 DEF Trying, Working
      <4> QED
          BY <1>1, <3>2, <4>1, SuiteLists DEF TriedInOrder
    <3>4. /\ DOMAIN results' = DOMAIN results
          /\ \A t \in DOMAIN results : \A i \in DOMAIN results'[t] :
                (results'[t][i] = r /\ t = task) \/ (i \in DOMAIN results[t] /\ results'[t][i] = results[t][i])
        BY <1>1, <3>1, <3>2, <3>3, NextTry
    <3> QED
        BY <1>1, <3>1, <3>2, <3>4 DEF VerdictIsOfTheWork, Task
  <2>3. CASE Begin
    <3>1. PICK s \in Suites : results' = [t \in DOMAIN s.corpus |-> <<>>]
        BY <2>3 DEF Begin
    <3> QED
        BY <3>1 DEF VerdictIsOfTheWork
  <2>4. CASE Stage \/ LoadCorpus \/ UNCHANGED goldenVars
      BY <2>1, <2>4 DEF Stage, LoadCorpus, goldenVars
  <2>5. CASE Storing
      BY <2>1, <2>5, StoringStep
  <2>6. CASE Attempting /\ UNCHANGED results
      BY <2>1, <2>6, AttemptStep
  <2> QED
      BY <1>1, <2>2, <2>3, <2>4, <2>5, <2>6 DEF GoldenNext, Attempting, Storing
<1>2. GoldenInit => TriedInOrder /\ Judging /\ VerdictIsOfTheWork
    BY OrderBegins DEF GoldenInit, Judging, VerdictIsOfTheWork
<1>3. TriedInOrder /\ Judging /\ VerdictIsOfTheWork /\ [GoldenNext]_goldenVars
        => (TriedInOrder /\ Judging /\ VerdictIsOfTheWork)'
    BY <1>1, OrderStep, JudgingStep
<1> QED
    BY <1>2, <1>3, PTL DEF GoldenSpec

-----------------------------------------------------------------------------
(* What a scripted attempt comes to, when nothing fails: it is determined by *)
(* the suite and the task.                                                   *)

\* The k-th call of the script as the attempt makes it, and which of the first n it may make.
Turned(s, t, k) == [s.corpus[t].script[k] EXCEPT !.role = s.corpus[t].role]
Granted(s, t, n) == {k \in 1 .. n : s.corpus[t].script[k].tool \in RoleTools(s.corpus[t].role)}

\* The tools the graph has by then, and what the policy says to the k-th call.
Invoked(s, t, n) == {Turned(s, t, k).tool : k \in Granted(s, t, n)}
Held(s, t, k) == IF Turned(s, t, k).tool \in Invoked(s, t, k - 1) THEN "match" ELSE "nomatch"
VerdictAt(s, t, k) ==
  Decide(LoadRules(s.policy), Turned(s, t, k), s.caseInsensitive, <<Held(s, t, k), Held(s, t, k)>>)
DecidedAt(s, t, n) == {[call |-> Turned(s, t, k), verdict |-> VerdictAt(s, t, k)] : k \in Granted(s, t, n)}

\* What the first n calls change.
Wrote(s, t, k) ==
  IF VerdictAt(s, t, k) = "Allow" /\ Turned(s, t, k).tool # "fs.read"
  THEN {Lands(p, s.caseInsensitive) : p \in Turned(s, t, k).paths} ELSE {}
TreeAt(s, t, n) == UNION {Wrote(s, t, k) : k \in Granted(s, t, n)}

\* What the agent leaves, what the first n verifiers make of the tree, and what they say of the change.
LeftAt(s, t) == TreeAt(s, t, Len(s.corpus[t].script))
Strewn(s, t, n) ==
  LeftAt(s, t) \cup UNION {IF s.corpus[t].verifiers[k].kind = "test-script" THEN s.corpus[t].verifiers[k].leaves ELSE {} : k \in 1 .. n}
Says(v, change, now) ==
  IF v.kind = "test-script" THEN v.needs \subseteq Files(now)
  ELSE IF v.kind = "diff-match" THEN Found(v, change)
  ELSE v.kind = "security-gate" /\ SeverityAtMost("none", v.maxSeverity)
Said(s, t, k) == Says(s.corpus[t].verifiers[k], LeftAt(s, t), Strewn(s, t, k - 1))
Protects(s, t) == IF s.corpus[t].mustNotModify = {} THEN 0 ELSE 1
SaidOf(s, t, i) ==
  IF i = 1 /\ Protects(s, t) = 1 THEN Untouched(LeftAt(s, t), s.corpus[t].mustNotModify) ELSE Said(s, t, i - Protects(s, t))
Outcome(s, t, n) == [i \in 1 .. n |-> SaidOf(s, t, i)]

\* Whether the attempt begins at all, and whether it comes to be judged.
Runs(s, t) == s.corpus[t].role # "unknown" /\ Builds(s.bundle)
Works(s, t) ==
  IF s.corpus[t].role = "coder" THEN LeftAt(s, t) # {}
  ELSE \E d \in DecidedAt(s, t, Len(s.corpus[t].script)) : d.verdict = "Allow"
Finishes(s, t) == Runs(s, t) /\ Len(s.corpus[t].script) < MaxTurns /\ Works(s, t)

JudgedAt(s, t) ==
  LET found == Outcome(s, t, Protects(s, t) + Len(s.corpus[t].verifiers))
  IN  [passed |-> FALSE \notin ToSet(found), error |-> FALSE, left |-> LeftAt(s, t), outcomes |-> found]
Expected(s, t) == IF Finishes(s, t) THEN JudgedAt(s, t) ELSE Failing

\* Where such an attempt is.
Turning ==
  /\ Runs(suite, task) /\ taken \in 0 .. Len(Task.script) /\ taken <= MaxTurns
  /\ graph = Invoked(suite, task, taken) /\ decided = DecidedAt(suite, task, taken)
  /\ tree = TreeAt(suite, task, taken)

Calling ==
  /\ taken < Len(Task.script) /\ taken < MaxTurns
  /\ call = Turned(suite, task, taken + 1) /\ taken + 1 \in Granted(suite, task, taken + 1)

Measuring == Finishes(suite, task) /\ left = LeftAt(suite, task)

Asking ==
  /\ diff = LeftAt(suite, task) /\ tree = Strewn(suite, task, Asked)
  /\ outcomes = Outcome(suite, task, Len(outcomes))

OnCourse ==
  /\ \A t \in DOMAIN results : \A i \in DOMAIN results[t] : results[t][i] = Expected(suite, t)
  /\ pc \in {"turn", "gate"} => Turning
  /\ pc = "gate" => Calling
  /\ pc \in {"measure", "verify"} => Measuring
  /\ pc = "verify" => Asking

Determined ==
  /\ pc \in {"start", "stage", "corpus", "attempt", "dispatch"} => taken = 0 /\ decided = {} /\ tree = {}
  /\ pc # "start" /\ Scripted /\ ~ faulted => OnCourse

\* Nothing is invoked before the first call, and one more with each that is granted.
LEMMA NoCallYet ==
  ASSUME NEW s, NEW t
  PROVE Invoked(s, t, 0) = {} /\ DecidedAt(s, t, 0) = {} /\ TreeAt(s, t, 0) = {}
<1>1. Granted(s, t, 0) = {}
    BY DEF Granted
<1> QED
    BY <1>1 DEF Invoked, DecidedAt, TreeAt

LEMMA OneMoreCall ==
  ASSUME NEW s, NEW t, NEW n \in Nat, n + 1 \in Granted(s, t, n + 1)
  PROVE /\ Invoked(s, t, n + 1) = Invoked(s, t, n) \cup {Turned(s, t, n + 1).tool}
        /\ DecidedAt(s, t, n + 1) =
             DecidedAt(s, t, n) \cup {[call |-> Turned(s, t, n + 1), verdict |-> VerdictAt(s, t, n + 1)]}
        /\ TreeAt(s, t, n + 1) = TreeAt(s, t, n) \cup Wrote(s, t, n + 1)
<1>1. Granted(s, t, n + 1) = Granted(s, t, n) \cup {n + 1}
    BY DEF Granted
<1>2. Invoked(s, t, n + 1) = Invoked(s, t, n) \cup {Turned(s, t, n + 1).tool}
    BY <1>1 DEF Invoked
<1>3. DecidedAt(s, t, n + 1) =
        DecidedAt(s, t, n) \cup {[call |-> Turned(s, t, n + 1), verdict |-> VerdictAt(s, t, n + 1)]}
    BY <1>1 DEF DecidedAt
<1>4. TreeAt(s, t, n + 1) = TreeAt(s, t, n) \cup Wrote(s, t, n + 1)
    BY <1>1 DEF TreeAt
<1> QED
    BY <1>2, <1>3, <1>4

LEMMA SkippedCall ==
  ASSUME NEW s, NEW t, NEW n \in Nat, n + 1 \notin Granted(s, t, n + 1)
  PROVE /\ Invoked(s, t, n + 1) = Invoked(s, t, n) /\ DecidedAt(s, t, n + 1) = DecidedAt(s, t, n)
        /\ TreeAt(s, t, n + 1) = TreeAt(s, t, n)
<1>1. Granted(s, t, n + 1) = Granted(s, t, n)
    BY DEF Granted
<1> QED
    BY <1>1 DEF Invoked, DecidedAt, TreeAt

\* A scripted task's script is a list of calls; what a call's role is made does not change its tool.
LEMMA ScriptLists ==
  ASSUME NEW s \in Suites, NEW t \in DOMAIN s.corpus, s.agent = "scripted"
  PROVE /\ Len(s.corpus[t].script) \in Nat
        /\ \A k \in 1 .. Len(s.corpus[t].script) :
              /\ s.corpus[t].script[k] \in Calls /\ s.corpus[t].script[k] # Nothing
              /\ Turned(s, t, k).tool = s.corpus[t].script[k].tool
<1>1. s.corpus[t].script \in Seq(Calls)
    BY SuiteLists DEF Lists
<1>2. Len(s.corpus[t].script) \in Nat /\ \A k \in 1 .. Len(s.corpus[t].script) : s.corpus[t].script[k] \in Calls
    BY <1>1, LenProperties, ElementOfSeq
<1>3. \A c \in Calls : DOMAIN c = {"tool", "paths", "role"} /\ c # Nothing
    BY SuitesAssumption
<1> QED
    BY <1>2, <1>3 DEF Turned

\* What a scripted verifier says is one thing.
LEMMA ScriptedSays ==
  ASSUME Scripted, NEW v, v.kind \in {"test-script", "diff-match", "security-gate", "llm-judge"}, NEW b \in Verdicts(v)
  PROVE b = Says(v, diff, tree)
<1>1. CASE v.kind = "test-script"
    BY <1>1 DEF Verdicts, Says
<1>2. CASE v.kind = "diff-match"
    BY <1>2 DEF Verdicts, Says, Subject, Found
<1>3. CASE v.kind = "security-gate"
  <2>1. Worst(Subject(diff, tree)) = {"none"}
      BY DEF Worst
  <2>2. b = SeverityAtMost("none", v.maxSeverity)
      BY <1>3, <2>1 DEF Verdicts
  <2>3. SeverityAtMost("none", v.maxSeverity) \in BOOLEAN
      BY DEF SeverityAtMost
  <2> QED
      BY <1>3, <2>2, <2>3 DEF Says
<1>4. CASE v.kind = "llm-judge"
    BY <1>4 DEF Verdicts, Says, JudgeAnswers
<1> QED
    BY <1>1, <1>2, <1>3, <1>4

LEMMA DeterminedBegins == GoldenInit => Determined
  BY DEF GoldenInit, Determined

\* What is established of the results stays while no attempt ends.
LEMMA ResultsAsExpected ==
  ASSUME OnCourse, UNCHANGED <<suite, results>>
  PROVE \A t \in DOMAIN results' : \A i \in DOMAIN results'[t] : results'[t][i] = Expected(suite', t)
  BY DEF OnCourse

\* The steps of the suite around its attempts.
LEMMA DeterminedAround ==
  ASSUME TriedInOrder, Determined, Begin \/ Stage \/ LoadCorpus \/ Storing \/ UNCHANGED goldenVars
  PROVE Determined'
<1>1. CASE Begin
  <2>1. PICK s \in Suites : suite' = s /\ results' = [t \in DOMAIN s.corpus |-> <<>>] /\ pc' \in {"stage", "failed"}
      BY <1>1 DEF Begin
  <2>2. taken' = 0 /\ decided' = {} /\ tree' = {}
      BY <1>1 DEF Begin, attemptVars, Determined
  <2>3. OnCourse'
      BY <2>1 DEF OnCourse
  <2> QED
      BY <2>2, <2>3 DEF Determined
<1>2. CASE Stage \/ LoadCorpus
  <2>1. /\ UNCHANGED <<suite, results, taken, decided, tree>> /\ pc # "start" /\ (~ faulted' => ~ faulted)
        /\ taken = 0 /\ decided = {} /\ tree = {}
        /\ pc' \in {"corpus", "attempt", "remove", "close"}
      BY <1>2 DEF Stage, LoadCorpus, attemptVars, Determined, Fault
  <2>2. ASSUME Scripted', ~ faulted' PROVE OnCourse'
    <3>1. OnCourse
        BY <2>1, <2>2 DEF Determined, Scripted
    <3> QED
        BY <2>1, <3>1, ResultsAsExpected DEF OnCourse
  <2> QED
      BY <2>1, <2>2 DEF Determined
<1>3. CASE Storing
  <2>1. /\ UNCHANGED <<suite, results>> /\ pc # "start"
        /\ pc' \notin Trying \cup {"start", "stage", "corpus"}
      BY <1>3, StoringStep
  <2>2. ~ faulted' => ~ faulted
      BY <1>3 DEF Storing, NoDirectory, Attest, Close, CopyBundle, RemoveDir, Score, WriteResult, Compares, Fault
  <2>3. ASSUME Scripted', ~ faulted' PROVE OnCourse'
    <3>1. OnCourse
        BY <2>1, <2>2, <2>3 DEF Determined, Scripted
    <3> QED
        BY <2>1, <3>1, ResultsAsExpected DEF OnCourse, Trying, Working
  <2> QED
      BY <2>1, <2>3 DEF Determined, Trying, Working
<1>4. CASE UNCHANGED goldenVars
  <2>1. /\ UNCHANGED <<pc, suite, task, results, taken, call, graph, decided, tree, left, diff, outcomes, faulted>>
      BY <1>4 DEF goldenVars, attemptVars
  <2>2. OnCourse' = OnCourse
      BY <2>1 DEF OnCourse, Turning, Calling, Measuring, Asking, Asked, Task
  <2> QED
      BY <2>1, <2>2 DEF Determined, Scripted
<1> QED
    BY <1>1, <1>2, <1>3, <1>4

\* The end of an attempt, with the result that was expected.
LEMMA EndsAsExpected ==
  ASSUME TriedInOrder, Determined, Attempting, NEW r, EndAttempt(r), ~ faulted' => ~ faulted,
         Scripted /\ ~ faulted' => r = Expected(suite, task)
  PROVE Determined'
<1>1. /\ pc \in Trying /\ UNCHANGED suite /\ pc # "start" /\ pc' = "attempt"
      /\ pc = "attempt" => Tries > 0 /\ task <= Len(suite.corpus)
    BY AttemptStep DEF Trying, Working, EndAttempt
<1>2. Tries > 0 /\ task <= Len(suite.corpus)
  <2>1. pc # "attempt" => pc \in Working
      BY <1>1 DEF Trying
  <2> QED
      BY <1>1, <2>1, SuiteLists DEF TriedInOrder
<1>3. /\ DOMAIN results' = DOMAIN results
      /\ \A t \in DOMAIN results : \A i \in DOMAIN results'[t] :
            (results'[t][i] = r /\ t = task) \/ (i \in DOMAIN results[t] /\ results'[t][i] = results[t][i])
    BY <1>1, <1>2, NextTry
<1>4. taken' = 0 /\ decided' = {} /\ tree' = {}
    BY DEF EndAttempt, NoAttempt
<1>5. ASSUME Scripted', ~ faulted' PROVE OnCourse'
  <2>1. OnCourse /\ r = Expected(suite, task)
      BY <1>1, <1>5 DEF Determined, Scripted
  <2>2. \A t \in DOMAIN results' : \A i \in DOMAIN results'[t] : results'[t][i] = Expected(suite', t)
      BY <1>1, <1>3, <2>1 DEF OnCourse
  <2> QED
      BY <1>1, <2>2 DEF OnCourse
<1> QED
    BY <1>4, <1>5 DEF Determined

\* A step within an attempt.
LEMMA GoesAsExpected ==
  ASSUME TriedInOrder, Determined, Attempting, GoesOn, ~ faulted' => ~ faulted,
         pc' = "dispatch" => taken' = 0 /\ decided' = {} /\ tree' = {},
         OnCourse /\ Scripted /\ ~ faulted' =>
           /\ pc' \in {"turn", "gate"} => Turning'
           /\ pc' = "gate" => Calling'
           /\ pc' \in {"measure", "verify"} => Measuring'
           /\ pc' = "verify" => Asking'
  PROVE Determined'
<1>1. /\ pc \in Trying /\ pc # "start" /\ UNCHANGED <<suite, results>> /\ pc' \in Working
    BY AttemptStep DEF Trying, Working, GoesOn
<1>2. ASSUME Scripted', ~ faulted' PROVE OnCourse'
  <2>1. OnCourse /\ Scripted
      BY <1>1, <1>2 DEF Determined, Scripted
  <2> QED
      BY <1>1, <1>2, <2>1, ResultsAsExpected DEF OnCourse
<1> QED
    BY <1>1, <1>2 DEF Determined, Working

LEMMA BeginAsExpected ==
  ASSUME TriedInOrder, Determined, BeginAttempt
  PROVE Determined'
<1>1. CASE pc' = "dispatch" /\ UNCHANGED <<task, results, attemptVars, faulted>>
  <2>1. GoesOn /\ taken' = 0 /\ decided' = {} /\ tree' = {}
      BY <1>1 DEF BeginAttempt, attemptVars, Determined, GoesOn, Working
  <2> QED
      BY <1>1, <2>1, GoesAsExpected DEF Attempting
<1>2. CASE Fault /\ Errored
    BY <1>2, EndsAsExpected DEF Fault, Errored, Attempting
<1> QED
    BY <1>1, <1>2 DEF BeginAttempt

LEMMA DispatchAsExpected ==
  ASSUME TriedInOrder, Determined, Dispatch
  PROVE Determined'
<1>0. Attempting /\ pc = "dispatch" /\ UNCHANGED suite
    BY DEF Attempting, Dispatch
<1>1. CASE pc' = "turn"
  <2>1. /\ UNCHANGED <<task, results, attemptVars, faulted>> /\ graph' = {}
        /\ Task.role # "unknown" /\ Builds(suite.bundle)
      BY <1>0, <1>1 DEF Dispatch, Emptied, Errored, EndAttempt
  <2>2. GoesOn /\ taken' = 0 /\ decided' = {} /\ tree' = {}
      BY <1>0, <1>1, <2>1 DEF attemptVars, Determined, GoesOn, Working
  <2>3. ASSUME Scripted PROVE Turning'
    <3>1. suite \in Suites /\ task \in DOMAIN suite.corpus
        BY <1>0, TaskLists DEF Working
    <3>2. 0 \in 0 .. Len(Task.script) /\ 0 <= MaxTurns
        BY <2>3, <3>1, ScriptLists, SuitesAssumption DEF Scripted, Task
    <3> QED
        BY <1>0, <2>1, <2>2, <3>2, NoCallYet DEF Turning, Task, Runs
  <2> QED
      BY <1>0, <1>1, <2>1, <2>2, <2>3, GoesAsExpected
<1>2. CASE pc' # "turn"
  <2>1. Errored /\ (faulted' \/ (faulted' = faulted /\ ~ Runs(suite, task)))
      BY <1>2 DEF Dispatch, Fault, Runs, Task
  <2>2. ~ Runs(suite, task) => Expected(suite, task) = Failing
      BY DEF Expected, Finishes
  <2>3. EndAttempt(Failing)
      BY <2>1 DEF Errored, Failing
  <2>4. ~ faulted' => ~ faulted /\ ~ Runs(suite, task)
      BY <2>1
  <2>5. Scripted /\ ~ faulted' => Failing = Expected(suite, task)
      BY <2>2, <2>4
  <2> QED
      BY <1>0, <2>3, <2>4, <2>5, EndsAsExpected
<1> QED
    BY <1>1, <1>2

LEMMA TurnAsExpected ==
  ASSUME TriedInOrder, Determined, Turn
  PROVE Determined'
<1>1. /\ Attempting /\ GoesOn /\ pc = "turn" /\ pc' \in {"turn", "gate"} /\ taken < MaxTurns
      /\ UNCHANGED <<suite, task, decided, tree, graph, faulted>>
    BY DEF Attempting, Turn, GoesOn, Working
<1>2. ASSUME OnCourse, Scripted PROVE Turning' /\ (pc' = "gate" => Calling')
  <2>1. Turning /\ suite \in Suites /\ task \in DOMAIN suite.corpus
      BY <1>1, <1>2, TaskLists DEF OnCourse, Working
  <2>2. Len(Task.script) \in Nat /\ MaxTurns \in Nat
      BY <1>2, <2>1, ScriptLists, SuitesAssumption DEF Scripted, Task
  <2>3. PICK c \in Steps \ {Nothing} :
           IF c.tool \in RoleTools(Task.role)
           THEN call' = [c EXCEPT !.role = Task.role] /\ pc' = "gate" /\ UNCHANGED taken
           ELSE taken' = taken + 1 /\ UNCHANGED <<call, pc>>
      BY DEF Turn
  <2>4. taken < Len(Task.script) /\ c = Task.script[taken + 1]
      BY <1>2, <2>3 DEF Steps
  <2>5. taken \in Nat /\ taken + 1 \in 1 .. Len(Task.script) /\ taken + 1 <= MaxTurns
      BY <1>1, <2>1, <2>2, <2>4 DEF Turning
  <2>6. taken + 1 \in Granted(suite, task, taken + 1) <=> c.tool \in RoleTools(Task.role)
      BY <2>4, <2>5 DEF Granted, Task
  <2>7. CASE c.tool \in RoleTools(Task.role)
    <3>1. call' = Turned(suite, task, taken + 1) /\ pc' = "gate" /\ taken' = taken
        BY <2>3, <2>4, <2>7 DEF Turned, Task
    <3> QED
        BY <1>1, <2>1, <2>4, <2>6, <2>7, <3>1 DEF Turning, Calling, Task
  <2>8. CASE c.tool \notin RoleTools(Task.role)
    <3>1. taken' = taken + 1 /\ pc' = "turn"
        BY <1>1, <2>3, <2>8
    <3> QED
        BY <1>1, <2>1, <2>5, <2>6, <2>8, <3>1, SkippedCall DEF Turning, Task
  <2> QED
      BY <2>7, <2>8
<1> QED
    BY <1>1, <1>2, GoesAsExpected

LEMMA GateAsExpected ==
  ASSUME TriedInOrder, Determined, GateCall
  PROVE Determined'
<1>0. Attempting /\ pc = "gate" /\ UNCHANGED suite
    BY DEF Attempting, GateCall
<1>1. CASE pc' = "turn"
  <2> DEFINE verdict(answers) == Decide(Rules, call, suite.caseInsensitive, answers)
  <2>1. PICK answers \in Answers :
           /\ decided' = decided \cup {[call |-> call, verdict |-> verdict(answers)]}
           /\ tree' = IF verdict(answers) = "Allow" /\ call.tool # "fs.read"
                      THEN tree \cup {Lands(p, suite.caseInsensitive) : p \in call.paths} ELSE tree
           /\ graph' = graph \cup {call.tool}
           /\ faulted' = (faulted \/ "error" \in ToSet(answers))
           /\ taken' = taken + 1 /\ UNCHANGED <<task, results>>
      BY <1>1 DEF GateCall, Errored, EndAttempt
  <2>2. GoesOn
      BY <1>1, <2>1 DEF GoesOn, Working
  <2>3. ASSUME OnCourse, Scripted, ~ faulted' PROVE Turning'
    <3> DEFINE n == taken + 1
               holds == IF call.tool \in graph THEN "match" ELSE "nomatch"
    <3>1. Turning /\ Calling
        BY <1>0, <2>3 DEF OnCourse
    <3>2. suite \in Suites /\ task \in DOMAIN suite.corpus
        BY <1>0, TaskLists DEF Working
    <3>3. Len(Task.script) \in Nat /\ MaxTurns \in Nat
        BY <2>3, <3>2, ScriptLists, SuitesAssumption DEF Scripted, Task
    <3>4. taken \in Nat /\ n - 1 = taken /\ n \in 0 .. Len(Task.script) /\ n <= MaxTurns
        BY <3>1, <3>3 DEF Turning, Calling
    <3>5. answers = <<holds, holds>>
      <4>1. "error" \notin ToSet(answers)
          BY <2>1, <2>3
      <4>2. answers \in {<<holds, holds>>, <<"error", holds>>, <<holds, "error">>}
          BY DEF Answers
      <4>3. "error" \in ToSet(<<"error", holds>>) /\ "error" \in ToSet(<<holds, "error">>)
          BY DEF ToSet
      <4> QED
          BY <4>1, <4>2, <4>3
    <3>6. holds = Held(suite, task, n)
        BY <3>1, <3>4 DEF Held, Turning, Calling
    <3>7. verdict(answers) = VerdictAt(suite, task, n)
        BY <3>1, <3>5, <3>6 DEF VerdictAt, Rules, Calling
    <3>8. n \in Granted(suite, task, n) /\ call = Turned(suite, task, n)
        BY <3>1 DEF Calling
    <3>9. (IF verdict(answers) = "Allow" /\ call.tool # "fs.read"
           THEN tree \cup {Lands(p, suite.caseInsensitive) : p \in call.paths} ELSE tree)
          = tree \cup Wrote(suite, task, n)
        BY <3>7, <3>8 DEF Wrote
    <3> HIDE DEF verdict, holds
    <3>10. /\ Invoked(suite, task, n) = Invoked(suite, task, taken) \cup {Turned(suite, task, n).tool}
           /\ DecidedAt(suite, task, n) =
                DecidedAt(suite, task, taken) \cup {[call |-> Turned(suite, task, n), verdict |-> VerdictAt(suite, task, n)]}
           /\ TreeAt(suite, task, n) = TreeAt(suite, task, taken) \cup Wrote(suite, task, n)
        BY <3>4, <3>8, OneMoreCall
    <3> HIDE DEF n
    <3>11. graph' = Invoked(suite, task, n)
        BY <2>1, <3>1, <3>8, <3>10 DEF Turning
    <3>12. decided' = DecidedAt(suite, task, n)
        BY <2>1, <3>1, <3>7, <3>8, <3>10 DEF Turning
    <3>13. tree' = TreeAt(suite, task, n)
      <4>1. tree' = tree \cup Wrote(suite, task, n)
          BY <2>1, <3>9
      <4> QED
          BY <3>1, <3>10, <4>1 DEF Turning
    <3>14. taken' = n
        BY <2>1 DEF n
    <3> QED
        BY <1>0, <2>1, <3>1, <3>4, <3>11, <3>12, <3>13, <3>14 DEF Turning, Task
  <2> QED
      BY <1>0, <1>1, <2>1, <2>2, <2>3, GoesAsExpected
<1>2. CASE pc' # "turn"
  <2>1. Fault /\ Errored
      BY <1>2 DEF GateCall
  <2> QED
      BY <1>0, <2>1, EndsAsExpected DEF Errored, Fault
<1> QED
    BY <1>1, <1>2

LEMMA EndAsExpected ==
  ASSUME TriedInOrder, Determined, AgentEnds
  PROVE Determined'
<1>0. /\ Attempting /\ pc = "turn" /\ UNCHANGED <<suite, faulted>> /\ (Nothing \in Steps \/ taken = MaxTurns)
    BY DEF Attempting, AgentEnds
<1> DEFINE worked == IF Task.role = "coder" THEN tree # {} ELSE \E d \in decided : d.verdict = "Allow"
<1>1. ASSUME OnCourse, Scripted
      PROVE /\ Runs(suite, task) /\ tree = TreeAt(suite, task, taken)
            /\ Finishes(suite, task) <=> taken < MaxTurns /\ worked
            /\ taken < MaxTurns => taken = Len(Task.script)
  <2>1. Turning /\ suite \in Suites /\ task \in DOMAIN suite.corpus
      BY <1>0, <1>1, TaskLists DEF OnCourse, Working
  <2>2. /\ Len(Task.script) \in Nat /\ MaxTurns \in Nat
        /\ \A k \in 1 .. Len(Task.script) : Task.script[k] # Nothing
      BY <1>1, <2>1, ScriptLists, SuitesAssumption DEF Scripted, Task
  <2>3. taken \in Nat /\ taken <= Len(Task.script) /\ taken <= MaxTurns
      BY <2>1, <2>2 DEF Turning
  <2>4. taken < MaxTurns => taken = Len(Task.script)
    <3> SUFFICES ASSUME taken < Len(Task.script), Nothing \in Steps PROVE FALSE
        BY <1>0, <2>2, <2>3
    <3>1. Steps = {Task.script[taken + 1]} /\ taken + 1 \in 1 .. Len(Task.script)
        BY <1>1, <2>2, <2>3 DEF Steps
    <3> QED
        BY <2>2, <3>1
  <2>5. taken = Len(Task.script) => (Works(suite, task) <=> worked)
      BY <2>1 DEF Works, LeftAt, Turning, Task
  <2>6. Finishes(suite, task) <=> Len(Task.script) < MaxTurns /\ Works(suite, task)
      BY <2>1 DEF Finishes, Turning, Task
  <2>7. taken = MaxTurns => ~ (Len(Task.script) < MaxTurns)
      BY <2>2, <2>3
  <2>8. taken < MaxTurns \/ taken = MaxTurns
      BY <2>2, <2>3
  <2> HIDE DEF worked
  <2> QED
      BY <2>1, <2>2, <2>4, <2>5, <2>6, <2>7, <2>8 DEF Turning
<1>2. CASE pc' = "measure"
  <2>1. /\ UNCHANGED <<task, results>> /\ left' = tree /\ tree' = tree /\ taken < MaxTurns /\ worked
      BY <1>2 DEF AgentEnds, Errored, EndAttempt
  <2>2. GoesOn
      BY <1>2, <2>1 DEF GoesOn, Working
  <2>3. ASSUME OnCourse, Scripted PROVE Measuring'
      BY <1>0, <1>1, <2>1, <2>3 DEF Measuring, LeftAt, Task
  <2> QED
      BY <1>0, <1>2, <2>2, <2>3, GoesAsExpected
<1>3. CASE pc' # "measure"
  <2>1. Errored /\ (Scripted => taken = MaxTurns \/ ~ worked)
      BY <1>3 DEF AgentEnds
  <2>2. ASSUME Scripted, ~ faulted' PROVE Failing = Expected(suite, task)
    <3>1. OnCourse
        BY <1>0, <2>2 DEF Determined
    <3>2. MaxTurns \in Nat
        BY SuitesAssumption
    <3>3. ~ (taken < MaxTurns /\ worked)
        BY <2>1, <2>2, <3>2
    <3> HIDE DEF worked
    <3> QED
        BY <1>1, <2>2, <3>1, <3>3 DEF Expected
  <2> QED
      BY <1>0, <2>1, <2>2, EndsAsExpected DEF Errored, Failing
<1> QED
    BY <1>2, <1>3

\* One more verdict, and what one more verifier leaves.
LEMMA OneMoreVerdict ==
  ASSUME NEW s, NEW t, NEW n \in Nat, NEW b, b = SaidOf(s, t, n + 1)
  PROVE Append(Outcome(s, t, n), b) = Outcome(s, t, n + 1)
<1> DEFINE o == Outcome(s, t, n)
           r == Append(o, b)
<1>1. Sequence(o) /\ Len(o) = n
  <2> DEFINE T == ToSet(o)
  <2>1. DOMAIN o = 1 .. n /\ o = [i \in 1 .. n |-> SaidOf(s, t, i)]
      BY DEF Outcome
  <2>2. \A i \in 1 .. n : SaidOf(s, t, i) \in T
      BY <2>1 DEF ToSet
  <2> HIDE DEF o, T
  <2>3. o \in [1 .. n -> T]
      BY <2>1, <2>2
  <2>4. o \in Seq(T)
      BY <2>3, SeqDef
  <2> QED
      BY <2>1, <2>4, LenProperties DEF Sequence, T
<1>2. /\ Sequence(r) /\ DOMAIN r = 1 .. n + 1 /\ r[n + 1] = b
      /\ \A i \in 1 .. n : r[i] = o[i]
  <2> HIDE DEF o
  <2> QED
      BY <1>1, Appended
<1>3. \A i \in 1 .. n : o[i] = SaidOf(s, t, i)
    BY DEF Outcome
<1> HIDE DEF o, r
<1>4. r = [i \in 1 .. n + 1 |-> r[i]]
  <2>1. r \in [1 .. Len(r) -> ToSet(r)] /\ DOMAIN r = 1 .. Len(r)
      BY <1>2, LenProperties DEF Sequence
  <2> QED
      BY <1>2, <2>1
<1>5. \A i \in 1 .. n + 1 : r[i] = SaidOf(s, t, i)
    BY <1>2, <1>3
<1>6. r = Outcome(s, t, n + 1)
    BY <1>4, <1>5 DEF Outcome
<1> QED
    BY <1>6 DEF r, o

LEMMA OneMoreVerifier ==
  ASSUME NEW s, NEW t, NEW n \in Nat
  PROVE /\ Strewn(s, t, 0) = LeftAt(s, t)
        /\ Strewn(s, t, n + 1) =
             IF s.corpus[t].verifiers[n + 1].kind = "test-script"
             THEN Strewn(s, t, n) \cup s.corpus[t].verifiers[n + 1].leaves ELSE Strewn(s, t, n)
<1>1. 1 .. 0 = {} /\ 1 .. n + 1 = (1 .. n) \cup {n + 1}
    OBVIOUS
<1>2. Strewn(s, t, 0) = LeftAt(s, t)
    BY <1>1 DEF Strewn
<1> DEFINE leaves(k) == IF s.corpus[t].verifiers[k].kind = "test-script" THEN s.corpus[t].verifiers[k].leaves ELSE {}
<1>3. /\ Strewn(s, t, n) = LeftAt(s, t) \cup UNION {leaves(k) : k \in 1 .. n}
      /\ Strewn(s, t, n + 1) = LeftAt(s, t) \cup UNION {leaves(k) : k \in 1 .. n + 1}
    BY DEF Strewn
<1>4. Strewn(s, t, n + 1) = Strewn(s, t, n) \cup leaves(n + 1)
  <2> HIDE DEF leaves
  <2> QED
      BY <1>1, <1>3
<1> QED
    BY <1>2, <1>4

LEMMA MeasureAsExpected ==
  ASSUME TriedInOrder, Judging, Determined, Measure
  PROVE Determined'
<1>0. Attempting /\ pc = "measure" /\ UNCHANGED suite /\ left = tree
    BY DEF Attempting, Measure, Judging
<1>1. CASE pc' = "verify"
  <2>1. /\ UNCHANGED <<task, results, tree, left, faulted>> /\ diff' = tree
        /\ outcomes' = IF Task.mustNotModify = {} THEN <<>> ELSE <<Untouched(tree, Task.mustNotModify)>>
      BY <1>1 DEF Measure, Errored, EndAttempt
  <2>2. GoesOn
      BY <1>1, <2>1 DEF GoesOn, Working
  <2>3. ASSUME OnCourse PROVE Measuring' /\ Asking'
    <3>1. Finishes(suite, task) /\ tree = LeftAt(suite, task)
        BY <1>0, <2>3 DEF OnCourse, Measuring
    <3>2. Measuring'
        BY <1>0, <2>1, <3>1 DEF Measuring
    <3>3. Task' = Task
        BY <1>0, <2>1 DEF Task
    <3>4. Asked' = 0 /\ outcomes' = Outcome(suite, task, Len(outcomes'))
      <4>1. CASE Task.mustNotModify = {}
        <5>1. outcomes' = <<>> /\ Len(outcomes') = 0
            BY <2>1, <4>1
        <5>2. Outcome(suite, task, 0) = <<>>
            BY DEF Outcome
        <5> QED
            BY <3>3, <4>1, <5>1, <5>2 DEF Asked
      <4>2. CASE Task.mustNotModify # {}
        <5> DEFINE u == Untouched(tree, Task.mustNotModify)
        <5>1. outcomes' = <<u>> /\ Len(outcomes') = 1
            BY <2>1, <4>2
        <5>2. SaidOf(suite, task, 1) = u
            BY <3>1, <4>2 DEF SaidOf, Protects, Task
        <5>3. Outcome(suite, task, 1) = <<u>>
          <6> HIDE DEF u
          <6> QED
              BY <5>2 DEF Outcome
        <5> QED
            BY <3>3, <4>2, <5>1, <5>3 DEF Asked
      <4> QED
          BY <4>1, <4>2
    <3>5. tree' = Strewn(suite, task, 0)
        BY <2>1, <3>1, OneMoreVerifier
    <3>6. diff' = LeftAt(suite, task)
        BY <2>1, <3>1
    <3> QED
        BY <1>0, <2>1, <3>2, <3>4, <3>5, <3>6 DEF Asking
  <2> QED
      BY <1>0, <1>1, <2>1, <2>2, <2>3, GoesAsExpected
<1>2. CASE pc' # "verify"
  <2>1. Fault /\ Errored
      BY <1>2 DEF Measure
  <2> QED
      BY <1>0, <2>1, EndsAsExpected DEF Errored, Fault
<1> QED
    BY <1>1, <1>2

\* The verdicts an attempt has so far, by number.
LEMMA VerdictsSoFar ==
  ASSUME TriedInOrder, Judging, pc = "verify"
  PROVE /\ Len(Task.verifiers) \in Nat /\ DOMAIN Task.verifiers = 1 .. Len(Task.verifiers)
        /\ Asked \in 0 .. Len(Task.verifiers) /\ Len(outcomes) \in Nat
        /\ Protects(suite, task) \in {0, 1} /\ Len(outcomes) = Protects(suite, task) + Asked
<1>1. Len(Task.verifiers) \in Nat /\ DOMAIN Task.verifiers = 1 .. Len(Task.verifiers)
    BY TaskLists DEF Working
<1>2. Asked \in 0 .. Len(Task.verifiers) /\ outcomes \in Seq(BOOLEAN)
    BY DEF Judging
<1>3. Len(outcomes) \in Nat
    BY <1>2, LenProperties
<1>4. Asked = Len(outcomes) - Protects(suite, task) /\ Protects(suite, task) \in {0, 1}
    BY DEF Asked, Protects, Task
<1> QED
    BY <1>1, <1>2, <1>3, <1>4

LEMMA VerifyAsExpected ==
  ASSUME TriedInOrder, Judging, Determined, Verify
  PROVE Determined'
<1>0. Attempting /\ pc = "verify" /\ UNCHANGED suite
    BY DEF Attempting, Verify
<1>1. CASE pc' = "verify"
  <2> DEFINE v == Task.verifiers[Asked + 1]
  <2>1. /\ UNCHANGED <<task, results, left, diff, faulted>> /\ Asked < Len(Task.verifiers)
        /\ tree' = IF v.kind = "test-script" THEN tree \union v.leaves ELSE tree
        /\ \E b \in Verdicts(v) : outcomes' = Append(outcomes, b)
      BY <1>1 DEF Verify, Errored, EndAttempt
  <2>2. GoesOn
      BY <1>1, <2>1 DEF GoesOn, Working
  <2>3. /\ Asked \in Nat /\ Asked + 1 \in DOMAIN Task.verifiers /\ Len(outcomes) \in Nat
        /\ Protects(suite, task) \in {0, 1} /\ Len(outcomes) = Protects(suite, task) + Asked
      BY <1>0, <2>1, VerdictsSoFar
  <2>4. ASSUME OnCourse, Scripted PROVE Measuring' /\ Asking'
    <3>1. Measuring /\ Asking
        BY <1>0, <2>4 DEF OnCourse
    <3>2. PICK b \in Verdicts(v) : outcomes' = Append(outcomes, b)
        BY <2>1
    <3>3. v.kind \in {"test-script", "diff-match", "security-gate", "llm-judge"}
        BY <1>0, <2>3, TaskLists DEF Working
    <3>4. b = Says(v, diff, tree)
      <4> HIDE DEF v
      <4> QED
          BY <2>4, <3>3, ScriptedSays
    <3>5. b = Said(suite, task, Asked + 1)
      <4>1. (Asked + 1) - 1 = Asked
          BY <2>3
      <4> QED
          BY <3>1, <3>4, <4>1 DEF Said, Asking, Task
    <3>6. b = SaidOf(suite, task, Len(outcomes) + 1)
      <4>1. (Len(outcomes) + 1) - Protects(suite, task) = Asked + 1
          BY <2>3
      <4>2. ~ (Len(outcomes) + 1 = 1 /\ Protects(suite, task) = 1)
          BY <2>3
      <4> QED
          BY <3>5, <4>1, <4>2 DEF SaidOf
    <3>7. outcomes' = Outcome(suite, task, Len(outcomes) + 1) /\ Len(outcomes') = Len(outcomes) + 1
      <4>1. outcomes = Outcome(suite, task, Len(outcomes))
          BY <3>1 DEF Asking
      <4>2. Append(Outcome(suite, task, Len(outcomes)), b) = Outcome(suite, task, Len(outcomes) + 1)
          BY <2>3, <3>6, OneMoreVerdict
      <4>3. Len(outcomes') = Len(outcomes) + 1
        <5>1. outcomes \in Seq(BOOLEAN) /\ b \in BOOLEAN
          <6> HIDE DEF v
          <6> QED
              BY <1>0, <3>3, VerifierSays DEF Judging
        <5> QED
            BY <3>2, <5>1, AppendProperties
      <4> QED
          BY <3>2, <4>1, <4>2, <4>3
    <3>8. Task' = Task
        BY <1>0, <2>1 DEF Task
    <3>9. Asked' = Asked + 1
        BY <2>3, <3>7, <3>8 DEF Asked
    <3>10. tree' = Strewn(suite, task, Asked + 1)
      <4>1. Strewn(suite, task, Asked + 1) =
              IF v.kind = "test-script" THEN Strewn(suite, task, Asked) \cup v.leaves ELSE Strewn(suite, task, Asked)
          BY <2>3, OneMoreVerifier DEF Task
      <4>2. tree = Strewn(suite, task, Asked)
          BY <3>1 DEF Asking
      <4> HIDE DEF v
      <4> QED
          BY <2>1, <4>1, <4>2
    <3>11. Measuring'
        BY <1>0, <2>1, <3>1 DEF Measuring
    <3> QED
        BY <1>0, <2>1, <3>1, <3>7, <3>9, <3>10, <3>11 DEF Asking
  <2> QED
      BY <1>0, <1>1, <2>1, <2>2, <2>4, GoesAsExpected
<1>2. CASE pc' # "verify"
  <2>1. Fault /\ Errored
      BY <1>0, <1>2 DEF Verify
  <2> QED
      BY <1>0, <2>1, EndsAsExpected DEF Errored, Fault
<1> QED
    BY <1>1, <1>2

LEMMA JudgedAsExpected ==
  ASSUME TriedInOrder, Judging, Determined, Judged
  PROVE Determined'
<1>1. /\ Attempting /\ pc = "verify" /\ UNCHANGED <<suite, faulted>> /\ Asked = Len(Task.verifiers)
      /\ EndAttempt(Verdict)
    BY DEF Attempting, Judged, Verdict
<1>2. ASSUME Scripted, ~ faulted PROVE Verdict = Expected(suite, task)
  <2>1. Measuring /\ Asking
      BY <1>1, <1>2 DEF Determined, OnCourse
  <2>2. Len(outcomes) = Protects(suite, task) + Len(suite.corpus[task].verifiers)
      BY <1>1, VerdictsSoFar DEF Task
  <2>3. outcomes = Outcome(suite, task, Protects(suite, task) + Len(suite.corpus[task].verifiers))
      BY <2>1, <2>2 DEF Asking
  <2> QED
      BY <2>1, <2>3 DEF Expected, JudgedAt, Verdict, Measuring
<1> QED
    BY <1>1, <1>2, EndsAsExpected

LEMMA DeterminedStep ==
  ASSUME TriedInOrder, Judging, Determined, [GoldenNext]_goldenVars
  PROVE Determined'
<1>1. CASE BeginAttempt \/ Dispatch \/ Turn \/ GateCall \/ AgentEnds
    BY <1>1, BeginAsExpected, DispatchAsExpected, TurnAsExpected, GateAsExpected, EndAsExpected
<1>2. CASE Measure \/ Verify \/ Judged
    BY <1>2, MeasureAsExpected, VerifyAsExpected, JudgedAsExpected
<1>3. CASE Begin \/ Stage \/ LoadCorpus \/ Storing \/ UNCHANGED goldenVars
    BY <1>3, DeterminedAround
<1> QED
    BY <1>1, <1>2, <1>3 DEF GoldenNext, Storing

\* The attempts of a task are measurements of one thing (AttemptsAlike): with the deterministic adapter and
\* nothing failing, each of them comes to what the suite, the task's script and its verifiers determine, for
\* any policy, script and verifiers and any number of attempts.
THEOREM MeasuredAlike == GoldenSpec => []AttemptsAlike
<1>1. GoldenInit => TriedInOrder /\ Judging /\ Determined
    BY OrderBegins, DeterminedBegins DEF GoldenInit, Judging
<1>2. TriedInOrder /\ Judging /\ Determined /\ [GoldenNext]_goldenVars => (TriedInOrder /\ Judging /\ Determined)'
    BY OrderStep, JudgingStep, DeterminedStep
<1>3. TriedInOrder /\ Determined => AttemptsAlike
  <2>1. TriedInOrder /\ pc = "start" => results = <<>>
      BY DEF TriedInOrder
  <2>2. Determined /\ pc # "start" /\ Scripted /\ ~ faulted =>
          \A t \in DOMAIN results : \A i \in DOMAIN results[t] : results[t][i] = Expected(suite, t)
      BY DEF Determined, OnCourse
  <2> QED
      BY <2>1, <2>2 DEF AttemptsAlike
<1> QED
    BY <1>1, <1>2, <1>3, PTL DEF GoldenSpec
=============================================================================

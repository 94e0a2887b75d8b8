---------------------------- MODULE Attestation ----------------------------
(* How the Attestor signs a run's bundle and how `maf attest verify` reads   *)
(* one back. A signature is the key and the bytes it covers: "jcs" bytes     *)
(* name a statement whatever the order of its keys, "json" bytes (0.2.x) a   *)
(* predicate as it was written.                                              *)
EXTENDS Naturals, Sequences, SequencesExt

\* A field, or a hash, that is not there.
Unset == "unset"

Keys == {"own", "dev"}
KeySource(key) == IF key = "own" THEN "env" ELSE "dev"

\* signingKey: a secret that is the development key, or none, signs with the development key.
SigningKey(secret) == IF secret = "own" THEN "own" ELSE "dev"

Names == {"n1", "n2"}
Predicate(outcome, policy, diffs, key) ==
    [outcome |-> outcome, policyInForce |-> policy, diffHashes |-> diffs, keySource |-> KeySource(key)]

\* makeInTotoStatement: one subject for each recorded diff.
Recorded(diffs) == {n \in Names : diffs[n] # Unset}
SubjectsOf(diffs) == LET SubjectOf(n) == [name |-> n, sha |-> diffs[n]]
                     IN  SetToSeq({SubjectOf(n) : n \in Recorded(diffs)})
RunStatement(predicate) ==
    [type |-> "statement", predicateType |-> "run",
     subject |-> SubjectsOf(predicate.diffHashes), predicate |-> predicate]

\* A bundle on disk: a signed statement, or (flat) a predicate with its signature.
Signature(key, form, content) == [key |-> key, form |-> form, content |-> content]
Sign(statement, key) == [flat |-> FALSE, body |-> statement, signature |-> Signature(key, "jcs", statement)]

\* bundle(): the predicate with the statement's signature.
Flattened(b) == [flat |-> TRUE, body |-> b.body.predicate, signature |-> b.signature]

-----------------------------------------------------------------------------

\* judge: the signature must match, and the claim about the key must be the key that was used.
Judge(key, claimed, legacy, signatureOk) ==
    LET claimOk == IF claimed = Unset THEN legacy ELSE claimed = KeySource(key)
    IN  [valid |-> signatureOk /\ claimOk, legacy |-> legacy]

\* Mutant of SubjectMismatch: a recorded diff that no subject names is not missed.
SubjectsRecorded(subject, diffs) ==
    \/ \E i, j \in DOMAIN subject : i # j /\ subject[i].name = subject[j].name
    \/ \E i \in DOMAIN subject : subject[i].sha # diffs[subject[i].name]

\* subjectMismatch: each diff the predicate records is a subject, once, with its hash, and no other.
SubjectMismatch(subject, diffs) ==
    \/ \E i, j \in DOMAIN subject : i # j /\ subject[i].name = subject[j].name
    \/ \E i \in DOMAIN subject : subject[i].sha = Unset \/ subject[i].sha # diffs[subject[i].name]
    \/ \E n \in Recorded(diffs) : \A i \in DOMAIN subject : subject[i].name # n

\* examine
ExamineStatement(b, key) ==
    LET s == b.body
        report == Judge(key, s.predicate.keySource, FALSE, b.signature = Signature(key, "jcs", s))
    IN  IF s.type # "statement" \/ s.predicateType # "run"
           \/ (report.valid /\ SubjectMismatch(s.subject, s.predicate.diffHashes))
        THEN [report EXCEPT !.valid = FALSE] ELSE report

ExamineFlat(b, key) ==
    IF b.signature = Signature(key, "jcs", RunStatement(b.body))
    THEN Judge(key, b.body.keySource, FALSE, TRUE)
    ELSE LET legacy == b.signature = Signature(key, "json", b.body)
         IN  Judge(key, b.body.keySource, legacy, legacy)

Examine(b, key) == IF b.flat THEN ExamineFlat(b, key) ELSE ExamineStatement(b, key)

-----------------------------------------------------------------------------
(* What a bundle on disk may have become, and what else may be found there.  *)

\* Changed after it was signed.
Edited(b, edit) ==
    CASE edit = "none" -> b
      [] edit = "flattened" -> Flattened(b)
      [] edit = "outcome" -> [b EXCEPT !.body.predicate.outcome = "other"]
      [] edit = "flat outcome" -> [Flattened(b) EXCEPT !.body.outcome = "other"]
      [] edit = "claim" -> [b EXCEPT !.body.predicate.keySource = IF @ = "env" THEN "dev" ELSE "env"]
      [] edit = "subject" -> [b EXCEPT !.body.subject = Append(@, [name |-> "n1", sha |-> "other"])]
      [] edit = "type" -> [b EXCEPT !.body.predicateType = "other"]

\* Written by something else that holds the same key: the 0.2.x release, or a faulty signer.
Foreign(b, how) ==
    LET s == b.body
        key == b.signature.key
    IN  CASE how = "0.2.x" -> [flat |-> TRUE, body |-> [s.predicate EXCEPT !.keySource = Unset],
                               signature |-> Signature(key, "json", [s.predicate EXCEPT !.keySource = Unset])]
          [] how = "unclaimed" -> Sign([s EXCEPT !.predicate.keySource = Unset], key)
          [] how = "misclaimed" -> Sign([s EXCEPT !.predicate.keySource = IF @ = "env" THEN "dev" ELSE "env"], key)
          [] how = "unnamed diff" -> Sign([s EXCEPT !.subject = <<>>, !.predicate.diffHashes["n1"] = "sha"], key)
          [] how = "extra subject" -> Sign([s EXCEPT !.subject = Append(@, [name |-> "n2", sha |-> "other"])], key)

Edits == {"none", "flattened", "outcome", "flat outcome", "claim", "subject", "type"}
Foreigns == {"0.2.x", "unclaimed", "misclaimed", "unnamed diff", "extra subject"}
Found(b, how) == IF how \in Edits THEN Edited(b, how) ELSE Foreign(b, how)
=============================================================================

--------------------------- MODULE MCNodeAttempt ---------------------------
(* Nodes for TLC: every combination that makes a difference to a node.       *)
EXTENDS NodeAttempt

Combination(n) ==
  /\ n.expectsChange => n.writer /\ ~n.expectsCalls
  /\ n.tier = "cli" => ~n.gateInBundle /\ ~n.allowPartial /\ ~n.expectsCalls
  /\ n.tier = "in-process" => ~n.ungoverned

MCNodes ==
  {n \in NodeType :
     /\ Combination(n)
     /\ ~n.writer => /\ ~n.ungoverned /\ ~n.gateInBundle /\ ~n.security
                      /\ ~n.harnessRequires /\ n.review = "none"}

=============================================================================

----------------------------- MODULE MCEvolver -----------------------------
(* Two roles, one of them safety-adjacent; one edit of each kind that the    *)
(* gate, the parser's other side and the pre-check each treat differently.   *)
EXTENDS Evolver

MCHarness(tools, review) ==
  [id |-> 0, tools |-> tools, prompt |-> [r \in Roles |-> "p"],
   processors |-> {}, review |-> review]
MCFirsts == {MCHarness([r \in Roles |-> {"t"}], TRUE)}

MCEdits ==
  [kind : {"prompt"}, role : {"coder", "security"}, text : {"p", "bad"}]
    \cup {[kind |-> "tools", role |-> "coder", add |-> a, remove |-> {"t"}] : a \in {{}, {"u"}, {"x"}}}
    \cup {[kind |-> "processor", name |-> n] : n \in {"known", "unknown"}}
    \cup {[kind |-> "budgets", role |-> "ghost"], [kind |-> "recall"]}
MCManifests ==
  [edit : MCEdits, target : {"t1"}]
    \cup [edit : {[kind |-> "recall"]}, target : {None, "gone"}]
MCRows == {{"t1"}, {"gone"}}
=============================================================================

------------------------------- MODULE GatedCall -------------------------------
(***************************************************************************)
(* One gated path for every tool call: tool-loop's executeToolGated with   *)
(* the approval gate it asks, the gate's terminal and headless providers,  *)
(* and the attestor that records both.                                     *)
(*                                                                         *)
(* Nodes run beside each other and share one gate and one terminal, so     *)
(* their calls interleave at every await: the policy's answer, the human's *)
(* (or the timer's, or the headless provider's), the tool, and the write   *)
(* of the record to the memory graph.  Microtasks between two such events  *)
(* are part of the step that queues them.                                  *)
(***************************************************************************)
EXTENDS Integers, Sequences, FiniteSets

CONSTANTS
    Call,       \* tool calls
    Id, IdOf,   \* request ids, and the id the policy gives each call's request
    Hash,       \* hashes of asks: two identical calls share one
    HashOf,     \* the hash of each call's ask as it was made, or None
    MaxLines,   \* bound: lines the operator types
    MaxChanged, \* bound: asks that differ from what was made at one time
    None        \* absent; as a hash, an ask that cannot be hashed (or its id used)

VARIABLES
    provider,   \* the gate's "terminal" or "headless" provider, or "none": no gate
    stage,      \* where each call stands in executeToolGated
    verdict,    \* the policy's verdict on each call
    ask,        \* what approvalRequestHash answers for each call's ask now
    bound,      \* pending.requestHash: the hash taken when the gate was asked
    seen,       \* ApprovalGate.seen
    queue,      \* turns: calls waiting for the terminal behind another prompt
    prompt,     \* the call whose prompt the terminal is reading an answer to
    inbox,      \* lines typed and not yet read
    typed,      \* bound: how many lines were typed
    ended,      \* the terminal's end was read
    decisions,  \* Attestor.approvals, by the call they are about
    records,    \* Attestor.calls, by the call they are about
    acted,      \* calls whose tool has done its work
    shown       \* history: each call's prompt, as the hash it showed

gateVars == <<provider, ask, bound, seen, decisions>>
terminalVars == <<queue, prompt, inbox, typed, ended, shown>>
callVars == <<stage, verdict, records, acted>>
vars == <<gateVars, terminalVars, callVars>>

\* "failed": the call threw, or answered that its input is malformed.
Stage == {"new", "policy", "asked", "executing", "recording", "returned", "failed"}
\* An Indeterminate refuses as a Deny does, and is a Deny here.
Verdict == {"Allow", "Deny", "Escalate"}
Status == {"Approved", "Rejected", "TimedOut"}

ASSUME AsksAssumption ==
    /\ IdOf \in [Call -> Id]
    /\ HashOf \in [Call -> Hash \cup {None}]
    /\ None \notin Id \cup Hash \cup Call \cup Verdict \cup {"refused"}
    /\ None \notin Id \X Hash
    /\ MaxLines \in Nat /\ MaxChanged \in Nat

\* A line is the code of some request's prompt, or not a code at all; with it goes
\* the request whose prompt was up as it was typed, if one was.
Line == [code : (Id \X Hash) \cup {None}, on : Call \cup {None}]

\* by: the request whose prompt was up as the line that decided was typed.
Decision == [status : Status, hash : Hash \cup {None}, by : Call \cup {None}]

TypeOK ==
    /\ provider \in {"terminal", "headless", "none"}
    /\ stage \in [Call -> Stage]
    /\ verdict \in [Call -> Verdict \cup {None}]
    /\ ask \in [Call -> Hash \cup {None}]
    /\ bound \in [Call -> Hash \cup {None}]
    /\ seen \subseteq Id
    /\ queue \in Seq(Call)
    /\ prompt \in Call \cup {None}
    /\ inbox \in Seq(Line)
    /\ typed \in 0 .. MaxLines
    /\ ended \in BOOLEAN
    /\ decisions \in [Call -> Seq(Decision)]
    /\ records \in [Call -> Seq(Verdict \cup {"refused"})]
    /\ acted \subseteq Call
    /\ shown \in [Call -> Hash \cup {None}]

Init ==
    /\ provider \in {"terminal", "headless", "none"}
    /\ stage = [c \in Call |-> "new"]
    /\ verdict = [c \in Call |-> None]
    /\ ask = HashOf
    /\ bound = [c \in Call |-> None]
    /\ seen = {}
    /\ queue = <<>>
    /\ prompt = None
    /\ inbox = <<>>
    /\ typed = 0
    /\ ended = FALSE
    /\ decisions = [c \in Call |-> <<>>]
    /\ records = [c \in Call |-> <<>>]
    /\ acted = {}
    /\ shown = [c \in Call |-> None]

--------------------------------------------------------------------------------
(***************************************************************************)
(* The attestor                                                            *)
(***************************************************************************)

Goto(c, s) == stage' = [stage EXCEPT ![c] = s]

\* Wrong: the call is added once the graph has answered.
RecordAfterGraph(c, what) == Goto(c, "recording") /\ UNCHANGED records

\* Attestor.record: the call is in the bundle at once, as refused or with the
\* verdict it ran under; the graph is awaited.
Record(c, what) ==
    /\ records' = [records EXCEPT ![c] = Append(@, what)]
    /\ Goto(c, "recording")

\* The write of the record to the graph answered, or threw: a throw passes for
\* the call's own and ends the node.
RecordEnds(c) ==
    /\ stage[c] = "recording"
    /\ \/ records[c] # <<"refused">> /\ Goto(c, "returned")
       \/ Goto(c, "failed")
    /\ UNCHANGED <<gateVars, terminalVars, verdict, records, acted>>

--------------------------------------------------------------------------------
(***************************************************************************)
(* executeToolGated                                                        *)
(***************************************************************************)

Refuse(c) == Record(c, "refused")

\* An input the tool's schema refuses and a path its confinement refuses are
\* recorded without asking the policy; any other throw of a declaration is not.
Begin(c) ==
    /\ stage[c] = "new"
    /\ \/ Goto(c, "policy") /\ UNCHANGED records
       \/ Refuse(c)
       \/ Goto(c, "failed") /\ UNCHANGED records
    /\ UNCHANGED <<gateVars, terminalVars, verdict, acted>>

Settle(c, status, hash, by) ==
    decisions' = [decisions EXCEPT ![c] = Append(@, [status |-> status, hash |-> hash, by |-> by])]

\* The policy allows, refuses, or fails to answer: no gate is asked.
PolicyDecides(c) ==
    /\ stage[c] = "policy"
    /\ \/ /\ verdict' = [verdict EXCEPT ![c] = "Allow"]
          /\ Goto(c, "executing")
          /\ UNCHANGED records
       \/ /\ verdict' = [verdict EXCEPT ![c] = "Deny"]
          /\ Refuse(c)
       \/ Goto(c, "failed") /\ UNCHANGED <<verdict, records>>
    /\ UNCHANGED <<gateVars, terminalVars, acted>>

\* Escalate, and there is no gate to ask.
NoGate(c) ==
    /\ stage[c] = "policy"
    /\ provider = "none"
    /\ verdict' = [verdict EXCEPT ![c] = "Escalate"]
    /\ Refuse(c)
    /\ UNCHANGED <<gateVars, terminalVars, acted>>

\* An ask the gate cannot bind, or whose id it has seen.
Unusable(c) == ask[c] = None \/ IdOf[c] \in seen

\* Escalate, and the gate settles without asking anyone; a request that names
\* another tool than the call's has used its id up.
GateRefuses(c) ==
    /\ stage[c] = "policy"
    /\ provider # "none"
    /\ seen' = IF Unusable(c) THEN seen ELSE seen \cup {IdOf[c]}
    /\ verdict' = [verdict EXCEPT ![c] = "Escalate"]
    /\ Settle(c, "Rejected", ask[c], None)
    /\ Refuse(c)
    /\ UNCHANGED <<provider, ask, bound, terminalVars, acted>>

\* Escalate, and the provider is asked; the terminal queues it.
GateAsks(c) ==
    /\ stage[c] = "policy"
    /\ provider # "none" /\ ~ Unusable(c)
    /\ verdict' = [verdict EXCEPT ![c] = "Escalate"]
    /\ seen' = seen \cup {IdOf[c]}
    /\ bound' = [bound EXCEPT ![c] = ask[c]]
    /\ queue' = IF provider = "terminal" THEN Append(queue, c) ELSE queue
    /\ Goto(c, "asked")
    /\ UNCHANGED <<provider, ask, decisions, prompt, inbox, typed, ended, shown, records, acted>>

\* Wrong: only a rejection refuses.
OutcomeUnlessRejected(c, status, by) ==
    /\ Settle(c, status, bound[c], by)
    /\ IF status # "Rejected" THEN Goto(c, "executing") /\ UNCHANGED records
       ELSE Refuse(c)
    /\ UNCHANGED <<provider, ask, bound, seen, verdict, acted>>

\* The gate's outcome reaches the call: approved, it runs; otherwise refused.
Outcome(c, status, by) ==
    /\ Settle(c, status, bound[c], by)
    /\ IF status = "Approved" THEN Goto(c, "executing") /\ UNCHANGED records
       ELSE Refuse(c)
    /\ UNCHANGED <<provider, ask, bound, seen, verdict, acted>>

\* Wrong: the hash taken before the wait is trusted.
JudgedOnce(c, approved) == IF approved THEN "Approved" ELSE "Rejected"

\* judge: an approval stands only if the ask still hashes to what was bound.
Judged(c, approved) == IF approved /\ ask[c] = bound[c] THEN "Approved" ELSE "Rejected"

\* The tool ran and answered or failed; or refused, before it acted, a path it
\* resolved as it ran; or let out the refusal of a call it made itself, which that
\* call recorded (no tool here makes one).
ToolEnds(c) ==
    /\ stage[c] = "executing"
    /\ \/ acted' = acted \cup {c} /\ Record(c, verdict[c])
       \/ Refuse(c) /\ UNCHANGED acted
       \/ Goto(c, "failed") /\ UNCHANGED <<records, acted>>
    /\ UNCHANGED <<gateVars, terminalVars, verdict>>

--------------------------------------------------------------------------------
(***************************************************************************)
(* The terminal                                                            *)
(***************************************************************************)

\* Wrong: two identical calls have one code.
CodeOfHash(c) == <<CHOOSE i \in Id : TRUE, bound[c]>>

\* confirmationCode: from the id as well as the hash.  Its six digits of a digest
\* are taken to tell them apart.
Code(c) == <<IdOf[c], bound[c]>>

\* The next request's turn: its prompt is shown and its clock starts.
Show ==
    /\ prompt = None /\ queue # <<>>
    /\ prompt' = Head(queue)
    /\ queue' = Tail(queue)
    /\ shown' = [shown EXCEPT ![Head(queue)] = bound[Head(queue)]]
    /\ UNCHANGED <<gateVars, callVars, inbox, typed, ended>>

\* The operator types a line: a code some prompt has shown, or anything else.
TypeLine ==
    /\ provider = "terminal" /\ ~ ended
    /\ typed < MaxLines
    /\ \E code \in {Code(c) : c \in {d \in Call : shown[d] # None}} \cup {None} :
        inbox' = Append(inbox, [code |-> code, on |-> prompt])
    /\ typed' = typed + 1
    /\ UNCHANGED <<gateVars, callVars, queue, prompt, ended, shown>>

\* The prompt reads the first line waiting, whatever it was typed for: a terminal
\* delivers a line at a time, and keeps those typed while nothing reads.
ReadLine ==
    /\ prompt # None /\ inbox # <<>>
    /\ LET line == Head(inbox)
           status == Judged(prompt, line.code = Code(prompt))
       IN  Outcome(prompt, status, line.on)
    /\ inbox' = Tail(inbox)
    /\ prompt' = None
    /\ UNCHANGED <<queue, typed, ended, shown>>

\* The stream ends under the prompt, after what was typed; it ends once, and a
\* later prompt hears nothing.
TerminalEnds ==
    /\ prompt # None /\ inbox = <<>> /\ ~ ended
    /\ ended' = TRUE
    /\ Outcome(prompt, "Rejected", None)
    /\ prompt' = None
    /\ UNCHANGED <<queue, inbox, typed, shown>>

\* Wrong: the prompt is not told that the gate stopped waiting.
TimeoutLeavesPrompt ==
    /\ prompt # None /\ stage[prompt] = "asked"
    /\ Outcome(prompt, "TimedOut", None)
    /\ UNCHANGED terminalVars

\* No answer in time: the gate settles, and the abort ends the prompt.
Timeout ==
    /\ prompt # None
    /\ Outcome(prompt, "TimedOut", None)
    /\ prompt' = None
    /\ UNCHANGED <<queue, inbox, typed, ended, shown>>

\* The headless provider refuses, having tried to write the request to disk; its
\* clock runs while it writes.
Headless(c) ==
    /\ provider = "headless" /\ stage[c] = "asked"
    /\ \E status \in {"Rejected", "TimedOut"} : Outcome(c, status, None)
    /\ UNCHANGED terminalVars

\* Whoever kept the declared paths writes to them while the policy or the gate
\* is awaited; the input itself is frozen.
AskChanges(c) ==
    /\ stage[c] \in {"policy", "asked"}
    /\ Cardinality({d \in Call \ {c} : ask[d] # HashOf[d]}) < MaxChanged
    /\ \E h \in (Hash \cup {None}) \ {ask[c]} : ask' = [ask EXCEPT ![c] = h]
    /\ UNCHANGED <<provider, bound, seen, decisions, terminalVars, callVars>>

Terminal == Show \/ ReadLine \/ TerminalEnds \/ Timeout

CallStep(c) ==
    \/ Begin(c) \/ PolicyDecides(c) \/ NoGate(c) \/ GateRefuses(c) \/ GateAsks(c)
    \/ Headless(c) \/ ToolEnds(c) \/ RecordEnds(c)

Next == Terminal \/ TypeLine \/ \E c \in Call : CallStep(c) \/ AskChanges(c)

Spec == Init /\ [][Next]_vars

\* Timers fire and microtasks run; a write to disk answers.  Nobody needs to type.
Fairness ==
    /\ WF_vars(Show) /\ WF_vars(Timeout)
    /\ \A c \in Call : WF_vars(Headless(c))

FairSpec == Spec /\ Fairness

--------------------------------------------------------------------------------
(***************************************************************************)
(* Properties                                                              *)
(***************************************************************************)
Approvals(c) == {d \in {decisions[c][i] : i \in DOMAIN decisions[c]} : d.status = "Approved"}

Permitted(c) == verdict[c] = "Allow" \/ (verdict[c] = "Escalate" /\ Approvals(c) # {})

\* "An allow-list: only Allow runs the tool, or an Escalate the gate approved"
\* (gatedExec.ts:91-94), and a call that has run, or is running, was not refused:
\* whatever the order in which calls, answers and timers interleave.
OnlyPermittedRun == \A c \in Call : stage[c] = "executing" \/ c \in acted => Permitted(c)

\* An approval is good for what its prompt showed: the hash it is bound to was on
\* the terminal, is still what the call will run on, and the line that gave it was
\* typed while that prompt was up, not for the identical call before it
\* (ApprovalGate.ts:80-84, 190-191; tty.ts:28-31).
ApprovedAsShown ==
    \A c \in Call : \A d \in Approvals(c) :
        d.by = c /\ d.hash = shown[c] /\ d.hash = ask[c]

\* "Every request it is given is settled exactly once and recorded"
\* (ApprovalGate.ts:81-82): an escalated call has one decision when it has left
\* the gate and none before, and nobody is asked twice under one id.
SettledOnce ==
    /\ \A c \in Call :
        Len(decisions[c]) =
            IF verdict[c] = "Escalate" /\ stage[c] # "asked" /\ provider # "none" THEN 1 ELSE 0
    /\ \A c, d \in Call : bound[c] # None /\ bound[d] # None /\ IdOf[c] = IdOf[d] => c = d

\* The bundle lists every call that ran, also when the graph then failed, and
\* every refusal, once each, and says of no call that acted that it was refused
\* (gatedExec.ts:215-217, 141-151; Attestor.ts:293-297).
BundleComplete ==
    \A c \in Call :
        /\ Len(records[c]) <= 1
        /\ c \in acted <=> \E i \in DOMAIN records[c] : records[c][i] = verdict[c]
        /\ stage[c] = "returned" => c \in acted
        /\ stage[c] = "recording" => records[c] # <<>>

\* Every escalation is answered although nobody types: a request queued behind
\* another prompt gets its turn and its own timeout (tty.ts:42, ApprovalGate.ts:42-46).
EscalationAnswered == \A c \in Call : stage[c] = "asked" ~> stage[c] # "asked"
================================================================================

----------------------------- MODULE ModelCall -----------------------------
(* One model call and its retries: the planner's call through withRetry,     *)
(* an adapter's invoke, and the child process or request behind it. A child  *)
(* is sent one signal, by its timer or by its output cap, and the call ends  *)
(* only when the child does.                                                 *)
EXTENDS Naturals

CONSTANTS MaxCallAttempts   \* RetryPolicy.maxAttempts

VARIABLE call    \* of the attempt: by, stage, what was seen and done; and the attempts

NoCall == [by |-> "none", stage |-> "idle", said |-> FALSE, timedOut |-> FALSE, signalled |-> FALSE,
           end |-> "none", attempt |-> 0]

CallInit == call = NoCall

Running == call.stage = "running"

\* The claude, codex and gemini adapters spawn a child; ollama and openrouter send a request.
Start(by) ==
    call' = [NoCall EXCEPT !.by = by, !.stage = "running", !.attempt = call.attempt + 1]

Ends(how) == call' = [call EXCEPT !.stage = "ended", !.end = how]

\* `error`: the child could not be run at all.
ChildFails == Running /\ call.by = "child" /\ ~ call.said /\ ~ call.signalled /\ Ends("transport")

ChildSays == Running /\ call.by = "child" /\ ~ call.said /\ call' = [call EXCEPT !.said = TRUE]

\* The output cap cuts the output off and signals the child.
OutputCapped ==
    /\ Running /\ call.by = "child" /\ call.said /\ ~ call.signalled
    /\ call' = [call EXCEPT !.signalled = TRUE]

TimerFires ==
    /\ Running /\ ~ call.timedOut
    /\ IF call.by = "child" THEN call' = [call EXCEPT !.timedOut = TRUE, !.signalled = TRUE]
       ELSE Ends("transport")

\* transportFailure, turnStdout: a timed-out child, and one that failed without a word, are retried.
ExitCode(code) == IF call.timedOut THEN 124 ELSE code
Transport(code) == call.timedOut \/ (ExitCode(code) # 0 /\ ~ call.said)
ChildEnd(code) == IF Transport(code) THEN "transport" ELSE IF ExitCode(code) = 0 THEN "answer" ELSE "failure"

\* `close`: a child that is signalled may still exit 0; without a code it counts as 1.
ChildCloses == \E code \in 0..1 :
    /\ Running /\ call.by = "child"
    /\ Ends(ChildEnd(code))

\* A request: no connection, an abort and a 5xx are transport failures; a 4xx is a failure, and
\* an answer that does not parse is an error.
Responds(status) ==
    CASE status \in {"lost", "5xx"} -> "transport" [] status \in {"4xx", "unreadable"} -> "failure" [] OTHER -> "answer"
RequestEnds == \E status \in {"lost", "5xx", "4xx", "unreadable", "ok"} :
    /\ Running /\ call.by = "request"
    /\ Ends(Responds(status))

\* withRetry: only a transport failure, and only while attempts are left.
Retries == call.end = "transport" /\ call.attempt < MaxCallAttempts
Retry == call.stage = "ended" /\ Retries /\ Start(call.by)

CallOver == call.stage = "ended" /\ ~ Retries
CallMoves == ChildFails \/ ChildSays \/ OutputCapped \/ TimerFires \/ ChildCloses \/ RequestEnds \/ Retry
=============================================================================

------------------------------ MODULE Pipeline ------------------------------
(* The processors a harness hangs on the hooks of the in-process loop: how a *)
(* list of them is put in order, and how an event goes through them. Each    *)
(* hook says what a processor may change; the event a processor was handed   *)
(* is the caller's own object, and may be changed in place.                  *)
EXTENDS Naturals, Sequences, FiniteSets, SequencesExt

-----------------------------------------------------------------------------
(* The order                                                                 *)

ORDER_RANK == [PRE |-> 0, NORMAL |-> 1, POST |-> 2]

Processor(name, hooks, group, order, act) ==
    [name |-> name, hooks |-> hooks, group |-> group, order |-> order, act |-> act, softAfter |-> {}]

\* What one does with an event: it edits the object in place, and what it yields, the object itself
\* ("same") or copies it changed.
Passes == [edit |-> "kept", yields |-> <<"same">>]
Copies == [edit |-> "kept", yields |-> <<"edits">>]

PolicyAuditProcessor == Processor("policy-audit", {"before_tool"}, "policy-audit", "POST", Passes)
SecretRedactProcessor == Processor("secret-redact", {"after_tool"}, "redaction", "PRE", Copies)
TranscriptProcessor == Processor("transcript", {"step_end", "task_end"}, "transcript", "NORMAL", Passes)
SecurityGateProcessor == Processor("security-gate", {"task_end"}, "security-gate", "POST", Passes)

\* createDefaultProcessorRegistry
DefaultRegistry == {PolicyAuditProcessor, SecretRedactProcessor, TranscriptProcessor, SecurityGateProcessor}

DEFAULT_BUNDLE_REFS == <<"policy-audit", "secret-redact", "transcript", "security-gate">>

\* create: a name the registry has.
Known(refs) == ToSet(refs) \subseteq {p.name : p \in DefaultRegistry}
Create(name) == CHOOSE p \in DefaultRegistry : p.name = name

\* No group has two processors.
GroupsSingle(processors) ==
    \A i, j \in DOMAIN processors : i # j /\ processors[i].group = processors[j].group => processors[i].group = ""

Builds(refs) == Known(refs) /\ GroupsSingle([i \in DOMAIN refs |-> Create(refs[i])])

ByRank(processors) ==
    LET Rank(i) == ORDER_RANK[processors[i].order]
        Before(i, j) == Rank(i) < Rank(j) \/ (Rank(i) = Rank(j) /\ i < j)
    IN  [k \in DOMAIN processors |-> processors[SetToSortSeq(DOMAIN processors, Before)[k]]]

\* Mutant of TopologicalOrder: by rank alone.
RankOrder(processors) == ByRank(processors)

\* One more is placed at a time, the first that waits for no group still to come; if each waits, the
\* first of all. (softAfter names groups; one that nobody occupies is not waited for.)
TopologicalOrder(processors) ==
    LET Groups(ps) == {ps[i].group : i \in DOMAIN ps} \ {""}
        Place(state, k) ==
            LET Ready(p) == p.softAfter \intersect Groups(processors) \subseteq Groups(state.placed)
                first == SelectInSeq(state.remaining, Ready)
                pick == IF first = 0 THEN 1 ELSE first
            IN  [remaining |-> RemoveAt(state.remaining, pick), placed |-> Append(state.placed, state.remaining[pick])]
        start == [remaining |-> processors, placed |-> <<>>]
    IN  ByRank(FoldLeft(Place, start, [k \in DOMAIN processors |-> k]).placed)

-----------------------------------------------------------------------------
(* An event: its hook, what a processor of that hook may change (open), and  *)
(* the rest (fixed). The open part of before_model is the history.           *)

INTERCEPTABLE == {"task_start", "step_start", "before_model", "after_model", "before_tool", "after_tool"}
HasOpenPart(hook) == hook \notin {"step_end", "task_end"}

Message(kind, text) == [kind |-> kind, text |-> text]

\* validateBeforeModelHistory: what was said stays; the last user message may be edited, one appended.
HistoryKept(before, after) ==
    LET n == Len(before) IN
    /\ Len(after) \in {n, n + 1}
    /\ \A i \in 1..(n - 1) : after[i] = before[i]
    /\ n > 0 => after[n] = before[n] \/ (before[n].kind = "user" /\ after[n].kind = "user")
    /\ Len(after) = n + 1 => after[n + 1].kind = "user"

\* validateContract, checkImmutablePrefix
ContractMet(hook, before, out) ==
    /\ out.hook = hook /\ out.fixed = before.fixed
    /\ ~ HasOpenPart(hook) => out.open = before.open
    /\ hook = "before_model" => HistoryKept(before.open, out.open)

\* What a processor may make of an event: nothing, its hook, its fixed part, or its open part.
Changes == {"kept", "hook", "fixed", "edits", "appends", "rewrites", "truncates"}
Changed(e, change) ==
    LET n == Len(e.open) IN
    CASE change = "kept"      -> e
      [] change = "hook"      -> [e EXCEPT !.hook = "another"]
      [] change = "fixed"     -> [e EXCEPT !.fixed = "changed"]
      [] change = "edits"     -> [e EXCEPT !.open = IF n = 0 THEN @ ELSE [@ EXCEPT ![n].text = "edited"]]
      [] change = "appends"   -> [e EXCEPT !.open = Append(@, Message("user", "appended"))]
      [] change = "rewrites"  -> [e EXCEPT !.open = IF n = 0 THEN @ ELSE [@ EXCEPT ![1] = Message("user", "rewritten")]]
      [] change = "truncates" -> [e EXCEPT !.open = IF n = 0 THEN @ ELSE Tail(@)]

\* One of the current events: the caller's own object, or one of its own.
Own == [own |-> TRUE]
Other(e) == [own |-> FALSE, event |-> e]
Content(caller, e) == IF e.own THEN caller ELSE e.event

\* Mutant of MustMeet: an event that is not emitted is not looked at.
EmittedMeet(emitted, after) == {emitted[i] : i \in DOMAIN emitted}

\* What is checked: all that was emitted, and the event itself.
MustMeet(emitted, after) == {emitted[i] : i \in DOMAIN emitted} \union {after}

\* One processor and one of the current events.
Process(hook, act, state, e) ==
    LET before  == Content(state.caller, e)
        after   == Changed(before, act.edit)
        emitted == [i \in DOMAIN act.yields |-> IF act.yields[i] = "same" THEN after ELSE Changed(before, act.yields[i])]
        listed  == [i \in DOMAIN act.yields |-> IF act.yields[i] = "same" /\ e.own THEN Own ELSE Other(emitted[i])]
    IN  [caller |-> IF e.own THEN after ELSE state.caller,
         next   |-> state.next \o listed,
         threw  |-> state.threw \/ \E out \in MustMeet(emitted, after) : ~ ContractMet(hook, before, out)]

\* One processor and all of them. Nothing left ends the pass, on a hook that may be intercepted.
Pass(hook, act, state) ==
    IF state.threw \/ state.current = <<>> THEN state
    ELSE LET Step(s, e) == Process(hook, act, s, e)
             done == FoldLeft(Step, [caller |-> state.caller, next |-> <<>>, threw |-> FALSE], state.current)
         IN  [caller |-> done.caller, current |-> done.next,
              threw |-> done.threw \/ (done.next = <<>> /\ hook \notin INTERCEPTABLE)]

\* run: the event through the hook's processors, each given by its act.
RunHook(hook, acts, event) ==
    LET Step(state, act) == Pass(hook, act, state)
        done == FoldLeft(Step, [caller |-> event, current |-> <<Own>>, threw |-> FALSE], acts)
    IN  [caller |-> done.caller, threw |-> done.threw,
         events |-> [i \in DOMAIN done.current |-> Content(done.caller, done.current[i])]]

\* A hook of the loop under a bundle: its processors in order, and the one event it goes on with,
\* "intercepted", or "throws" for a processor that breaks its contract or splits the event (firstEvent).
ByHook(refs, hook) == SelectSeq(TopologicalOrder([i \in DOMAIN refs |-> Create(refs[i])]), LAMBDA p : hook \in p.hooks)
FirstEvent(run) ==
    IF run.threw \/ Len(run.events) > 1 THEN "throws" ELSE IF run.events = <<>> THEN "intercepted" ELSE run.events[1]
Hook(refs, event) ==
    LET ps == ByHook(refs, event.hook) IN FirstEvent(RunHook(event.hook, [i \in DOMAIN ps |-> ps[i].act], event))
=============================================================================

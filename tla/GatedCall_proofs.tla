---------------------------- MODULE GatedCall_proofs ---------------------------
(***************************************************************************)
(* The safety properties of GatedCall, for any calls, ids and hashes, and  *)
(* any number of typed lines.                                              *)
(***************************************************************************)
EXTENDS GatedCall, PatchCycle, SequenceTheorems, TLAPS

--------------------------------------------------------------------------------
(***************************************************************************)
(* The inductive invariant                                                 *)
(***************************************************************************)

\* What has happened to a call by the time it stands where it stands.
Untouched(c) == verdict[c] = None /\ bound[c] = None /\ shown[c] = None

ByStage(c) ==
    /\ stage[c] \in {"new", "policy"} => Untouched(c)
    /\ stage[c] = "asked" => verdict[c] = "Escalate" /\ bound[c] # None
    /\ stage[c] \in {"new", "policy", "asked", "executing"} => records[c] = <<>> /\ c \notin acted
    /\ stage[c] = "executing" => Permitted(c)
    /\ stage[c] = "recording" => records[c] # <<>>
    /\ stage[c] = "returned" => c \in acted

\* The record of a call: none, one refusal, or one run under its verdict.
Recorded(c) ==
    \/ records[c] = <<>> /\ c \notin acted
    \/ records[c] = <<"refused">> /\ c \notin acted
    \/ records[c] = <<verdict[c]>> /\ c \in acted /\ Permitted(c)

\* An approval of c binds what was shown, and was given under c's prompt.
Good(c, d) ==
    d.status = "Approved" => bound[c] # None /\ d.by = c /\ d.hash = shown[c] /\ d.hash = ask[c]

\* The decision on a call: none before the gate settles it, then one.
Decided(c) ==
    IF verdict[c] = "Escalate" /\ stage[c] # "asked" /\ provider # "none"
    THEN Len(decisions[c]) = 1 /\ Good(c, decisions[c][1])
    ELSE decisions[c] = <<>>

CallOK(c) == ByStage(c) /\ Recorded(c) /\ Decided(c)

\* An id is good for one request.
OneRequest ==
    /\ \A c \in Call : bound[c] # None => IdOf[c] \in seen
    /\ \A c, d \in Call : bound[c] # None /\ bound[d] # None /\ IdOf[c] = IdOf[d] => c = d

\* Only a shown prompt has a code to type; the queue holds each unshown call once.
Prompts ==
    /\ \A c \in Call : shown[c] # None => shown[c] = bound[c]
    /\ prompt # None => stage[prompt] = "asked" /\ shown[prompt] # None
    /\ \A i \in 1 .. Len(queue) : stage[queue[i]] = "asked" /\ shown[queue[i]] = None
    /\ \A i, j \in 1 .. Len(queue) : queue[i] = queue[j] => i = j
    /\ provider # "terminal" => queue = <<>> /\ prompt = None

\* A line that could approve the prompt was typed under it.
LineOK(line) ==
    /\ line.code # None => \E c \in Call : shown[c] # None /\ line.code = Code(c)
    /\ prompt # None /\ line.code = Code(prompt) => line.on = prompt

Lines == \A i \in 1 .. Len(inbox) : LineOK(inbox[i])

IInv == TypeOK /\ (\A c \in Call : CallOK(c)) /\ OneRequest /\ Prompts /\ Lines

LEMMA Initially == Init => IInv
<1> SUFFICES ASSUME Init PROVE IInv
    OBVIOUS
<1>1. TypeOK
    <2>1. decisions \in [Call -> Seq(Decision)] /\ records \in [Call -> Seq(Verdict \cup {"refused"})]
        BY DEF Init
    <2>2. queue \in Seq(Call) /\ inbox \in Seq(Line) /\ typed \in 0 .. MaxLines
        BY AsksAssumption DEF Init
    <2>3. stage \in [Call -> Stage]
        BY DEF Init, Stage
    <2> QED BY <2>1, <2>2, <2>3, AsksAssumption DEF Init, TypeOK
<1>2. ASSUME NEW c \in Call PROVE CallOK(c)
    <2>1. /\ stage[c] = "new" /\ verdict[c] = None /\ bound[c] = None /\ shown[c] = None
          /\ records[c] = <<>> /\ decisions[c] = <<>> /\ c \notin acted
        BY DEF Init
    <2>2. verdict[c] # "Escalate"
        BY <2>1, AsksAssumption DEF Verdict
    <2>3. ByStage(c)
        BY <2>1 DEF ByStage, Untouched
    <2>4. Recorded(c)
        BY <2>1 DEF Recorded
    <2>5. Decided(c)
        BY <2>1, <2>2 DEF Decided
    <2> QED BY <2>3, <2>4, <2>5 DEF CallOK
<1>3. OneRequest
    BY DEF Init, OneRequest
<1>4. Prompts
    BY DEF Init, Prompts
<1>5. Lines
    BY DEF Init, Lines
<1> QED BY <1>1, <1>2, <1>3, <1>4, <1>5 DEF IInv

--------------------------------------------------------------------------------
(***************************************************************************)
(* What a step leaves alone                                                *)
(***************************************************************************)

\* A call stands as it stood when its own fields do.
LEMMA CallStands ==
    ASSUME NEW d, CallOK(d), provider' = provider,
           stage'[d] = stage[d], verdict'[d] = verdict[d], bound'[d] = bound[d],
           shown'[d] = shown[d], ask'[d] = ask[d], decisions'[d] = decisions[d],
           records'[d] = records[d], d \in acted' <=> d \in acted
    PROVE  CallOK(d)'
<1>1. Approvals(d)' = Approvals(d)
    BY DEF Approvals
<1>2. Permitted(d)' <=> Permitted(d)
    BY <1>1 DEF Permitted
<1>3. ByStage(d)'
    BY <1>2 DEF CallOK, ByStage, Untouched
<1>4. Recorded(d)'
    BY <1>2 DEF CallOK, Recorded
<1>5. Decided(d)'
    BY DEF CallOK, Decided, Good
<1> QED BY <1>3, <1>4, <1>5 DEF CallOK

LEMMA LinesStand ==
    ASSUME Lines, UNCHANGED <<inbox, prompt, shown, bound>>
    PROVE  Lines'
BY DEF Lines, LineOK, Code

LEMMA OneRequestStands ==
    ASSUME OneRequest, UNCHANGED bound, seen \subseteq seen'
    PROVE  OneRequest'
BY DEF OneRequest

\* A step of a call that is not at the gate leaves the terminal as it was.
LEMMA PromptsStand ==
    ASSUME TypeOK, Prompts, NEW c \in Call, stage[c] # "asked",
           UNCHANGED <<provider, queue, prompt, shown, bound>>,
           \A d \in Call \ {c} : stage'[d] = stage[d]
    PROVE  Prompts'
<1>1. \A i \in 1 .. Len(queue) : queue[i] \in Call
    BY DEF TypeOK
<1>2. prompt # None => prompt \in Call
    BY DEF TypeOK
<1> QED BY <1>1, <1>2 DEF Prompts

\* A step of one call, away from the gate's shared state.
Alone(c) ==
    /\ UNCHANGED <<provider, queue, prompt, shown, bound, inbox>>
    /\ \A d \in Call \ {c} :
        /\ stage'[d] = stage[d] /\ verdict'[d] = verdict[d] /\ ask'[d] = ask[d]
        /\ decisions'[d] = decisions[d] /\ records'[d] = records[d]
        /\ d \in acted' <=> d \in acted

LEMMA AloneKeeps ==
    ASSUME IInv, NEW c \in Call, stage[c] # "asked", Alone(c), seen \subseteq seen',
           TypeOK', CallOK(c)'
    PROVE  IInv'
<1>1. ASSUME NEW d \in Call PROVE CallOK(d)'
    BY CallStands, <1>1 DEF IInv, Alone
<1>2. OneRequest'
    BY OneRequestStands DEF IInv, Alone
<1>3. Prompts'
    BY PromptsStand DEF IInv, Alone
<1>4. Lines'
    BY LinesStand DEF IInv, Alone
<1> QED BY <1>1, <1>2, <1>3, <1>4 DEF IInv

--------------------------------------------------------------------------------
(***************************************************************************)
(* The steps of executeToolGated                                           *)
(***************************************************************************)

LEMMA RecordTyped ==
    ASSUME TypeOK, NEW c \in Call, NEW what \in Verdict \cup {"refused"}, Record(c, what)
    PROVE  records' \in [Call -> Seq(Verdict \cup {"refused"})]
BY DEF Record, TypeOK

LEMMA BeginKeeps ==
    ASSUME IInv, NEW c \in Call, Begin(c)
    PROVE  IInv'
<1>1. stage[c] = "new" /\ CallOK(c) /\ TypeOK
    BY DEF IInv, Begin
<1>2. TypeOK'
    <2>1. stage' \in [Call -> Stage]
        BY <1>1 DEF Begin, Refuse, Record, Goto, TypeOK, Stage
    <2>2. records' \in [Call -> Seq(Verdict \cup {"refused"})]
        <3>1. Refuse(c) \/ UNCHANGED records
            BY DEF Begin
        <3> QED BY <1>1, <3>1, RecordTyped DEF Refuse, TypeOK
    <2>3. UNCHANGED <<provider, ask, bound, seen, decisions, queue, prompt, inbox, typed, ended, shown, verdict, acted>>
        BY DEF Begin, gateVars, terminalVars
    <2> QED BY <1>1, <2>1, <2>2, <2>3 DEF TypeOK
<1>3. Alone(c)
    BY <1>1 DEF Begin, Refuse, Record, Goto, TypeOK, Alone, gateVars, terminalVars
<1>4. /\ UNCHANGED <<provider, seen, acted>>
      /\ verdict'[c] = verdict[c] /\ bound'[c] = bound[c] /\ shown'[c] = shown[c]
      /\ decisions'[c] = decisions[c]
      /\ \/ stage'[c] \in {"policy", "failed"} /\ records'[c] = <<>>
         \/ stage'[c] = "recording" /\ records'[c] = <<"refused">>
    BY <1>1 DEF Begin, Refuse, Record, Goto, TypeOK, CallOK, ByStage, gateVars, terminalVars
<1>5. CallOK(c)'
    <2>1. ByStage(c)'
        <3>1. CASE stage'[c] \in {"policy", "failed"} /\ records'[c] = <<>>
            BY <1>1, <1>4, <3>1 DEF CallOK, ByStage, Untouched
        <3>2. CASE stage'[c] = "recording" /\ records'[c] = <<"refused">>
            BY <3>2 DEF ByStage
        <3> QED BY <1>4, <3>1, <3>2
    <2>2. Recorded(c)'
        BY <1>1, <1>4 DEF CallOK, ByStage, Recorded
    <2>3. Decided(c)'
        BY <1>1, <1>4, AsksAssumption DEF CallOK, ByStage, Decided, Untouched, Verdict
    <2> QED BY <2>1, <2>2, <2>3 DEF CallOK
<1> QED BY <1>1, <1>2, <1>3, <1>4, <1>5, AloneKeeps

LEMMA PolicyDecidesKeeps ==
    ASSUME IInv, NEW c \in Call, PolicyDecides(c)
    PROVE  IInv'
<1>1. stage[c] = "policy" /\ CallOK(c) /\ TypeOK
    BY DEF IInv, PolicyDecides
<1>2. TypeOK'
    <2>1. stage' \in [Call -> Stage]
        BY ZenonT(40), <1>1 DEF PolicyDecides, Refuse, Record, Goto, TypeOK, Stage
    <2>2. records' \in [Call -> Seq(Verdict \cup {"refused"})]
        <3>1. Refuse(c) \/ UNCHANGED records
            BY DEF PolicyDecides
        <3> QED BY <1>1, <3>1, RecordTyped DEF Refuse, TypeOK
    <2>3. verdict' \in [Call -> Verdict \cup {None}]
        BY <1>1 DEF PolicyDecides, TypeOK, Verdict
    <2>4. UNCHANGED <<provider, ask, bound, seen, decisions, queue, prompt, inbox, typed, ended, shown, acted>>
        BY DEF PolicyDecides, gateVars, terminalVars
    <2> QED BY <1>1, <2>1, <2>2, <2>3, <2>4 DEF TypeOK
<1>3. Alone(c)
    BY <1>1 DEF PolicyDecides, Refuse, Record, Goto, TypeOK, Alone, gateVars, terminalVars
<1>4. /\ UNCHANGED <<provider, seen, acted>>
      /\ decisions'[c] = decisions[c]
      /\ \/ stage'[c] = "executing" /\ records'[c] = <<>> /\ verdict'[c] = "Allow"
         \/ stage'[c] = "recording" /\ records'[c] = <<"refused">> /\ verdict'[c] = "Deny"
         \/ stage'[c] = "failed" /\ records'[c] = <<>> /\ verdict'[c] = verdict[c]
    BY <1>1 DEF PolicyDecides, Refuse, Record, Goto, TypeOK, CallOK, ByStage, gateVars, terminalVars
<1>5. CallOK(c)'
    <2>1. ByStage(c)'
        <3>1. CASE stage'[c] = "executing" /\ records'[c] = <<>> /\ verdict'[c] = "Allow"
            BY <1>1, <1>4, <3>1 DEF CallOK, ByStage, Permitted
        <3>2. CASE stage'[c] = "recording" /\ records'[c] = <<"refused">>
            BY <3>2 DEF ByStage
        <3>3. CASE stage'[c] = "failed"
            BY <3>3 DEF ByStage
        <3> QED BY <1>4, <3>1, <3>2, <3>3
    <2>2. Recorded(c)'
        BY <1>1, <1>4 DEF CallOK, ByStage, Recorded
    <2>3. Decided(c)'
        BY <1>1, <1>4, AsksAssumption DEF CallOK, ByStage, Decided, Untouched, Verdict
    <2> QED BY <2>1, <2>2, <2>3 DEF CallOK
<1> QED BY <1>1, <1>2, <1>3, <1>4, <1>5, AloneKeeps

LEMMA NoGateKeeps ==
    ASSUME IInv, NEW c \in Call, NoGate(c)
    PROVE  IInv'
<1>1. stage[c] = "policy" /\ CallOK(c) /\ TypeOK
    BY DEF IInv, NoGate
<1>2. TypeOK'
    BY <1>1 DEF NoGate, Refuse, Record, Goto, TypeOK, Stage, Verdict, gateVars, terminalVars
<1>3. Alone(c)
    BY <1>1 DEF NoGate, Refuse, Record, Goto, TypeOK, Alone, gateVars, terminalVars
<1>4. /\ UNCHANGED <<provider, seen, acted>> /\ provider = "none"
      /\ decisions'[c] = decisions[c] /\ verdict'[c] = "Escalate"
      /\ stage'[c] = "recording" /\ records'[c] = <<"refused">>
    BY <1>1 DEF NoGate, Refuse, Record, Goto, TypeOK, CallOK, ByStage, gateVars, terminalVars
<1>5. CallOK(c)'
    <2>1. ByStage(c)'
        BY <1>1, <1>4 DEF CallOK, ByStage
    <2>2. Recorded(c)'
        BY <1>1, <1>4 DEF CallOK, ByStage, Recorded
    <2>3. Decided(c)'
        BY <1>1, <1>4, AsksAssumption DEF CallOK, ByStage, Decided, Untouched, Verdict
    <2> QED BY <2>1, <2>2, <2>3 DEF CallOK
<1> QED BY <1>1, <1>2, <1>3, <1>4, <1>5, AloneKeeps

LEMMA GateRefusesKeeps ==
    ASSUME IInv, NEW c \in Call, GateRefuses(c)
    PROVE  IInv'
<1> DEFINE d == [status |-> "Rejected", hash |-> ask[c], by |-> None]
<1>1. stage[c] = "policy" /\ CallOK(c) /\ TypeOK
    BY DEF IInv, GateRefuses
<1>2. decisions[c] = <<>> /\ records[c] = <<>> /\ c \notin acted
    BY <1>1, AsksAssumption DEF CallOK, ByStage, Decided, Untouched, Verdict
<1>3. d \in Decision
    BY <1>1 DEF TypeOK, Status, Decision
<1>4. /\ decisions' = [decisions EXCEPT ![c] = Append(@, d)]
      /\ records' = [records EXCEPT ![c] = Append(@, "refused")]
      /\ stage' = [stage EXCEPT ![c] = "recording"]
      /\ verdict' = [verdict EXCEPT ![c] = "Escalate"]
      /\ seen \subseteq seen' /\ seen' \subseteq Id
      /\ UNCHANGED <<provider, ask, bound, queue, prompt, inbox, typed, ended, shown, acted>>
    BY <1>1, AsksAssumption
    DEF GateRefuses, Refuse, Record, Settle, Goto, TypeOK, terminalVars
<1>5. decisions'[c] = <<d>> /\ d.status = "Rejected"
    BY <1>1, <1>2, <1>4 DEF TypeOK
<1>6. TypeOK'
    <2>1. decisions' \in [Call -> Seq(Decision)]
        BY <1>1, <1>3, <1>4 DEF TypeOK
    <2>2. records' \in [Call -> Seq(Verdict \cup {"refused"})]
        BY <1>1, <1>4 DEF TypeOK
    <2>3. stage' \in [Call -> Stage] /\ verdict' \in [Call -> Verdict \cup {None}]
        BY <1>1, <1>4 DEF TypeOK, Stage, Verdict
    <2> QED BY <1>1, <1>4, <2>1, <2>2, <2>3 DEF TypeOK
<1>7. Alone(c)
    BY <1>1, <1>4 DEF TypeOK, Alone
<1>8. stage'[c] = "recording" /\ records'[c] = <<"refused">>
    BY <1>1, <1>2, <1>4 DEF TypeOK
<1>9. CallOK(c)'
    <2>1. ByStage(c)'
        BY <1>2, <1>4, <1>8 DEF ByStage
    <2>2. Recorded(c)'
        BY <1>2, <1>4, <1>8 DEF Recorded
    <2>3. Decided(c)'
        <3>1. provider' # "none" /\ verdict'[c] = "Escalate"
            BY <1>1, <1>4 DEF GateRefuses, TypeOK
        <3>2. Len(decisions'[c]) = 1 /\ decisions'[c][1].status = "Rejected"
            <4> HIDE DEF d
            <4> QED BY <1>5
        <3> QED BY <1>8, <3>1, <3>2 DEF Decided, Good
    <2> QED BY <2>1, <2>2, <2>3 DEF CallOK
<1> QED BY <1>1, <1>4, <1>6, <1>7, <1>9, AloneKeeps

LEMMA ToolEndsKeeps ==
    ASSUME IInv, NEW c \in Call, ToolEnds(c)
    PROVE  IInv'
<1>1. stage[c] = "executing" /\ CallOK(c) /\ TypeOK
    BY DEF IInv, ToolEnds
<1>2. UNCHANGED <<provider, ask, bound, seen, decisions, queue, prompt, inbox, typed, ended, shown, verdict>>
    BY DEF ToolEnds, gateVars, terminalVars
<1>3. records[c] = <<>> /\ c \notin acted /\ Permitted(c) /\ Permitted(c)'
    BY <1>1, <1>2 DEF CallOK, ByStage, Permitted, Approvals
<1>4. verdict[c] \in {"Allow", "Escalate"}
    BY <1>3 DEF Permitted
<1>5. TypeOK'
    <2>1. stage' \in [Call -> Stage]
        BY <1>1 DEF ToolEnds, Refuse, Record, Goto, TypeOK, Stage
    <2>2. records' \in [Call -> Seq(Verdict \cup {"refused"})]
        <3>1. Refuse(c) \/ Record(c, verdict[c]) \/ UNCHANGED records
            BY DEF ToolEnds
        <3>2. verdict[c] \in Verdict
            BY <1>4 DEF Verdict
        <3> QED BY <1>1, <3>1, <3>2, RecordTyped DEF Refuse, TypeOK
    <2>3. acted' \subseteq Call
        BY <1>1 DEF ToolEnds, TypeOK
    <2> QED BY <1>1, <1>2, <2>1, <2>2, <2>3 DEF TypeOK
<1>6. Alone(c)
    BY <1>1, <1>2 DEF ToolEnds, Refuse, Record, Goto, TypeOK, Alone
<1>7. \/ stage'[c] = "recording" /\ records'[c] = <<verdict[c]>> /\ c \in acted'
      \/ stage'[c] = "recording" /\ records'[c] = <<"refused">> /\ c \notin acted'
      \/ stage'[c] = "failed" /\ records'[c] = <<>> /\ c \notin acted'
    BY <1>1, <1>3, <1>4 DEF ToolEnds, Refuse, Record, Goto, TypeOK, Verdict
<1>8. CallOK(c)'
    <2>1. ByStage(c)'
        <3>1. CASE stage'[c] = "recording"
            <4>1. records'[c] # <<>>
                BY <1>7, <3>1
            <4> QED BY <3>1, <4>1 DEF ByStage
        <3>2. CASE stage'[c] = "failed"
            BY <3>2 DEF ByStage
        <3> QED BY <1>7, <3>1, <3>2
    <2>2. Recorded(c)'
        BY <1>2, <1>3, <1>7 DEF Recorded
    <2>3. Decided(c)'
        BY <1>1, <1>2, <1>7 DEF CallOK, Decided, Good
    <2> QED BY <2>1, <2>2, <2>3 DEF CallOK
<1> QED BY <1>1, <1>2, <1>5, <1>6, <1>8, AloneKeeps

LEMMA RecordEndsKeeps ==
    ASSUME IInv, NEW c \in Call, RecordEnds(c)
    PROVE  IInv'
<1>1. stage[c] = "recording" /\ CallOK(c) /\ TypeOK
    BY DEF IInv, RecordEnds
<1>2. UNCHANGED <<provider, ask, bound, seen, decisions, queue, prompt, inbox, typed, ended, shown, verdict, records, acted>>
    BY DEF RecordEnds, gateVars, terminalVars
<1>3. stage' \in [Call -> Stage]
    BY <1>1 DEF RecordEnds, Goto, TypeOK, Stage
<1>4. TypeOK'
    BY <1>1, <1>2, <1>3 DEF TypeOK
<1>5. Alone(c)
    BY <1>1, <1>2 DEF RecordEnds, Goto, TypeOK, Alone
<1>6. \/ stage'[c] = "returned" /\ c \in acted
      \/ stage'[c] = "failed"
    BY <1>1 DEF RecordEnds, Goto, TypeOK, CallOK, ByStage, Recorded
<1>7. CallOK(c)'
    <2>1. ByStage(c)'
        BY <1>2, <1>6 DEF ByStage
    <2>2. Recorded(c)'
        BY <1>1, <1>2 DEF CallOK, Recorded, Permitted, Approvals
    <2>3. Decided(c)'
        BY <1>1, <1>2, <1>6 DEF CallOK, Decided, Good
    <2> QED BY <2>1, <2>2, <2>3 DEF CallOK
<1> QED BY <1>1, <1>2, <1>4, <1>5, <1>7, AloneKeeps

\* While a call is at the policy or the gate no decision speaks of its ask.
LEMMA AskChangesKeeps ==
    ASSUME IInv, NEW c \in Call, AskChanges(c)
    PROVE  IInv'
<1>1. stage[c] \in {"policy", "asked"} /\ TypeOK
    BY DEF IInv, AskChanges
<1>2. /\ ask' \in [Call -> Hash \cup {None}]
      /\ \A d \in Call \ {c} : ask'[d] = ask[d]
    BY <1>1 DEF AskChanges, TypeOK
<1>3. UNCHANGED <<provider, stage, verdict, bound, seen, queue, prompt, inbox, typed, ended,
                  decisions, records, acted, shown>>
    BY DEF AskChanges, terminalVars, callVars
<1>4. TypeOK'
    BY <1>1, <1>2, <1>3 DEF TypeOK
<1>5. ASSUME NEW d \in Call PROVE CallOK(d)'
    <2>1. CASE d # c
        BY <1>2, <1>3, <2>1, CallStands DEF IInv
    <2>2. CASE d = c
        <3>1. CallOK(c)
            BY DEF IInv
        <3>2. ByStage(c)' /\ Recorded(c)'
            BY <1>3, <3>1 DEF CallOK, ByStage, Recorded, Untouched, Permitted, Approvals
        <3>3. Decided(c)'
            BY <1>1, <1>3, <3>1, AsksAssumption DEF CallOK, ByStage, Decided, Untouched, Verdict
        <3> QED BY <2>2, <3>2, <3>3 DEF CallOK
    <2> QED BY <2>1, <2>2
<1>6. OneRequest' /\ Lines'
    BY <1>3, OneRequestStands, LinesStand DEF IInv
<1>7. Prompts'
    BY <1>3 DEF IInv, Prompts
<1> QED BY <1>4, <1>5, <1>6, <1>7 DEF IInv

--------------------------------------------------------------------------------
(***************************************************************************)
(* The steps of the gate and the terminal                                  *)
(***************************************************************************)

LEMMA GateAsksKeeps ==
    ASSUME IInv, NEW c \in Call, GateAsks(c)
    PROVE  IInv'
<1>1. stage[c] = "policy" /\ CallOK(c) /\ TypeOK /\ provider # "none"
    BY DEF IInv, GateAsks
<1>2. /\ records[c] = <<>> /\ c \notin acted /\ decisions[c] = <<>>
      /\ shown[c] = None /\ bound[c] = None
    BY <1>1, AsksAssumption DEF CallOK, ByStage, Decided, Untouched, Verdict
<1>3. /\ ask[c] # None /\ IdOf[c] \notin seen /\ IdOf[c] \in Id
      /\ verdict' = [verdict EXCEPT ![c] = "Escalate"]
      /\ seen' = seen \cup {IdOf[c]}
      /\ bound' = [bound EXCEPT ![c] = ask[c]]
      /\ stage' = [stage EXCEPT ![c] = "asked"]
      /\ UNCHANGED <<provider, ask, decisions, prompt, inbox, typed, ended, shown, records, acted>>
    BY AsksAssumption DEF GateAsks, Unusable, Goto
<1>4. queue' = IF provider = "terminal" THEN Append(queue, c) ELSE queue
    BY DEF GateAsks
<1>5. TypeOK'
    <2>1. queue' \in Seq(Call)
        BY <1>1, <1>4 DEF TypeOK
    <2>2. stage' \in [Call -> Stage] /\ verdict' \in [Call -> Verdict \cup {None}]
        BY <1>1, <1>3 DEF TypeOK, Stage, Verdict
    <2>3. bound' \in [Call -> Hash \cup {None}] /\ seen' \subseteq Id
        BY <1>1, <1>3 DEF TypeOK
    <2> QED BY <1>1, <1>3, <2>1, <2>2, <2>3 DEF TypeOK
<1>6. /\ stage'[c] = "asked" /\ verdict'[c] = "Escalate" /\ bound'[c] = ask[c]
      /\ \A d \in Call \ {c} :
            stage'[d] = stage[d] /\ verdict'[d] = verdict[d] /\ bound'[d] = bound[d]
    BY <1>1, <1>3 DEF TypeOK
<1>7. ASSUME NEW d \in Call PROVE CallOK(d)'
    <2>1. CASE d # c
        BY <1>3, <1>6, <2>1, CallStands DEF IInv
    <2>2. CASE d = c
        <3>1. ByStage(c)'
            BY <1>2, <1>3, <1>6 DEF ByStage
        <3>2. Recorded(c)' /\ Decided(c)'
            BY <1>2, <1>3, <1>6 DEF Recorded, Decided
        <3> QED BY <2>2, <3>1, <3>2 DEF CallOK
    <2> QED BY <2>1, <2>2
<1>8. OneRequest'
    BY <1>3, <1>6 DEF IInv, OneRequest
<1>9. Prompts'
    <2>1. \A d \in Call : shown'[d] # None => shown'[d] = bound'[d]
        BY <1>2, <1>3, <1>6 DEF IInv, Prompts
    <2>2. prompt' # None => stage'[prompt'] = "asked" /\ shown'[prompt'] # None
        BY <1>1, <1>3, <1>6 DEF IInv, Prompts, TypeOK
    <2>3. \A i \in 1 .. Len(queue) : queue[i] \in Call \ {c} /\ stage[queue[i]] = "asked"
        BY <1>1 DEF IInv, Prompts, TypeOK
    <2>4. CASE provider = "terminal"
        <3>0. Len(queue) \in Nat
            BY <1>1 DEF TypeOK
        <3>1. /\ Len(queue') = Len(queue) + 1
              /\ \A i \in 1 .. Len(queue) : queue'[i] = queue[i]
              /\ queue'[Len(queue) + 1] = c
            BY <1>1, <1>4, <2>4 DEF TypeOK
        <3>2. \A i \in 1 .. Len(queue') : stage'[queue'[i]] = "asked" /\ shown'[queue'[i]] = None
            <4> TAKE i \in 1 .. Len(queue')
            <4>1. CASE i = Len(queue) + 1
                BY <1>2, <1>3, <1>6, <3>1, <4>1
            <4>2. CASE i # Len(queue) + 1
                <5>1. i \in 1 .. Len(queue) /\ queue'[i] = queue[i]
                    BY <3>1, <4>2, <3>0
                <5>2. queue[i] \in Call \ {c} /\ stage[queue[i]] = "asked" /\ shown[queue[i]] = None
                    BY <2>3, <5>1 DEF IInv, Prompts
                <5> QED BY <1>3, <1>6, <5>1, <5>2
            <4> QED BY <4>1, <4>2
        <3>3. \A i, j \in 1 .. Len(queue') : queue'[i] = queue'[j] => i = j
            <4> SUFFICES ASSUME NEW i \in 1 .. Len(queue) + 1, NEW j \in 1 .. Len(queue) + 1,
                                queue'[i] = queue'[j]
                         PROVE  i = j
                BY <3>1
            <4>1. CASE i \in 1 .. Len(queue) /\ j \in 1 .. Len(queue)
                BY <3>1, <4>1 DEF IInv, Prompts
            <4>2. CASE i = Len(queue) + 1 /\ j \in 1 .. Len(queue)
                BY <2>3, <3>1, <4>2
            <4>3. CASE j = Len(queue) + 1 /\ i \in 1 .. Len(queue)
                BY <2>3, <3>1, <4>3
            <4> QED BY <3>0, <4>1, <4>2, <4>3
        <3> QED BY <1>3, <2>1, <2>2, <2>4, <3>2, <3>3 DEF Prompts
    <2>5. CASE provider # "terminal"
        BY <1>3, <1>4, <1>6, <2>1, <2>2, <2>3, <2>5 DEF IInv, Prompts
    <2> QED BY <2>4, <2>5
<1>10. Lines'
    <2>1. ASSUME NEW line \in Line, LineOK(line) PROVE LineOK(line)'
        <3>1. ASSUME line.code # None
              PROVE  \E d \in Call : shown'[d] # None /\ line.code = Code(d)'
            <4>1. PICK d \in Call : shown[d] # None /\ line.code = Code(d)
                BY <2>1, <3>1 DEF LineOK
            <4> QED BY <1>2, <1>3, <1>6, <4>1 DEF Code
        <3>2. ASSUME prompt # None PROVE bound'[prompt] = bound[prompt]
            BY <1>1, <1>6, <3>2 DEF IInv, Prompts, TypeOK
        <3>3. ASSUME prompt # None, line.code = <<IdOf[prompt], bound'[prompt]>>
              PROVE  line.on = prompt
            BY <2>1, <3>2, <3>3 DEF LineOK, Code
        <3>4. prompt' = prompt
            BY <1>3
        <3>5. (prompt # None /\ line.code = Code(prompt) => line.on = prompt)'
            BY <3>3, <3>4 DEF Code
        <3>6. (line.code # None => \E d \in Call : shown[d] # None /\ line.code = Code(d))'
            BY <3>1
        <3> QED BY <3>5, <3>6 DEF LineOK
    <2>2. \A i \in 1 .. Len(inbox) : inbox[i] \in Line /\ LineOK(inbox[i])
        BY <1>1 DEF IInv, Lines, TypeOK
    <2>3. inbox' = inbox
        BY <1>3
    <2> QED BY <2>1, <2>2, <2>3 DEF Lines, LineOK
<1> QED BY <1>5, <1>7, <1>8, <1>9, <1>10 DEF IInv

LEMMA ShowKeeps ==
    ASSUME IInv, Show
    PROVE  IInv'
<1>0. PICK c \in Call : c = Head(queue)
    BY DEF IInv, Show, TypeOK
<1>1. TypeOK /\ prompt = None /\ queue # <<>> /\ Len(queue) > 0 /\ c = queue[1]
    BY <1>0 DEF IInv, Show, TypeOK
<1>2. stage[c] = "asked" /\ shown[c] = None /\ bound[c] # None
    BY <1>1 DEF IInv, Prompts, CallOK, ByStage
<1>3. /\ prompt' = c /\ queue' = Tail(queue)
      /\ shown' = [shown EXCEPT ![c] = bound[c]]
      /\ UNCHANGED <<provider, ask, bound, seen, decisions, stage, verdict, records, acted,
                     inbox, typed, ended>>
    BY <1>0 DEF Show, gateVars, callVars
<1>4. shown'[c] = bound[c] /\ \A d \in Call \ {c} : shown'[d] = shown[d]
    BY <1>1, <1>3 DEF TypeOK
<1>5. TypeOK'
    <2>1. queue' \in Seq(Call) /\ prompt' \in Call \cup {None}
        BY <1>1, <1>3 DEF TypeOK
    <2>2. shown' \in [Call -> Hash \cup {None}]
        BY <1>1, <1>3 DEF TypeOK
    <2> QED BY <1>1, <1>3, <2>1, <2>2 DEF TypeOK
<1>6. ASSUME NEW d \in Call PROVE CallOK(d)'
    <2>1. CASE d # c
        BY <1>3, <1>4, <2>1, CallStands DEF IInv
    <2>2. CASE d = c
        <3>1. CallOK(c)
            BY <1>1 DEF IInv
        <3>2. ByStage(c)' /\ Recorded(c)'
            BY <1>2, <1>3, <3>1 DEF CallOK, ByStage, Recorded, Permitted, Approvals
        <3>3. Decided(c)'
            BY <1>2, <1>3, <3>1 DEF CallOK, Decided
        <3> QED BY <2>2, <3>2, <3>3 DEF CallOK
    <2> QED BY <2>1, <2>2
<1>7. OneRequest'
    BY <1>3, OneRequestStands DEF IInv
<1>8. Prompts'
    <2>1. /\ Len(queue') = Len(queue) - 1
          /\ \A i \in 1 .. Len(queue') : i + 1 \in 1 .. Len(queue) /\ queue'[i] = queue[i + 1]
        BY <1>1, <1>3 DEF TypeOK
    <2>2. \A i \in 1 .. Len(queue') : queue'[i] # c
        BY <1>1, <2>1 DEF IInv, Prompts
    <2>3. \A i \in 1 .. Len(queue') : queue'[i] \in Call
        <3>1. \A i \in 1 .. Len(queue) : queue[i] \in Call
            BY <1>1 DEF TypeOK
        <3> QED BY <2>1, <3>1
    <2>4. \A i \in 1 .. Len(queue') : stage'[queue'[i]] = "asked" /\ shown'[queue'[i]] = None
        BY <1>3, <1>4, <2>1, <2>2, <2>3 DEF IInv, Prompts
    <2>5. \A i, j \in 1 .. Len(queue') : queue'[i] = queue'[j] => i = j
        BY <2>1 DEF IInv, Prompts
    <2>6. \A d \in Call : shown'[d] # None => shown'[d] = bound'[d]
        BY <1>3, <1>4 DEF IInv, Prompts
    <2>7. provider' = "terminal"
        BY <1>1, <1>3 DEF IInv, Prompts
    <2> QED BY <1>2, <1>3, <1>4, <2>4, <2>5, <2>6, <2>7 DEF Prompts
<1>9. Lines'
    <2>1. ASSUME NEW line \in Line, LineOK(line) PROVE LineOK(line)'
        <3>1. line.code # Code(c)
            <4>1. Code(c) # None
                BY <1>1, <1>2, AsksAssumption DEF Code, TypeOK
            <4>2. ASSUME NEW d \in Call, shown[d] # None, line.code = Code(d)
                  PROVE  Code(d) # Code(c)
                <5>1. bound[d] # None /\ d # c
                    BY <1>2, <4>2 DEF IInv, Prompts
                <5>2. IdOf[d] # IdOf[c]
                    BY <1>1, <1>2, <5>1 DEF IInv, OneRequest
                <5> QED BY <5>2 DEF Code
            <4> QED BY <2>1, <4>1, <4>2 DEF LineOK
        <3>2. \A d \in Call : Code(d)' = Code(d)
            BY <1>3 DEF Code
        <3>3. \A d \in Call : shown[d] # None => shown'[d] # None
            BY <1>2, <1>4
        <3> QED BY <1>1, <1>3, <2>1, <3>1, <3>2, <3>3 DEF LineOK
    <2> QED BY <1>1, <1>3, <2>1 DEF IInv, Lines, TypeOK
<1> QED BY <1>5, <1>6, <1>7, <1>8, <1>9 DEF IInv

LEMMA TypeLineKeeps ==
    ASSUME IInv, TypeLine
    PROVE  IInv'
<1>1. TypeOK /\ typed' = typed + 1 /\ typed < MaxLines
    BY DEF IInv, TypeLine
<1>2. UNCHANGED <<provider, ask, bound, seen, decisions, stage, verdict, records, acted,
                  queue, prompt, ended, shown>>
    BY DEF TypeLine, gateVars, callVars
<1>3. PICK code \in {Code(c) : c \in {d \in Call : shown[d] # None}} \cup {None} :
        inbox' = Append(inbox, [code |-> code, on |-> prompt])
    BY DEF TypeLine
<1>4. PICK line : line = [code |-> code, on |-> prompt]
    OBVIOUS
<1>5. line.code = code /\ line.on = prompt /\ inbox' = Append(inbox, line)
    BY <1>3, <1>4
<1>6. line \in Line
    <2>1. code \in (Id \X Hash) \cup {None}
        <3>1. ASSUME NEW d \in Call, shown[d] # None PROVE Code(d) \in Id \X Hash
            BY <1>1, <3>1, AsksAssumption DEF IInv, Prompts, TypeOK, Code
        <3> QED BY <3>1
    <2> QED BY <1>1, <1>4, <2>1 DEF Line, TypeOK
<1>7. LineOK(line)
    BY <1>3, <1>5 DEF LineOK
<1>8. \A i \in 1 .. Len(inbox') : LineOK(inbox'[i])
    <2>1. Len(inbox) \in Nat /\ Len(inbox') = Len(inbox) + 1 /\ inbox'[Len(inbox) + 1] = line
        BY <1>1, <1>5, <1>6 DEF TypeOK
    <2>2. \A i \in 1 .. Len(inbox) : inbox'[i] = inbox[i]
        BY <1>1, <1>5, <1>6 DEF TypeOK
    <2> TAKE i \in 1 .. Len(inbox')
    <2>3. CASE i = Len(inbox) + 1
        BY <1>7, <2>1, <2>3
    <2>4. CASE i # Len(inbox) + 1
        <3>1. i \in 1 .. Len(inbox)
            BY <2>1, <2>4
        <3> QED BY <2>2, <3>1 DEF IInv, Lines
    <2> QED BY <2>3, <2>4
<1>9. Lines'
    BY <1>2, <1>8 DEF Lines, LineOK, Code
<1>10. TypeOK'
    <2>1. inbox' \in Seq(Line)
        BY <1>1, <1>5, <1>6 DEF TypeOK
    <2>2. typed' \in 0 .. MaxLines
        BY <1>1, AsksAssumption DEF TypeOK
    <2> QED BY <1>1, <1>2, <2>1, <2>2 DEF TypeOK
<1>11. \A d \in Call : CallOK(d)'
    BY <1>2, CallStands DEF IInv
<1>12. OneRequest' /\ Prompts'
    BY <1>2 DEF IInv, OneRequest, Prompts
<1> QED BY <1>9, <1>10, <1>11, <1>12 DEF IInv

\* What an outcome does to the calls.
LEMMA OutcomeKeepsCalls ==
    ASSUME IInv, NEW c \in Call, stage[c] = "asked", provider # "none", UNCHANGED shown,
           NEW status \in Status, NEW by \in Call \cup {None}, Outcome(c, status, by),
           status = "Approved" => by = c /\ shown[c] # None /\ ask[c] = bound[c]
    PROVE  /\ UNCHANGED <<provider, ask, bound, seen, verdict, acted>>
           /\ stage' \in [Call -> Stage]
           /\ decisions' \in [Call -> Seq(Decision)]
           /\ records' \in [Call -> Seq(Verdict \cup {"refused"})]
           /\ \A d \in Call \ {c} : stage'[d] = stage[d]
           /\ \A d \in Call : CallOK(d)'
           /\ OneRequest'
<1>1. TypeOK /\ CallOK(c)
    BY DEF IInv
<1>2. /\ verdict[c] = "Escalate" /\ bound[c] # None
      /\ records[c] = <<>> /\ c \notin acted /\ decisions[c] = <<>>
    BY <1>1 DEF CallOK, ByStage, Decided
<1>3. PICK d : d = [status |-> status, hash |-> bound[c], by |-> by]
    OBVIOUS
<1>4. d \in Decision /\ d.status = status /\ d.hash = bound[c] /\ d.by = by
    BY <1>1, <1>3 DEF TypeOK, Decision
<1>5. decisions' = [decisions EXCEPT ![c] = Append(@, d)]
    BY <1>3 DEF Outcome, Settle
<1>6. decisions' \in [Call -> Seq(Decision)]
    BY <1>1, <1>4, <1>5 DEF TypeOK
<1>7. decisions'[c] = <<d>> /\ \A e \in Call \ {c} : decisions'[e] = decisions[e]
    BY <1>1, <1>2, <1>5 DEF TypeOK
<1>8. UNCHANGED <<provider, ask, bound, seen, verdict, acted>>
    BY DEF Outcome
<1>9. IF status = "Approved" THEN Goto(c, "executing") /\ UNCHANGED records ELSE Refuse(c)
    BY DEF Outcome
<1>10. /\ stage' \in [Call -> Stage]
       /\ stage'[c] = IF status = "Approved" THEN "executing" ELSE "recording"
       /\ \A e \in Call \ {c} : stage'[e] = stage[e]
    BY <1>1, <1>9 DEF Refuse, Record, Goto, TypeOK, Stage
<1>11. records' \in [Call -> Seq(Verdict \cup {"refused"})]
    BY <1>1, <1>9, RecordTyped DEF Refuse, TypeOK
<1>12. /\ records'[c] = IF status = "Approved" THEN <<>> ELSE <<"refused">>
       /\ \A e \in Call \ {c} : records'[e] = records[e]
    BY <1>1, <1>2, <1>9 DEF Refuse, Record, TypeOK
<1>13. Decided(c)'
    <2>1. Len(decisions'[c]) = 1 /\ decisions'[c][1] = d
        BY <1>7
    <2>2. Good(c, d)'
        BY <1>2, <1>4, <1>8 DEF Good, IInv, Prompts
    <2>3. verdict'[c] = "Escalate" /\ stage'[c] # "asked" /\ provider' # "none"
        BY <1>2, <1>8, <1>10
    <2> QED BY <2>1, <2>2, <2>3 DEF Decided, Good
<1>14. ByStage(c)' /\ Recorded(c)'
    <2>1. CASE status = "Approved"
        <3>1. Permitted(c)'
            <4>1. d \in {decisions'[c][i] : i \in DOMAIN decisions'[c]}
                BY <1>7
            <4>2. d \in Approvals(c)'
                BY <1>4, <2>1, <4>1 DEF Approvals
            <4> QED BY <1>2, <1>8, <4>2 DEF Permitted
        <3>2. records'[c] = <<>> /\ stage'[c] = "executing" /\ c \notin acted'
            BY <1>2, <1>8, <1>10, <1>12, <2>1
        <3> QED BY <3>1, <3>2 DEF ByStage, Recorded
    <2>2. CASE status # "Approved"
        <3>1. records'[c] = <<"refused">> /\ stage'[c] = "recording" /\ c \notin acted'
            BY <1>2, <1>8, <1>10, <1>12, <2>2
        <3>2. records'[c] # <<>>
            BY <3>1
        <3> QED BY <3>1, <3>2 DEF ByStage, Recorded
    <2> QED BY <2>1, <2>2
<1>15. ASSUME NEW e \in Call PROVE CallOK(e)'
    <2>1. CASE e # c
        BY <1>7, <1>8, <1>10, <1>12, <2>1, CallStands DEF IInv
    <2>2. CASE e = c
        BY <1>13, <1>14, <2>2 DEF CallOK
    <2> QED BY <2>1, <2>2
<1>16. OneRequest'
    BY <1>8, OneRequestStands DEF IInv
<1> QED BY <1>6, <1>8, <1>10, <1>11, <1>15, <1>16

\* The prompt is over, and the lines left are among those that waited.
LEMMA PromptOver ==
    ASSUME IInv, NEW c \in Call, prompt = c, prompt' = None, inbox' \in Seq(Line),
           UNCHANGED <<provider, bound, shown, queue>>,
           \A d \in Call \ {c} : stage'[d] = stage[d],
           \A i \in 1 .. Len(inbox') : LineOK(inbox'[i])
    PROVE  Prompts' /\ Lines'
<1>1. \A i \in 1 .. Len(queue) : queue[i] \in Call /\ queue[i] # c
    <2>1. c # None /\ shown[c] # None
        BY AsksAssumption DEF IInv, Prompts
    <2> QED BY <2>1 DEF IInv, Prompts, TypeOK
<1>2. Prompts'
    BY <1>1 DEF IInv, Prompts
<1>3. Lines'
    BY DEF Lines, LineOK, Code
<1> QED BY <1>2, <1>3

\* What the prompt has in hand, and that there is a gate.
LEMMA AtPrompt ==
    ASSUME IInv, prompt # None
    PROVE  prompt \in Call /\ stage[prompt] = "asked" /\ shown[prompt] # None /\ provider # "none"
BY DEF IInv, Prompts, TypeOK

LEMMA ReadLineKeeps ==
    ASSUME IInv, ReadLine
    PROVE  IInv'
<1>1. PICK c \in Call : c = prompt
    BY AtPrompt DEF ReadLine
<1>2. c # None /\ stage[c] = "asked" /\ shown[c] # None /\ provider # "none" /\ TypeOK
    BY <1>1, AtPrompt, AsksAssumption DEF IInv
<1>3. PICK line \in Line : line = Head(inbox) /\ LineOK(line)
    <2>1. inbox # <<>> /\ Len(inbox) > 0 /\ Head(inbox) = inbox[1] /\ Head(inbox) \in Line
        BY <1>2 DEF ReadLine, TypeOK
    <2> QED BY <2>1 DEF IInv, Lines
<1>4. PICK status : status = Judged(c, line.code = Code(c))
    OBVIOUS
<1>5. /\ Outcome(c, status, line.on)
      /\ inbox' = Tail(inbox) /\ inbox # <<>> /\ prompt' = None
      /\ UNCHANGED <<queue, typed, ended, shown>>
    BY <1>1, <1>3, <1>4 DEF ReadLine
<1>6. status \in Status /\ line.on \in Call \cup {None}
    BY <1>4 DEF Judged, Status, Line
<1>7. status = "Approved" => line.on = c /\ ask[c] = bound[c]
    BY <1>1, <1>2, <1>3, <1>4 DEF Judged, LineOK
<1>8. /\ UNCHANGED <<provider, ask, bound, seen, verdict, acted>>
      /\ stage' \in [Call -> Stage] /\ decisions' \in [Call -> Seq(Decision)]
      /\ records' \in [Call -> Seq(Verdict \cup {"refused"})]
      /\ \A d \in Call \ {c} : stage'[d] = stage[d]
      /\ \A d \in Call : CallOK(d)'
      /\ OneRequest'
    BY <1>2, <1>5, <1>6, <1>7, OutcomeKeepsCalls
<1>9. inbox' \in Seq(Line) /\ \A i \in 1 .. Len(inbox') : LineOK(inbox'[i])
    <2>1. /\ inbox' \in Seq(Line)
          /\ \A i \in 1 .. Len(inbox') : i + 1 \in 1 .. Len(inbox) /\ inbox'[i] = inbox[i + 1]
        BY <1>2, <1>5 DEF TypeOK
    <2> QED BY <2>1 DEF IInv, Lines
<1>10. Prompts' /\ Lines'
    BY <1>1, <1>5, <1>8, <1>9, PromptOver
<1>11. TypeOK'
    BY <1>2, <1>5, <1>8, <1>9 DEF TypeOK
<1> QED BY <1>8, <1>10, <1>11 DEF IInv

\* The terminal's end, and the clock's.
LEMMA PromptUnansweredKeeps ==
    ASSUME IInv, TerminalEnds \/ Timeout
    PROVE  IInv'
<1>1. PICK c \in Call : c = prompt
    BY AtPrompt DEF TerminalEnds, Timeout
<1>2. stage[c] = "asked" /\ provider # "none" /\ TypeOK
    BY <1>1, AtPrompt, AsksAssumption DEF IInv
<1>3. /\ Outcome(c, "Rejected", None) \/ Outcome(c, "TimedOut", None)
      /\ prompt' = None /\ ended' \in BOOLEAN
      /\ UNCHANGED <<queue, inbox, typed, shown>>
    BY <1>1, <1>2 DEF TerminalEnds, Timeout, TypeOK
<1>4. /\ UNCHANGED <<provider, ask, bound, seen, verdict, acted>>
      /\ stage' \in [Call -> Stage] /\ decisions' \in [Call -> Seq(Decision)]
      /\ records' \in [Call -> Seq(Verdict \cup {"refused"})]
      /\ \A d \in Call \ {c} : stage'[d] = stage[d]
      /\ \A d \in Call : CallOK(d)'
      /\ OneRequest'
    <2>1. "Rejected" \in Status /\ "TimedOut" \in Status
        BY DEF Status
    <2> QED BY <1>2, <1>3, <2>1, OutcomeKeepsCalls
<1>5. inbox' \in Seq(Line) /\ \A i \in 1 .. Len(inbox') : LineOK(inbox'[i])
    BY <1>2, <1>3 DEF IInv, Lines, TypeOK
<1>6. Prompts' /\ Lines'
    BY <1>1, <1>3, <1>4, <1>5, PromptOver
<1>7. TypeOK'
    BY <1>2, <1>3, <1>4 DEF TypeOK
<1> QED BY <1>4, <1>6, <1>7 DEF IInv

LEMMA HeadlessKeeps ==
    ASSUME IInv, NEW c \in Call, Headless(c)
    PROVE  IInv'
<1>1. stage[c] = "asked" /\ provider = "headless" /\ TypeOK
    BY DEF IInv, Headless
<1>2. /\ Outcome(c, "Rejected", None) \/ Outcome(c, "TimedOut", None)
      /\ UNCHANGED <<queue, prompt, inbox, typed, ended, shown>>
    BY DEF Headless, terminalVars
<1>3. /\ UNCHANGED <<provider, ask, bound, seen, verdict, acted>>
      /\ stage' \in [Call -> Stage] /\ decisions' \in [Call -> Seq(Decision)]
      /\ records' \in [Call -> Seq(Verdict \cup {"refused"})]
      /\ \A d \in Call \ {c} : stage'[d] = stage[d]
      /\ \A d \in Call : CallOK(d)'
      /\ OneRequest'
    <2>1. "Rejected" \in Status /\ "TimedOut" \in Status
        BY DEF Status
    <2> QED BY <1>1, <1>2, <2>1, OutcomeKeepsCalls
<1>4. Prompts'
    BY <1>1, <1>2, <1>3 DEF IInv, Prompts
<1>5. Lines'
    BY <1>2, <1>3, LinesStand DEF IInv
<1>6. TypeOK'
    BY <1>1, <1>2, <1>3 DEF TypeOK
<1> QED BY <1>3, <1>4, <1>5, <1>6 DEF IInv

--------------------------------------------------------------------------------
(***************************************************************************)
(* The theorems                                                            *)
(***************************************************************************)

LEMMA Inductive == IInv /\ [Next]_vars => IInv'
<1> SUFFICES ASSUME IInv, [Next]_vars PROVE IInv'
    OBVIOUS
<1>1. ASSUME NEW c \in Call, CallStep(c) PROVE IInv'
    BY <1>1, BeginKeeps, PolicyDecidesKeeps, NoGateKeeps, GateRefusesKeeps, GateAsksKeeps,
       HeadlessKeeps, ToolEndsKeeps, RecordEndsKeeps DEF CallStep
<1>2. ASSUME NEW c \in Call, AskChanges(c) PROVE IInv'
    BY <1>2, AskChangesKeeps
<1>3. CASE Terminal
    BY <1>3, ShowKeeps, ReadLineKeeps, PromptUnansweredKeeps DEF Terminal
<1>4. CASE TypeLine
    BY <1>4, TypeLineKeeps
<1>5. CASE UNCHANGED vars
    <2>1. UNCHANGED <<provider, ask, bound, seen, decisions, queue, prompt, inbox, typed, ended,
                      shown, stage, verdict, records, acted>>
        BY <1>5 DEF vars, gateVars, terminalVars, callVars
    <2>2. TypeOK' /\ OneRequest' /\ Prompts'
        BY <2>1 DEF IInv, TypeOK, OneRequest, Prompts
    <2>3. \A c \in Call : CallOK(c)'
        BY <2>1, CallStands DEF IInv
    <2>4. Lines'
        BY <2>1, LinesStand DEF IInv
    <2> QED BY <2>2, <2>3, <2>4 DEF IInv
<1> QED BY <1>1, <1>2, <1>3, <1>4, <1>5 DEF Next

LEMMA Invariance == Spec => []IInv
BY Initially, Inductive, PTL DEF Spec

\* Every reachable state is well typed: executeToolGated, the gate and the terminal.
THEOREM TypeCorrect == Spec => []TypeOK
<1>1. IInv => TypeOK
    BY DEF IInv
<1> QED BY <1>1, Invariance, PTL

\* No call runs, or has run, but by the policy's Allow or an approval of its own
\* escalation (gatedExec.ts:91-103).
THEOREM PermittedOnly == Spec => []OnlyPermittedRun
<1>1. IInv => OnlyPermittedRun
    BY DEF IInv, CallOK, ByStage, Recorded, OnlyPermittedRun
<1> QED BY <1>1, Invariance, PTL

\* An approval was typed under the prompt of the call it is for, which showed what
\* the call runs on (ApprovalGate.ts:190-202).
THEOREM ApprovalsAsShown == Spec => []ApprovedAsShown
<1>1. ASSUME IInv, NEW c \in Call, NEW d \in Approvals(c)
      PROVE  d.by = c /\ d.hash = shown[c] /\ d.hash = ask[c]
    <2>1. d.status = "Approved" /\ \E i \in DOMAIN decisions[c] : d = decisions[c][i]
        BY <1>1 DEF Approvals
    <2>2. Len(decisions[c]) = 1 /\ Good(c, decisions[c][1])
        BY <1>1, <2>1 DEF IInv, CallOK, Decided
    <2>3. d = decisions[c][1]
        BY <1>1, <2>1, <2>2 DEF IInv, TypeOK
    <2> QED BY <2>1, <2>2, <2>3 DEF Good
<1>2. IInv => ApprovedAsShown
    BY <1>1 DEF ApprovedAsShown
<1> QED BY <1>2, Invariance, PTL

\* An escalated call has one decision once it has left the gate, and nobody is asked
\* twice under one id (ApprovalGate.ts:125-128, 211-224).
THEOREM OneDecision == Spec => []SettledOnce
<1>1. ASSUME IInv, NEW c \in Call
      PROVE  Len(decisions[c]) =
                IF verdict[c] = "Escalate" /\ stage[c] # "asked" /\ provider # "none" THEN 1 ELSE 0
    <2>1. Decided(c) /\ Len(<<>>) = 0
        BY <1>1 DEF IInv, CallOK
    <2>2. CASE verdict[c] = "Escalate" /\ stage[c] # "asked" /\ provider # "none"
        BY <2>1, <2>2 DEF Decided
    <2>3. CASE ~ (verdict[c] = "Escalate" /\ stage[c] # "asked" /\ provider # "none")
        <3>1. decisions[c] = <<>>
            BY <2>1, <2>3 DEF Decided
        <3> QED BY <2>1, <2>3, <3>1
    <2> QED BY <2>2, <2>3
<1>2. IInv => SettledOnce
    BY <1>1 DEF IInv, OneRequest, SettledOnce
<1> QED BY <1>2, Invariance, PTL

\* Every call that acted is in the bundle once, under the verdict it ran by, and no
\* call that acted is recorded as refused (gatedExec.ts:141-151, 229-239).
THEOREM Complete == Spec => []BundleComplete
<1>1. ASSUME IInv, NEW c \in Call
      PROVE  /\ Len(records[c]) <= 1
             /\ c \in acted <=> \E i \in DOMAIN records[c] : records[c][i] = verdict[c]
             /\ stage[c] = "returned" => c \in acted
             /\ stage[c] = "recording" => records[c] # <<>>
    <2>1. Recorded(c) /\ ByStage(c) /\ TypeOK
        BY <1>1 DEF IInv, CallOK
    <2>2. verdict[c] # "refused"
        BY <2>1, AsksAssumption DEF TypeOK, Verdict
    <2>3. CASE records[c] = <<>> /\ c \notin acted
        BY <2>1, <2>3 DEF ByStage
    <2>4. CASE records[c] = <<"refused">> /\ c \notin acted
        BY <2>1, <2>2, <2>4 DEF ByStage
    <2>5. CASE records[c] = <<verdict[c]>> /\ c \in acted
        BY <2>5
    <2> QED BY <2>1, <2>3, <2>4, <2>5 DEF Recorded
<1>2. IInv => BundleComplete
    BY <1>1 DEF BundleComplete
<1> QED BY <1>2, Invariance, PTL

--------------------------------------------------------------------------------
(***************************************************************************)
(* The patch-and-test cycle, whose patch is a call through the gate.       *)
(* First: the names above a name.                                          *)
(***************************************************************************)

LEMMA AboveIsBefore ==
    ASSUME NEW p \in Seq(STRING), NEW a \in Above(p)
    PROVE  /\ a \in Seq(STRING) /\ a # <<>> /\ Len(a) \in 1 .. Len(p) - 1 /\ a = SubSeq(p, 1, Len(a))
           /\ \A i \in 1 .. Len(a) : a[i] = p[i]
           /\ Len(p) \in Nat
<1>1. PICK i \in 1 .. Len(p) - 1 : a = SubSeq(p, 1, i)
    BY DEF Above
<1>2. Len(p) \in Nat /\ i \in 1 .. Len(p) /\ 1 \in 1 .. Len(p) + 1
    BY LenProperties
<1>3. a \in Seq(STRING) /\ Len(a) = i /\ \A k \in 1 .. i : a[k] = p[k]
    BY <1>1, <1>2, SubSeqProperties
<1>4. a # <<>>
    BY <1>2, <1>3, EmptySeq
<1> QED BY <1>1, <1>2, <1>3, <1>4

\* A beginning of a beginning is a beginning.
LEMMA BeginningOf ==
    ASSUME NEW p \in Seq(STRING), NEW a \in Above(p), NEW j \in 1 .. Len(a)
    PROVE  SubSeq(p, 1, j) = SubSeq(a, 1, j)
<1>1. /\ a \in Seq(STRING) /\ Len(a) \in 1 .. Len(p) - 1 /\ Len(p) \in Nat
      /\ \A i \in 1 .. Len(a) : a[i] = p[i]
    BY AboveIsBefore
<1> DEFINE b == SubSeq(p, 1, j)
           c == SubSeq(a, 1, j)
<1>2. b \in Seq(STRING) /\ Len(b) = j /\ \A k \in 1 .. j : b[k] = p[k]
    BY <1>1, SubSeqProperties
<1>3. c \in Seq(STRING) /\ Len(c) = j /\ \A k \in 1 .. j : c[k] = a[k]
    BY <1>1, SubSeqProperties
<1> HIDE DEF b, c
<1>4. b = c
    BY <1>1, <1>2, <1>3, SeqEqual
<1> QED BY <1>4 DEF b, c

LEMMA AboveAbove ==
    ASSUME NEW p \in Seq(STRING), NEW a \in Above(p)
    PROVE  /\ Above(a) \subseteq Above(p)
           /\ \A b \in Above(p) : a = b \/ a \in Above(b) \/ b \in Above(a)
<1>1. /\ a \in Seq(STRING) /\ Len(a) \in 1 .. Len(p) - 1 /\ a = SubSeq(p, 1, Len(a)) /\ Len(p) \in Nat
    BY AboveIsBefore
<1>2. ASSUME NEW b \in Above(a) PROVE b \in Above(p)
    <2>1. Len(b) \in 1 .. Len(a) - 1 /\ b = SubSeq(a, 1, Len(b))
        BY <1>1, <1>2, AboveIsBefore
    <2>2. Len(b) \in 1 .. Len(a) /\ Len(b) \in 1 .. Len(p) - 1
        BY <1>1, <2>1
    <2>3. SubSeq(p, 1, Len(b)) = SubSeq(a, 1, Len(b))
        BY <2>2, BeginningOf
    <2> QED BY <2>1, <2>2, <2>3 DEF Above
<1>3. ASSUME NEW b \in Above(p) PROVE a = b \/ a \in Above(b) \/ b \in Above(a)
    <2>1. b \in Seq(STRING) /\ Len(b) \in 1 .. Len(p) - 1 /\ b = SubSeq(p, 1, Len(b))
        BY <1>3, AboveIsBefore
    <2>2. CASE Len(a) = Len(b)
        BY <1>1, <2>1, <2>2
    <2>3. CASE Len(a) < Len(b)
        <3>1. Len(a) \in 1 .. Len(b) /\ Len(a) \in 1 .. Len(b) - 1
            BY <1>1, <2>1, <2>3
        <3>2. SubSeq(p, 1, Len(a)) = SubSeq(b, 1, Len(a))
            BY <1>3, <3>1, BeginningOf
        <3> QED BY <1>1, <3>1, <3>2 DEF Above
    <2>4. CASE Len(b) < Len(a)
        <3>1. Len(b) \in 1 .. Len(a) /\ Len(b) \in 1 .. Len(a) - 1
            BY <1>1, <2>1, <2>4
        <3>2. SubSeq(p, 1, Len(b)) = SubSeq(a, 1, Len(b))
            BY <3>1, BeginningOf
        <3> QED BY <2>1, <3>1, <3>2 DEF Above
    <2>5. Len(a) \in Nat /\ Len(b) \in Nat
        BY <1>1, <2>1, LenProperties
    <2>6. Len(a) = Len(b) \/ Len(a) < Len(b) \/ Len(b) < Len(a)
        BY <2>5
    <2> QED BY <2>2, <2>3, <2>4, <2>6
<1> QED BY <1>2, <1>3

\* What is above a name is outside the root, or git's, only if the name is.
LEMMA AboveStaysIn ==
    ASSUME NEW p \in Seq(STRING), NEW a \in Above(p)
    PROVE  (Escapes(a) => Escapes(p)) /\ (NamesGitDir(a) => NamesGitDir(p))
<1>1. /\ a \in Seq(STRING) /\ a # <<>> /\ Len(a) \in 1 .. Len(p) - 1 /\ Len(p) \in Nat
      /\ \A i \in 1 .. Len(a) : a[i] = p[i]
    BY AboveIsBefore
<1>2. p # <<>> /\ DOMAIN p = 1 .. Len(p) /\ DOMAIN a = 1 .. Len(a)
    BY <1>1, EmptySeq, LenProperties
<1>3. Head(a) = Head(p)
    BY <1>1, <1>2, HeadTailProperties
<1>4. Elements(a) \subseteq Elements(p)
    BY <1>1, <1>2 DEF Elements
<1> QED BY <1>2, <1>3, <1>4 DEF Escapes, NamesGitDir

LEMMA AtItself ==
    ASSUME NEW t, NEW p \in Path
    PROVE  At(t, p) = t[p] /\ p \in Seq(STRING) /\ p # <<>> /\ Len(p) \in Nat \ {0} /\ SubSeq(p, 1, Len(p)) = p
<1>1. p \in Seq(STRING) /\ p # <<>> /\ p # <<"..">>
    BY PatchAssumption
<1>2. Len(p) \in Nat \ {0}
    BY <1>1, EmptySeq, LenProperties
<1>3. SubSeq(p, 1, Len(p)) = p
    <2> DEFINE b == SubSeq(p, 1, Len(p))
    <2>1. b \in Seq(STRING) /\ Len(b) = Len(p) /\ \A k \in 1 .. Len(p) : b[k] = p[k]
        BY <1>1, <1>2, SubSeqProperties
    <2> HIDE DEF b
    <2>2. b = p
        BY <1>1, <2>1, SeqEqual
    <2> QED BY <2>2 DEF b
<1> QED BY <1>1, <1>2, <1>3 DEF At

\* What git apply writes at a path, of the sections it applies.
Kept(t, S) == {s \in S : s.old # s.new \/ At(t, s.new) # "dir"}
NewOf(t, S) == {s.new : s \in Kept(t, S)} \ {Nowhere}
Writer(t, S, p) == CHOOSE s \in Kept(t, S) : s.new = p
GoneOf(t, S) == {s.old : s \in Kept(t, S)} \ {s.new : s \in Kept(t, S)}
EmptiedAt(t, S, p) ==
    /\ At(t, p) = "dir" /\ \E g \in GoneOf(t, S) : p \in Above(g)
    /\ \A a \in Path : p \in Above(a) => At(t, a) = "none" \/ a \in GoneOf(t, S)

LEMMA AppliedAt ==
    ASSUME NEW t, NEW S, NEW p \in Path
    PROVE  Applied(t, S)[p] =
             IF p \in NewOf(t, S) THEN Writer(t, S, p).to
             ELSE IF p \in UNION {Above(q) : q \in NewOf(t, S)} THEN "dir"
             ELSE IF p \in GoneOf(t, S) \/ EmptiedAt(t, S, p) THEN "none" ELSE t[p]
    BY DEF Applied, Kept, NewOf, Writer, GoneOf, EmptiedAt

\* A diff that is let through and passes --check names what is there: each of its sections is about
\* one path, inside the root and not git's, and what it changes or deletes is a file in a directory.
Checked(t, d) == OneSectionAName(d) /\ PatchDeclares(t, d) /\ Checks(t, d)

LEMMA SectionNames ==
    ASSUME NEW d, OneSectionAName(d), Declarable(d), NEW s \in Elements(d.sections)
    PROVE  /\ s.new = s.old \/ s.new = Nowhere \/ s.old = Nowhere
           /\ Named(s) # {} /\ Named(s) \subseteq Path /\ Named(s) \subseteq DeclaredFromGit(d)
           /\ {s.from, s.to} \subseteq Content
           /\ \A r \in Elements(d.sections) : Named(r) \cap Named(s) # {} => r = s
<1>1. /\ Named(s) # {} /\ Named(s) \subseteq Path /\ {s.from, s.to} \subseteq Content
      /\ \A r \in Elements(d.sections) : Named(r) \cap Named(s) # {} => r = s
    BY DEF OneSectionAName
<1>2. NumstatPaths(d, FALSE) = {IF r.new = Nowhere THEN r.old ELSE r.new : r \in Elements(d.sections)}
    BY DEF NumstatPaths
<1>3. NumstatPaths(d, TRUE) = {IF r.old = Nowhere THEN r.new ELSE r.old : r \in Elements(d.sections)}
    BY DEF NumstatPaths
<1>4. NumstatPaths(d, FALSE) = NumstatPaths(d, TRUE)
    BY DEF Declarable
<1>5. Named(s) \subseteq DeclaredFromGit(d)
    BY <1>2, <1>3 DEF Named, DeclaredFromGit
<1>6. s.new = s.old \/ s.new = Nowhere \/ s.old = Nowhere
    <2> SUFFICES ASSUME s.new # Nowhere, s.old # Nowhere PROVE s.new = s.old
        OBVIOUS
    <2>1. s.new \in NumstatPaths(d, TRUE)
        BY <1>2, <1>4
    <2>2. PICK r \in Elements(d.sections) : s.new = IF r.old = Nowhere THEN r.new ELSE r.old
        BY <1>3, <2>1
    <2>3. r = s
        BY <1>1, <2>2 DEF Named
    <2> QED BY <2>2, <2>3
<1> QED BY <1>1, <1>5, <1>6

LEMMA ChangesFiles ==
    ASSUME NEW t, NEW d, Checked(t, d), NEW s \in Elements(d.sections), s.old # Nowhere
    PROVE  Inside(t, s.old) /\ At(t, s.old) = s.from /\ s.from \in Content /\ s.old \in Path
<1>1. /\ Declarable(d) /\ OneSectionAName(d) /\ SeenByGit(d) = Elements(d.sections)
      /\ \A p \in DeclaredFromGit(d) : ~ NamesGitDir(p) /\ ~ RefusesTarget(t, p, d)
    BY DEF Checked, PatchDeclares, Declarable, Described, SeenByGit
<1>2. /\ Named(s) \subseteq Path /\ Named(s) \subseteq DeclaredFromGit(d) /\ {s.from, s.to} \subseteq Content
      /\ \A r \in Elements(d.sections) : Named(r) \cap Named(s) # {} => r = s
    BY <1>1, SectionNames
<1> DEFINE p == s.old
<1>3. p \in Path /\ p \in DeclaredFromGit(d) /\ p \in Named(s)
    BY <1>2 DEF Named
<1>4. /\ Inside(t, p)
      /\ At(t, p) \in {s.from} \cup (IF s.form = "content" THEN {} ELSE {"dir"} \cup DOMAIN LinkTo)
    BY <1>1 DEF Checked, Checks
<1>5. p \in Seq(STRING) /\ Len(p) \in Nat \ {0} /\ SubSeq(p, 1, Len(p)) = p
    BY <1>3, AtItself
<1>6. ASSUME NEW j \in 1 .. Len(p), j < Len(p)
      PROVE  At(t, SubSeq(p, 1, j)) = "dir" /\ SubSeq(p, 1, j) \notin Deleted(d)
    <2> DEFINE a == SubSeq(p, 1, j)
    <2>1. a \in Above(p)
        BY <1>5, <1>6 DEF Above
    <2>2. At(t, a) = "dir"
        BY <1>4, <2>1 DEF Inside
    <2>3. ASSUME a \in Deleted(d) PROVE FALSE
        <3>1. PICK r \in Elements(d.sections) : r.new = Nowhere /\ r.form = "content" /\ r.old = a
            BY <2>3 DEF Deleted
        <3>2. r.old # Nowhere /\ r.from \in Content
            BY <1>1, <2>1, <1>5, <3>1, AboveIsBefore, SectionNames DEF Nowhere
        <3>3. At(t, r.old) = r.from
            BY <1>1, <3>1, <3>2 DEF Checked, Checks
        <3> QED BY <2>2, <3>1, <3>2, <3>3, PatchAssumption
    <2> QED BY <2>2, <2>3
<1>7. ASSUME At(t, p) # s.from PROVE FALSE
    <2>1. s.form # "content" /\ (At(t, p) = "dir" \/ IsLink(At(t, p)))
        BY <1>4, <1>7 DEF IsLink
    <2>2. p \notin Created(d) \cup Deleted(d)
        BY <1>2, <1>3, <2>1 DEF Created, Deleted, Named
    <2>3. At(t, p) # "none"
        BY <2>1, PatchAssumption DEF IsLink
    <2>4. ASSUME NEW j \in 1 .. Len(p)
          PROVE  At(t, SubSeq(p, 1, j)) # "none" /\ (j < Len(p) => SubSeq(p, 1, j) \notin Deleted(d))
        <3>1. CASE j < Len(p)
            BY <1>6, <3>1
        <3>2. CASE j = Len(p)
            <4>1. SubSeq(p, 1, j) = p /\ ~ (j < Len(p))
                BY <1>5, <3>2
            <4> QED BY <2>3, <4>1
        <3> QED BY <1>5, <3>1, <3>2
    <2>5. RefusesTarget(t, p, d)
        <3> DEFINE n == Len(p)
        <3>1. n \in 1 .. Len(p) /\ SubSeq(p, 1, n) = p
            BY <1>5
        <3>2. \A j \in 1 .. n : At(t, SubSeq(p, 1, j)) # "none" /\ (j < Len(p) => SubSeq(p, 1, j) \notin Deleted(d))
            BY <2>4
        <3>3. \/ IsLink(At(t, SubSeq(p, 1, n)))
              \/ n = Len(p) /\ At(t, SubSeq(p, 1, n)) = "dir" /\ p \notin Created(d) \cup Deleted(d)
            BY <2>1, <2>2, <3>1
        <3> HIDE DEF n, p
        <3> QED BY <3>1, <3>2, <3>3 DEF RefusesTarget
    <2> QED BY <1>1, <1>3, <2>5
<1> QED BY <1>2, <1>3, <1>4, <1>7

\* What a name beneath others is to go into is a directory, or is deleted.
LEMMA ParentIsDir ==
    ASSUME NEW t, NEW d, Checked(t, d), NEW s \in Elements(d.sections), NEW a \in Above(s.new),
           Inside(t, a), At(t, a) # "none", a \notin Deletions(d)
    PROVE  At(t, a) = "dir"
<1>1. /\ Declarable(d) /\ OneSectionAName(d) /\ SeenByGit(d) = Elements(d.sections)
      /\ \A p \in DeclaredFromGit(d) : ~ RefusesTarget(t, p, d)
    BY DEF Checked, PatchDeclares, Declarable, Described, SeenByGit
<1> DEFINE p == s.new
<1>2. p # Nowhere
    <2>1. Len(<<>>) = 0
        BY EmptySeq
    <2> QED BY <2>1 DEF Above, Nowhere
<1>3. p \in Path /\ p \in DeclaredFromGit(d) /\ p \in Seq(STRING)
    BY <1>1, <1>2, SectionNames, PatchAssumption DEF Named
<1>4. /\ a \in Seq(STRING) /\ Len(a) \in 1 .. Len(p) - 1 /\ a = SubSeq(p, 1, Len(a)) /\ Len(p) \in Nat
    BY <1>3, AboveIsBefore
<1>5. ASSUME NEW j \in 1 .. Len(a) PROVE At(t, SubSeq(p, 1, j)) # "none" /\ SubSeq(p, 1, j) \notin Deleted(d)
    <2>1. CASE j < Len(a)
        <3> DEFINE b == SubSeq(p, 1, j)
        <3>1. b = SubSeq(a, 1, j) /\ b \in Above(a)
            <4>1. b = SubSeq(a, 1, j)
                BY <1>3, BeginningOf
            <4>2. j \in 1 .. Len(a) - 1
                BY <1>4, <2>1
            <4> HIDE DEF b
            <4> QED BY <4>1, <4>2 DEF Above
        <3>2. At(t, b) = "dir"
            BY <3>1 DEF Inside
        <3>3. ASSUME b \in Deleted(d) PROVE FALSE
            <4>1. PICK r \in Elements(d.sections) : r.new = Nowhere /\ r.old = b
                BY <3>3 DEF Deleted
            <4>2. b # Nowhere
                BY <1>4, <3>1, AboveIsBefore DEF Nowhere
            <4>3. At(t, b) \in Content
                BY <4>1, <4>2, ChangesFiles
            <4> QED BY <3>2, <4>3, PatchAssumption
        <3> QED BY <3>2, <3>3
    <2>2. CASE j = Len(a)
        <3>1. Deleted(d) \subseteq Deletions(d)
            BY DEF Deleted, Deletions
        <3> QED BY <1>4, <2>2, <3>1
    <2>3. Len(a) \in Nat
        BY <1>4, LenProperties
    <2> QED BY <2>1, <2>2, <2>3
<1>6. ASSUME At(t, a) # "dir" PROVE FALSE
    <2> DEFINE i == Len(a)
    <2>1. i \in 1 .. Len(p) /\ i < Len(p) /\ SubSeq(p, 1, i) = a
        BY <1>4
    <2>2. \A j \in 1 .. i : At(t, SubSeq(p, 1, j)) # "none" /\ (j < Len(p) => SubSeq(p, 1, j) \notin Deleted(d))
        BY <1>5
    <2>3. i < Len(p) /\ At(t, SubSeq(p, 1, i)) # "dir"
        BY <1>6, <2>1
    <2> HIDE DEF i, p
    <2>4. RefusesTarget(t, p, d)
        BY <2>1, <2>2, <2>3 DEF RefusesTarget
    <2> QED BY <1>1, <1>3, <2>4
<1> QED BY <1>6

\* What git apply writes when it applies a diff whole.
LEMMA AppliedWhole ==
    ASSUME NEW t, NEW d, Checked(t, d), NEW s \in Elements(d.sections)
    PROVE  LET u == Applied(t, Elements(d.sections)) IN
           /\ s.new # Nowhere => u[s.new] = s.to
           /\ s.old \notin {Nowhere, s.new} => ~ IsFile(u[s.old])
<1> DEFINE S == Elements(d.sections)
           u == Applied(t, S)
<1>1. Declarable(d) /\ OneSectionAName(d)
    BY DEF Checked, PatchDeclares
<1>2. /\ s.new = s.old \/ s.new = Nowhere \/ s.old = Nowhere
      /\ Named(s) \subseteq Path /\ Named(s) # {} /\ {s.from, s.to} \subseteq Content
      /\ \A r \in S : Named(r) \cap Named(s) # {} => r = s
    BY <1>1, SectionNames
<1>3. s \in Kept(t, S)
    <2> SUFFICES ASSUME s.old = s.new PROVE At(t, s.new) # "dir"
        BY DEF Kept
    <2>1. s.old # Nowhere
        BY <1>2 DEF Named
    <2> QED BY <2>1, ChangesFiles, PatchAssumption
<1>4. \A r \in Kept(t, S) : r.new = s.new /\ s.new # Nowhere => r = s
    BY <1>2 DEF Kept, Named
<1>5. ASSUME s.new # Nowhere PROVE u[s.new] = s.to
    <2>1. s.new \in Path /\ s.new \in NewOf(t, S)
        BY <1>2, <1>3, <1>5 DEF Named, NewOf
    <2>2. Writer(t, S, s.new) = s
        <3>1. Writer(t, S, s.new) \in Kept(t, S) /\ Writer(t, S, s.new).new = s.new
            BY <1>3 DEF Writer
        <3> QED BY <1>4, <1>5, <3>1
    <2> QED BY <2>1, <2>2, AppliedAt
<1>6. ASSUME s.old \notin {Nowhere, s.new} PROVE ~ IsFile(u[s.old])
    <2>1. s.new = Nowhere /\ s.old \in Path
        BY <1>2, <1>6 DEF Named
    <2>2. \A r \in Kept(t, S) : r.new # s.old
        BY <1>2, <1>6, <2>1 DEF Kept, Named
    <2>3. s.old \notin NewOf(t, S) /\ s.old \in GoneOf(t, S)
        BY <1>3, <2>2 DEF NewOf, GoneOf
    <2>4. u[s.old] \in {"dir", "none"}
        BY <2>1, <2>3, AppliedAt
    <2> QED BY <2>4, PatchAssumption DEF IsFile
<1> QED BY <1>5, <1>6

\* Whatever part of a diff is applied, it is made of names the diff declares and of directories.
LEMMA AppliedWithin ==
    ASSUME NEW t, NEW d, Checked(t, d), NEW S, S \subseteq Elements(d.sections), NEW p \in Path,
           Applied(t, S)[p] # t[p]
    PROVE  p \in DeclaredFromGit(d) \/ "dir" \in {t[p], Applied(t, S)[p]}
<1>1. Declarable(d) /\ OneSectionAName(d) /\ At(t, p) = t[p] /\ p # Nowhere
    BY AtItself DEF Checked, PatchDeclares, Nowhere
<1>2. \A s \in S : Named(s) \subseteq DeclaredFromGit(d)
    BY <1>1, SectionNames
<1>3. p \in NewOf(t, S) \cup GoneOf(t, S) => \E s \in S : p \in Named(s)
    BY <1>1 DEF NewOf, GoneOf, Kept, Named
<1>4. EmptiedAt(t, S, p) => t[p] = "dir"
    BY <1>1 DEF EmptiedAt
<1> QED BY <1>2, <1>3, <1>4, AppliedAt

\* None of it is outside the root, or git's own.
LEMMA AppliedInside ==
    ASSUME NEW t, NEW d, Checked(t, d), NEW S, S \subseteq Elements(d.sections), NEW p \in Path,
           Applied(t, S)[p] # t[p]
    PROVE  ~ Escapes(p) /\ ~ NamesGitDir(p)
<1>1. Declarable(d) /\ OneSectionAName(d) /\ p # Nowhere
    BY AtItself DEF Checked, PatchDeclares, Nowhere
<1>2. \A q \in DeclaredFromGit(d) : ~ Escapes(q) /\ ~ NamesGitDir(q)
    BY DEF Checked, PatchDeclares, Declarable, SafePath
<1>3. ASSUME NEW q \in NewOf(t, S) \cup GoneOf(t, S), q # Nowhere
      PROVE  q \in Path /\ q \in Seq(STRING) /\ ~ Escapes(q) /\ ~ NamesGitDir(q)
    <2>1. PICK s \in S : q \in Named(s)
        BY <1>3 DEF NewOf, GoneOf, Kept, Named
    <2>2. q \in Path /\ q \in DeclaredFromGit(d)
        BY <1>1, <2>1, SectionNames
    <2> QED BY <1>2, <2>2, AtItself
<1>4. ASSUME NEW q \in NewOf(t, S) \cup GoneOf(t, S), p \in Above(q) PROVE ~ Escapes(p) /\ ~ NamesGitDir(p)
    <2>1. q # Nowhere
        <3>1. Len(<<>>) = 0
            BY EmptySeq
        <3> QED BY <1>4, <3>1 DEF Above, Nowhere
    <2> QED BY <1>3, <1>4, <2>1, AboveStaysIn
<1>5. \/ p \in NewOf(t, S) \cup GoneOf(t, S)
      \/ \E q \in NewOf(t, S) \cup GoneOf(t, S) : p \in Above(q)
    BY AppliedAt DEF EmptiedAt
<1> QED BY <1>1, <1>3, <1>4, <1>5

\* Where git finds out half way: a file is to be created where a directory is, or beneath another.
LEMMA HalfWay ==
    ASSUME NEW t, NEW d, Checked(t, d),
           (\E s \in Elements(d.sections) : Stuck(t, d, s)) \/ ~ Apart(Elements(d.sections))
    PROVE  \E p, q \in Creations(d) : At(t, p) = "dir" \/ p \in Above(q)
<1>1. /\ Declarable(d) /\ OneSectionAName(d)
      /\ \A s \in Elements(d.sections) : ~ BehindLink(t, s.new)
    BY DEF Checked, PatchDeclares, Checks, Declarable, Described, SeenByGit
<1>2. ASSUME NEW s \in Elements(d.sections), Stuck(t, d, s) PROVE s.new \in Creations(d) /\ At(t, s.new) = "dir"
    <2>1. CASE \E a \in Above(s.new) : Inside(t, a) /\ At(t, a) \notin {"none", "dir"} /\ a \notin Deletions(d)
        BY <2>1, ParentIsDir
    <2>2. CASE s.old = Nowhere /\ At(t, s.new) = "dir"
        BY <2>2 DEF Creations
    <2> QED BY <1>2, <2>1, <2>2 DEF Stuck
<1>3. ASSUME NEW r \in Elements(d.sections), NEW s \in Elements(d.sections), r.new \in Above(s.new)
      PROVE  \E p, q \in Creations(d) : At(t, p) = "dir" \/ p \in Above(q)
    <2>1. s.new # Nowhere /\ r.new # Nowhere
        <3>1. s.new # Nowhere
            <4>1. Len(<<>>) = 0
                BY EmptySeq
            <4> QED BY <1>3, <4>1 DEF Above, Nowhere
        <3>2. s.new \in Seq(STRING)
            BY <1>1, <3>1, SectionNames, PatchAssumption DEF Named
        <3> QED BY <1>3, <3>1, <3>2, AboveIsBefore DEF Nowhere
    <2>2. CASE r.old # Nowhere
        <3>1. r.old = r.new /\ Named(r) = {r.new}
            BY <1>1, <2>1, <2>2, SectionNames DEF Named
        <3>2. Inside(t, r.new) /\ At(t, r.new) \in Content
            BY <2>2, <3>1, ChangesFiles
        <3>3. r.new \notin Deletions(d)
            <4> SUFFICES ASSUME NEW x \in Elements(d.sections), x.new = Nowhere, x.old = r.new PROVE FALSE
                BY DEF Deletions
            <4>1. x = r
                BY <1>1, <2>1, <3>1, SectionNames DEF Named
            <4> QED BY <2>1, <4>1
        <3>4. At(t, r.new) = "dir"
            BY <1>3, <3>2, <3>3, ParentIsDir, PatchAssumption
        <3> QED BY <3>2, <3>4, PatchAssumption
    <2>3. CASE r.old = Nowhere /\ s.old = Nowhere
        BY <1>3, <2>3 DEF Creations
    <2>4. CASE r.old = Nowhere /\ s.old # Nowhere
        <3>1. s.old = s.new
            BY <1>1, <2>1, <2>4, SectionNames
        <3>2. At(t, r.new) = "dir"
            BY <1>3, <2>4, <3>1, ChangesFiles DEF Inside
        <3>3. r.new \in Creations(d)
            BY <2>4 DEF Creations
        <3> QED BY <3>2, <3>3
    <2> QED BY <2>2, <2>3, <2>4
<1>4. CASE \E s \in Elements(d.sections) : Stuck(t, d, s)
    BY <1>2, <1>4
<1>5. CASE ~ Apart(Elements(d.sections))
    BY <1>3, <1>5 DEF Apart
<1> QED BY <1>4, <1>5

\* How patch.apply can end.
LEMMA PatchEnds ==
    ASSUME NEW t, NEW d, OneSectionAName(d), NEW approved, NEW dryRun, NEW o \in Patch(t, d, approved, dryRun)
    PROVE  \/ o.tree = t /\ o.end \in {"refused", "failed"}
           \/ o.tree = t /\ o.end = "ok" /\ dryRun
           \/ /\ Checked(t, d) /\ approved = DeclaredFromGit(d) /\ ~ dryRun
              /\ \/ o.end = "ok" /\ o.tree = Applied(t, Elements(d.sections))
                 \/ /\ o.end = "failed" /\ \E S \in SUBSET Elements(d.sections) : o.tree = Applied(t, S)
                    /\ \E p, q \in Creations(d) : At(t, p) = "dir" \/ p \in Above(q)
<1> DEFINE refuses == \/ ~ PatchDeclares(t, d) \/ approved # DeclaredFromGit(d)
                      \/ \E p \in DeclaredFromGit(d) :
                            LET q == ResolveInside(t, p) IN ~ Escapes(q) /\ NamesGitDir(q)
<1>1. CASE refuses
    <2>1. o = CallOutcome(t, "refused")
        BY <1>1 DEF Patch
    <2> QED BY <2>1 DEF CallOutcome
<1>2. CASE ~ refuses /\ ~ Checks(t, d)
    <2>1. o = CallOutcome(t, "failed")
        BY <1>2 DEF Patch
    <2> QED BY <2>1 DEF CallOutcome
<1>3. CASE ~ refuses /\ Checks(t, d) /\ dryRun
    <2>1. o = CallOutcome(t, "ok")
        BY <1>3 DEF Patch
    <2> QED BY <1>3, <2>1 DEF CallOutcome
<1>4. CASE ~ refuses /\ Checks(t, d) /\ ~ dryRun
    <2>1. o \in GitApplies(t, d)
        BY <1>4 DEF Patch
    <2>2. Checked(t, d) /\ approved = DeclaredFromGit(d) /\ SeenByGit(d) = Elements(d.sections)
        BY <1>4 DEF Checked, PatchDeclares, Declarable, Described, SeenByGit
    <2> DEFINE stuck == {s \in Elements(d.sections) : Stuck(t, d, s)}
    <2>3. CASE stuck = {} /\ Apart(Elements(d.sections))
        <3>1. o = CallOutcome(Applied(t, Elements(d.sections)), "ok")
            BY <2>1, <2>2, <2>3 DEF GitApplies
        <3> QED BY <1>4, <2>2, <3>1 DEF CallOutcome
    <2>4. CASE ~ (stuck = {} /\ Apart(Elements(d.sections)))
        <3>1. PICK S \in SUBSET (Elements(d.sections) \ stuck) : o = CallOutcome(Applied(t, S), "failed")
            BY <2>1, <2>2, <2>4 DEF GitApplies
        <3>2. \E p, q \in Creations(d) : At(t, p) = "dir" \/ p \in Above(q)
            BY <2>2, <2>4, HalfWay
        <3> QED BY <1>4, <2>2, <3>1, <3>2 DEF CallOutcome
    <2> QED BY <2>3, <2>4
<1> QED BY <1>1, <1>2, <1>3, <1>4

--------------------------------------------------------------------------------
(***************************************************************************)
(* What a call is: it has a tool, and a patch has a diff that was read as   *)
(* one section a name.                                                     *)
(***************************************************************************)

Tools == {"patch.apply", "fs.write", "fs.delete"} \cup Readers
CallForm(c) ==
    /\ {"stage", "end", "approved"} \cap DOMAIN c = {} /\ "tool" \in DOMAIN c /\ c.tool \in Tools
    /\ c.tool = "patch.apply" => {"diff", "dryRun"} \subseteq DOMAIN c /\ OneSectionAName(c.diff)
CallKnown ==
    /\ {"tool", "stage", "end"} \subseteq DOMAIN call /\ (call.stage = "asked" => call.tool \in Tools)
    /\ call.tool = "patch.apply" => {"diff", "dryRun"} \subseteq DOMAIN call /\ OneSectionAName(call.diff)
CycleForm == DOMAIN cycle = {"pc", "loop", "diff", "i"} /\ cycle.diff \in Diffs /\ start \in Trees

LEMMA CallForms ==
    /\ \A c \in Calls : CallForm(c)
    /\ CycleForm => CallForm(PatchCall)
<1>1. \A c \in Calls : CallForm(c)
    BY PatchAssumption DEF CallForm, Tools
<1>2. CycleForm => CallForm(PatchCall)
    BY PatchAssumption DEF CycleForm, CallForm, PatchCall, Tools
<1> QED BY <1>1, <1>2

\* The record of a call is the call, its stage and how it ended.
LEMMA Records ==
    ASSUME NEW c, CallForm(c), NEW r, NEW s, NEW e, NEW a,
           r = With(c, [stage |-> s, end |-> e, approved |-> a])
    PROVE  /\ r.stage = s /\ r.end = e /\ r.approved = a /\ r.tool = c.tool
           /\ {"tool", "stage", "end", "approved"} \subseteq DOMAIN r
           /\ c.tool = "patch.apply" =>
                {"diff", "dryRun"} \subseteq DOMAIN r /\ r.diff = c.diff /\ r.dryRun = c.dryRun
<1> DEFINE f == [stage |-> s, end |-> e, approved |-> a]
<1>1. r = [x \in DOMAIN c \cup DOMAIN f |-> IF x \in DOMAIN c THEN c[x] ELSE f[x]]
    BY DEF With
<1>2. DOMAIN f = {"stage", "end", "approved"} /\ f["stage"] = s /\ f["end"] = e /\ f["approved"] = a
    OBVIOUS
<1> HIDE DEF f
<1>3. "tool" \in DOMAIN c /\ {"stage", "end", "approved"} \cap DOMAIN c = {}
    BY DEF CallForm
<1>4. DOMAIN r = DOMAIN c \cup {"stage", "end", "approved"}
    BY <1>1, <1>2
<1>5. r["stage"] = s /\ r["end"] = e /\ r["approved"] = a
    BY <1>1, <1>2, <1>3
<1>6. \A x \in DOMAIN c : r[x] = c[x]
    BY <1>1
<1>7. c.tool = "patch.apply" => {"diff", "dryRun"} \subseteq DOMAIN c
    BY DEF CallForm
<1> QED BY <1>3, <1>4, <1>5, <1>6, <1>7

LEMMA EndedIs ==
    ASSUME NEW c, CallForm(c), NEW e
    PROVE  /\ Ended(c, e).stage = "over" /\ Ended(c, e).end = e /\ Ended(c, e).tool = c.tool
           /\ {"tool", "stage", "end"} \subseteq DOMAIN Ended(c, e) /\ Ended(c, e).approved = Nothing
           /\ c.tool = "patch.apply" =>
                /\ {"diff", "dryRun"} \subseteq DOMAIN Ended(c, e)
                /\ Ended(c, e).diff = c.diff /\ Ended(c, e).dryRun = c.dryRun
    BY Records DEF Ended

LEMMA AskedIs ==
    ASSUME NEW c, CallForm(c)
    PROVE  /\ Asked(c).stage = "asked" /\ Asked(c).end = "none" /\ Asked(c).tool = c.tool
           /\ {"tool", "stage", "end"} \subseteq DOMAIN Asked(c)
           /\ c.tool = "patch.apply" =>
                /\ {"diff", "dryRun"} \subseteq DOMAIN Asked(c)
                /\ Asked(c).diff = c.diff /\ Asked(c).dryRun = c.dryRun
    BY Records DEF Asked

\* Running a call leaves the rest of its record.
LEMMA RunIs ==
    ASSUME CallKnown, NEW o, NEW r, r = [call EXCEPT !.stage = "over", !.end = o.end]
    PROVE  /\ r.stage = "over" /\ r.end = o.end /\ r.tool = call.tool
           /\ {"tool", "stage", "end"} \subseteq DOMAIN r
           /\ call.tool = "patch.apply" =>
                {"diff", "dryRun"} \subseteq DOMAIN r /\ r.diff = call.diff /\ r.dryRun = call.dryRun
<1> USE DEF CallKnown
<1>1. DOMAIN r = DOMAIN call
    OBVIOUS
<1>2. \A x \in DOMAIN call \ {"stage", "end"} : r[x] = call[x]
    OBVIOUS
<1>3. r["stage"] = "over" /\ r["end"] = o.end
    OBVIOUS
<1> QED BY <1>1, <1>2, <1>3

LEMMA ExecuteEnds ==
    ASSUME NEW t, NEW c, c.tool = "patch.apply", OneSectionAName(c.diff), NEW o \in Execute(t, c)
    PROVE  \/ o.tree = t /\ o.end \in {"refused", "failed"}
           \/ o.tree = t /\ o.end = "ok" /\ c.dryRun
           \/ /\ Checked(t, c.diff) /\ c.approved = DeclaredFromGit(c.diff) /\ ~ c.dryRun
              /\ \/ o.end = "ok" /\ o.tree = Applied(t, Elements(c.diff.sections))
                 \/ /\ o.end = "failed" /\ \E S \in SUBSET Elements(c.diff.sections) : o.tree = Applied(t, S)
                    /\ \E p, q \in Creations(c.diff) : At(t, p) = "dir" \/ p \in Above(q)
<1>1. o = CallOutcome(t, "failed") \/ o \in Patch(t, c.diff, c.approved, c.dryRun)
    BY DEF Execute, InputProblem, Readers
<1>2. CASE o = CallOutcome(t, "failed")
    BY <1>2 DEF CallOutcome
<1>3. CASE o \in Patch(t, c.diff, c.approved, c.dryRun)
    BY <1>3, PatchEnds
<1> QED BY <1>1, <1>2, <1>3

--------------------------------------------------------------------------------
(***************************************************************************)
(* What a rollback gives back. HEAD's files are tracked; a path is loose    *)
(* when it is none of them, nor above or beneath one, and git reset --hard *)
(* leaves it alone.                                                        *)
(***************************************************************************)

Kin(p) == \E q \in Creations(cycle.diff) : p \in Above(q) \cup {q}
Tracked == {p \in Path : start[p] \notin {"none", "dir"} /\ ~ Escapes(p) /\ ~ NamesGitDir(p)}
Loose(p) == p \notin Tracked /\ \A q \in Tracked : p \notin Above(q) /\ q \notin Above(p)
Undone(t) == \A p \in Path : t[p] # start[p] => start[p] \in {"none", "dir"} /\ Kin(p)
Undoable(t) == \A p \in Path : Loose(p) /\ t[p] # start[p] => start[p] \in {"none", "dir"} /\ Kin(p)

\* A path the diff writes is in the root and not git's: if HEAD has a file there, it is tracked.
LEMMA DeclaredIsTracked ==
    ASSUME NEW t, NEW d, Checked(t, d), NEW q \in DeclaredFromGit(d)
    PROVE  /\ ~ Escapes(q) /\ ~ NamesGitDir(q)
           /\ q \in Path /\ start[q] \notin {"none", "dir"} => q \in Tracked
           /\ \A p \in Path : p \in Above(q) /\ start[p] \notin {"none", "dir"} /\ q \in Path => p \in Tracked
<1>1. ~ Escapes(q) /\ ~ NamesGitDir(q)
    BY DEF Checked, PatchDeclares, Declarable, SafePath
<1>2. ASSUME NEW p \in Path, p \in Above(q), q \in Path PROVE ~ Escapes(p) /\ ~ NamesGitDir(p)
    BY <1>1, <1>2, AtItself, AboveStaysIn
<1> QED BY <1>1, <1>2 DEF Tracked

LEMMA UndoneByReset ==
    ASSUME start \in Trees, NEW t, Undoable(t)
    PROVE  Undone(Reset(t))
<1> SUFFICES ASSUME NEW p \in Path, Reset(t)[p] # start[p]
             PROVE  start[p] \in {"none", "dir"} /\ Kin(p)
    BY DEF Undone
<1>1. Reset(t)[p] = IF p \in Tracked THEN start[p]
                    ELSE IF \E q \in Tracked : p \in Above(q) THEN "dir"
                    ELSE IF \E q \in Tracked : q \in Above(p) THEN "none" ELSE t[p]
    BY DEF Reset, Tracked
<1>2. \A q \in Path : start[q] # "none" => Inside(start, q)
    BY PatchAssumption DEF Grows
<1>3. \A q \in Tracked : q \in Path /\ start[q] \notin {"none", "dir"} /\ At(start, q) = start[q]
    BY AtItself DEF Tracked
<1>4. At(start, p) = start[p]
    BY AtItself
<1>5. ASSUME NEW q \in Tracked, p \in Above(q) PROVE start[p] = "dir"
    BY <1>2, <1>3, <1>4, <1>5 DEF Inside
<1>6. ASSUME NEW q \in Tracked, q \in Above(p) PROVE start[p] = "none"
    BY <1>2, <1>3, <1>6 DEF Inside
<1>7. Loose(p) /\ Reset(t)[p] = t[p]
    BY <1>1, <1>5, <1>6 DEF Loose
<1> QED BY <1>7 DEF Undoable

\* Whatever part of the patch is applied, what it leaves can be undone again.
LEMMA UndoableApplied ==
    ASSUME NEW t, Undoable(t), Checked(t, cycle.diff), NEW S, S \subseteq Elements(cycle.diff.sections)
    PROVE  Undoable(Applied(t, S))
<1> DEFINE d == cycle.diff
           u == Applied(t, S)
<1> SUFFICES ASSUME NEW p \in Path, Loose(p), u[p] # start[p]
             PROVE  start[p] \in {"none", "dir"} /\ Kin(p)
    BY DEF Undoable
<1>1. /\ Declarable(d) /\ OneSectionAName(d) /\ SeenByGit(d) = Elements(d.sections)
    BY DEF Checked, PatchDeclares, Declarable, Described, SeenByGit
<1>2. /\ At(t, p) = t[p] /\ p # Nowhere
    BY AtItself DEF Nowhere
<1>3. CASE t[p] # start[p]
    BY <1>3 DEF Undoable
<1>4. CASE t[p] = start[p]
    <2>1. u[p] # t[p]
        BY <1>4
    <2>2. ASSUME NEW s \in S
          PROVE  /\ s \in Elements(d.sections)
                 /\ s.new = s.old \/ s.new = Nowhere \/ s.old = Nowhere
                 /\ \A q \in {s.old, s.new} : q # Nowhere => q \in Path /\ q \in DeclaredFromGit(d)
        BY <1>1, SectionNames DEF Named
    <2>3. ASSUME NEW s \in S, s.old = p PROVE FALSE
        <3>1. At(t, p) \in Content /\ p \in DeclaredFromGit(d)
            BY <1>2, <2>2, <2>3, ChangesFiles
        <3>2. start[p] \notin {"none", "dir"}
            BY <1>2, <1>4, <3>1, PatchAssumption
        <3>3. p \in Tracked
            BY <3>1, <3>2, DeclaredIsTracked
        <3> QED BY <3>3 DEF Loose
    <2>4. CASE p \in NewOf(t, S)
        <3>1. PICK s \in S : s.new = p
            BY <2>4 DEF NewOf, Kept
        <3>2. s.old = Nowhere
            BY <1>2, <2>2, <2>3, <3>1
        <3>3. At(t, p) \in {"none", "dir"}
            BY <1>1, <2>2, <3>1, <3>2 DEF Checked, Checks
        <3>4. p \in Creations(d)
            BY <2>2, <3>1, <3>2 DEF Creations
        <3> QED BY <1>2, <1>4, <3>3, <3>4 DEF Kin
    <2>5. CASE p \notin NewOf(t, S) /\ p \in UNION {Above(q) : q \in NewOf(t, S)}
        <3>1. PICK q \in NewOf(t, S) : p \in Above(q)
            BY <2>5
        <3>2. PICK s \in S : s.new = q /\ q # Nowhere
            BY <3>1 DEF NewOf, Kept
        <3>3. q \in Path /\ q \in DeclaredFromGit(d)
            BY <2>2, <3>2
        <3>4. start[p] \in {"none", "dir"}
            BY <3>1, <3>3, DeclaredIsTracked DEF Loose
        <3>5. u[p] = "dir"
            BY <2>5, AppliedAt
        <3>6. s.old = Nowhere
            <4> SUFFICES ASSUME s.old # Nowhere PROVE FALSE
                OBVIOUS
            <4>1. Inside(t, q)
                BY <2>2, <3>2, ChangesFiles
            <4> QED BY <1>2, <2>1, <3>1, <3>5, <4>1 DEF Inside
        <3>7. q \in Creations(d)
            BY <2>2, <3>2, <3>6 DEF Creations
        <3> QED BY <3>1, <3>4, <3>7 DEF Kin
    <2>6. CASE p \in GoneOf(t, S)
        BY <2>3, <2>6 DEF GoneOf, Kept
    <2>7. CASE EmptiedAt(t, S, p)
        <3>1. start[p] = "dir"
            BY <1>2, <1>4, <2>7 DEF EmptiedAt
        <3>2. PICK g \in GoneOf(t, S) : p \in Above(g)
            BY <2>7 DEF EmptiedAt
        <3>3. PICK s \in S : s.old = g
            BY <3>2 DEF GoneOf, Kept
        <3>4. g # Nowhere
            <4>1. Len(<<>>) = 0
                BY EmptySeq
            <4> QED BY <3>2, <4>1 DEF Above, Nowhere
        <3>5. At(t, g) \in Content /\ g \in Path /\ g \in DeclaredFromGit(d)
            BY <2>2, <3>3, <3>4, ChangesFiles
        <3>6. t[g] \notin {"none", "dir"} /\ g \in Seq(STRING)
            BY <3>5, AtItself, PatchAssumption
        <3>7. g \notin Tracked
            BY <3>2 DEF Loose
        <3>8. t[g] # start[g]
            BY <3>5, <3>6, <3>7, DeclaredIsTracked
        <3>9. Loose(g)
            <4>1. ASSUME NEW q \in Tracked, g \in Above(q) PROVE FALSE
                <5>1. q \in Seq(STRING)
                    BY AtItself DEF Tracked
                <5>2. p \in Above(q)
                    BY <3>2, <4>1, <5>1, AboveAbove
                <5> QED BY <5>2 DEF Loose
            <4>2. ASSUME NEW q \in Tracked, q \in Above(g) PROVE FALSE
                <5>1. p = q \/ p \in Above(q) \/ q \in Above(p)
                    BY <3>2, <3>6, <4>2, AboveAbove
                <5> QED BY <5>1 DEF Loose
            <4> QED BY <3>7, <4>1, <4>2 DEF Loose
        <3>10. Kin(g)
            BY <3>5, <3>8, <3>9 DEF Undoable
        <3>11. PICK q \in Creations(d) : g \in Above(q) \cup {q}
            BY <3>10 DEF Kin
        <3>12. p \in Above(q)
            <4>1. q \in Seq(STRING) \/ q = g
                <5>1. PICK r \in Elements(d.sections) : r.old = Nowhere /\ r.new = q
                    BY <3>11 DEF Creations
                <5>2. q # Nowhere
                    BY <1>1, <5>1, SectionNames DEF Named
                <5> QED BY <1>1, <5>1, <5>2, SectionNames, PatchAssumption DEF Named
            <4> QED BY <3>2, <3>11, <4>1, AboveAbove
        <3> QED BY <3>1, <3>11, <3>12 DEF Kin
    <2> QED BY <2>1, <2>4, <2>5, <2>6, <2>7, AppliedAt
<1> QED BY <1>3, <1>4

--------------------------------------------------------------------------------
(***************************************************************************)
(* The invariant of the cycle. Cycling: a call waits only where the loop    *)
(* has made one, the loop's call is its patch, and it works on a checkpoint. *)
(* Landing: the tests run in a tree with the whole patch. Undoing: what a   *)
(* reset would not give back is the patch's own creations.                  *)
(***************************************************************************)

Ends == {"ok", "failed", "refused"}
IsPatch ==
    /\ call.tool = "patch.apply" /\ call.diff = cycle.diff /\ ~ call.dryRun
    /\ call.stage = "asked" \/ (call.stage = "over" /\ call.end \in Ends)
Landed(t) == \A s \in Elements(cycle.diff.sections) : s.new # Nowhere => t[s.new] = s.to

Cycling ==
    /\ CycleForm /\ CallKnown
    /\ call.stage = "asked" => cycle.pc \in {"idle", "patching"}
    /\ cycle.pc = "idle" /\ call = NoCall => tree = start
    /\ cycle.pc = "idle" => straggler = "none"
    /\ cycle.pc = "patching" => IsPatch
    /\ stack \in Nat /\ (cycle.pc \in {"patch", "patching", "test", "rollback", "caught"} => stack > 0)
Landing ==
    straggler # "wrote" =>
       /\ cycle.pc = "patching" /\ call.stage = "over" /\ call.end = "ok" => Landed(tree)
       /\ cycle.pc \in {"test", "succeeded"} => Landed(tree)
       /\ cycle.pc = "succeeded" => tree = tested
Undoing ==
    straggler # "wrote" /\ ~ meddled /\ cycle.pc # "idle" =>
       Undoable(tree) /\ (cycle.pc = "failed" => Undone(tree))
CycleInv == Cycling /\ Landing /\ Undoing

LEMMA UndoneIsUndoable ==
    ASSUME NEW t, Undone(t) PROVE Undoable(t)
    BY DEF Undone, Undoable

LEMMA CycleStarts == CycleInit => CycleInv
<1> SUFFICES ASSUME CycleInit PROVE CycleInv
    OBVIOUS
<1>1. /\ tree = start /\ start \in Trees /\ call = NoCall /\ straggler = "none" /\ stack = 0
      /\ cycle.pc = "idle" /\ cycle.diff \in Diffs /\ DOMAIN cycle = {"pc", "loop", "diff", "i"}
    BY DEF CycleInit
<1>2. CallKnown /\ call.stage = "none"
    BY <1>1 DEF CallKnown, NoCall
<1>3. Cycling
    BY <1>1, <1>2 DEF Cycling, CycleForm
<1> QED BY <1>1, <1>3 DEF CycleInv, Landing, Undoing

\* Where the loop goes: its place changes, its diff stays.
LEMMA CycleMoves ==
    ASSUME CycleForm, start' = start
    PROVE  /\ \A pc : To(pc) => CycleForm' /\ cycle'.pc = pc /\ cycle'.diff = cycle.diff
           /\ TryAgain => CycleForm' /\ cycle'.pc \in {"failed", "checkpoint"} /\ cycle'.diff = cycle.diff
<1> USE DEF CycleForm
<1>1. ASSUME NEW pc, To(pc) PROVE CycleForm' /\ cycle'.pc = pc /\ cycle'.diff = cycle.diff
    BY <1>1 DEF To
<1>2. ASSUME cycle' = [cycle EXCEPT !.pc = "checkpoint", !.i = @ + 1]
      PROVE  CycleForm' /\ cycle'.pc = "checkpoint" /\ cycle'.diff = cycle.diff
    BY <1>2
<1> QED BY <1>1, <1>2 DEF TryAgain

\* The patch is asked for: it waits, or it is over and was not applied.
LEMMA BeginIs ==
    ASSUME NEW c, CallForm(c), BeginCall(c)
    PROVE  /\ CallKnown' /\ call'.tool = c.tool
           /\ call'.stage = "asked" \/ (call'.stage = "over" /\ call'.end \in {"failed", "refused"})
           /\ c.tool = "patch.apply" => call'.diff = c.diff /\ call'.dryRun = c.dryRun
<1>1. \/ \E e \in {"failed", "refused"} : call' = Ended(c, e)
      \/ call' = Asked(c)
    BY DEF BeginCall
<1>2. (c.tool = "patch.apply" => OneSectionAName(c.diff)) /\ c.tool \in Tools
    BY DEF CallForm
<1>3. ASSUME NEW e \in {"failed", "refused"}, call' = Ended(c, e)
      PROVE  /\ CallKnown' /\ call'.tool = c.tool
             /\ call'.stage = "over" /\ call'.end \in {"failed", "refused"}
             /\ c.tool = "patch.apply" => call'.diff = c.diff /\ call'.dryRun = c.dryRun
    BY <1>2, <1>3, EndedIs DEF CallKnown
<1>4. ASSUME call' = Asked(c)
      PROVE  /\ CallKnown' /\ call'.tool = c.tool /\ call'.stage = "asked"
             /\ c.tool = "patch.apply" => call'.diff = c.diff /\ call'.dryRun = c.dryRun
    BY <1>2, <1>4, AskedIs DEF CallKnown
<1> QED BY <1>1, <1>3, <1>4

\* Nothing but a step's own tree matters to what is undone, or landed.
LEMMA SameHead ==
    ASSUME start' = start, cycle'.diff = cycle.diff
    PROVE  /\ Undoable(tree)' <=> Undoable(tree')
           /\ Undone(tree)' <=> Undone(tree')
           /\ Landed(tree)' <=> Landed(tree')
<1>1. Tracked' = Tracked
    BY DEF Tracked
<1>2. \A p : Kin(p)' <=> Kin(p)
    BY DEF Kin
<1>3. \A p : Loose(p)' <=> Loose(p)
    BY <1>1 DEF Loose
<1> QED BY <1>2, <1>3 DEF Undoable, Undone, Landed

\* A call that a caller makes beside the loop, and what others do while one waits.
LEMMA CycleBeside ==
    ASSUME CycleInv,
           (\E c \in Calls : AgentCalls(c) \/ CallsDirectly(c)) \/ (\E t \in Meddling : SomeoneElse(t))
    PROVE  CycleInv'
<1>1. CASE \E c \in Calls : AgentCalls(c) \/ CallsDirectly(c)
    <2>1. /\ cycle.pc = "idle" /\ call = NoCall
          /\ UNCHANGED cycleVars /\ UNCHANGED meddled
        BY <1>1 DEF AgentCalls, CallsDirectly
    <2>2. UNCHANGED <<cycle, stack, straggler, start, tested>>
        BY <2>1 DEF cycleVars
    <2>3. CallKnown' /\ call'.stage \in {"asked", "over"}
        <3>1. PICK c \in Calls : AgentCalls(c) \/ CallsDirectly(c)
            BY <1>1
        <3>2. CallForm(c)
            BY CallForms
        <3>3. CASE AgentCalls(c)
            BY <3>2, <3>3, BeginIs DEF AgentCalls
        <3>4. CASE CallsDirectly(c)
            <4>1. PICK e : call' = Ended(c, e)
                BY <3>4 DEF CallsDirectly
            <4>2. c.tool = "patch.apply" => OneSectionAName(c.diff)
                BY <3>2 DEF CallForm
            <4> QED BY <3>2, <4>1, <4>2, EndedIs DEF CallKnown
        <3> QED BY <3>1, <3>3, <3>4
    <2>4. call' # NoCall
        <3>1. NoCall.stage = "none"
            BY DEF NoCall
        <3> QED BY <2>3, <3>1
    <2>5. Cycling'
        BY <2>1, <2>2, <2>3, <2>4 DEF CycleInv, Cycling, CycleForm
    <2> QED BY <2>1, <2>2, <2>5 DEF CycleInv, Landing, Undoing
<1>2. CASE \E t \in Meddling : SomeoneElse(t)
    <2>1. /\ call.stage = "asked" /\ meddled'
          /\ UNCHANGED <<call, cycle, stack, straggler, start, tested>>
        BY <1>2 DEF SomeoneElse, cycleVars
    <2>2. call # NoCall
        BY <2>1 DEF NoCall
    <2>3. Cycling'
        BY <2>1, <2>2 DEF CycleInv, Cycling, CycleForm, CallKnown, IsPatch
    <2>4. cycle.pc \in {"idle", "patching"}
        BY <2>1 DEF CycleInv, Cycling
    <2> QED BY <2>1, <2>3, <2>4 DEF CycleInv, Landing, Undoing
<1> QED BY <1>1, <1>2

LEMMA CycleRuns == CycleInv /\ Run => CycleInv'
<1> SUFFICES ASSUME CycleInv, Run PROVE CycleInv'
    OBVIOUS
<1>1. /\ call.stage = "asked" /\ UNCHANGED <<meddled, cycle, stack, straggler, start, tested>>
    BY DEF Run, cycleVars
<1>2. PICK o \in Execute(tree, call) :
        tree' = o.tree /\ call' = [call EXCEPT !.stage = "over", !.end = o.end]
    BY DEF Run
<1>3. /\ Cycling /\ CallKnown /\ cycle.pc \in {"idle", "patching"} /\ start \in Trees
      /\ cycle.pc = "patching" => IsPatch
    BY <1>1 DEF CycleInv, Cycling, CycleForm
<1>4. /\ call'.stage = "over" /\ call'.end = o.end /\ call'.tool = call.tool
      /\ {"tool", "stage", "end"} \subseteq DOMAIN call'
      /\ call.tool = "patch.apply" =>
           {"diff", "dryRun"} \subseteq DOMAIN call' /\ call'.diff = call.diff /\ call'.dryRun = call.dryRun
    BY <1>2, <1>3, RunIs
<1>5. CallKnown'
    BY <1>3, <1>4 DEF CallKnown
<1>6. CASE cycle.pc = "idle"
    <2>1. call' # NoCall
        BY <1>4 DEF NoCall
    <2>2. Cycling'
        BY <1>1, <1>3, <1>4, <1>5, <1>6, <2>1 DEF Cycling, CycleForm
    <2> QED BY <1>1, <1>6, <2>2 DEF CycleInv, Landing, Undoing
<1>7. CASE cycle.pc = "patching"
    <2>1. call.tool = "patch.apply" /\ call.diff = cycle.diff /\ ~ call.dryRun /\ OneSectionAName(call.diff)
        BY <1>3, <1>7 DEF IsPatch, CallKnown
    <2>2. \/ o.tree = tree /\ o.end \in {"refused", "failed"}
          \/ /\ Checked(tree, cycle.diff) /\ o.end \in {"ok", "failed"}
             /\ \E S \in SUBSET Elements(cycle.diff.sections) : o.tree = Applied(tree, S)
             /\ o.end = "ok" => o.tree = Applied(tree, Elements(cycle.diff.sections))
        BY <1>2, <2>1, ExecuteEnds
    <2>3. Cycling'
        <3>1. IsPatch'
            BY <1>1, <1>4, <2>1, <2>2 DEF IsPatch, Ends
        <3> QED BY <1>1, <1>3, <1>4, <1>5, <1>7, <3>1 DEF Cycling, CycleForm
    <2>4. Landing'
        <3> SUFFICES ASSUME o.end = "ok" PROVE Landed(tree)'
            BY <1>1, <1>4, <1>7 DEF Landing
        <3>1. Landed(tree')
            BY <1>2, <2>2, AppliedWhole DEF Landed
        <3> QED BY <1>1, <3>1, SameHead
    <2>5. Undoing'
        <3> SUFFICES ASSUME straggler # "wrote", ~ meddled PROVE Undoable(tree)'
            BY <1>1, <1>7 DEF Undoing
        <3>1. Undoable(tree)
            BY <1>7 DEF CycleInv, Undoing
        <3>2. Undoable(tree')
            BY <1>2, <2>2, <3>1, UndoableApplied
        <3> QED BY <1>1, <3>2, SameHead
    <2> QED BY <2>3, <2>4, <2>5 DEF CycleInv
<1> QED BY <1>3, <1>6, <1>7

\* The steps of the loop that leave the tree alone.
LEMMA CycleSteps ==
    ASSUME CycleInv,
           \/ Checkpoint \/ BreakerTrips \/ Patches \/ Patched \/ RecordFails \/ LeavesBranch
           \/ \E end \in {"pass", "fail", "timeout", "refused"} : Tests(end)
    PROVE  CycleInv'
<1>1. Cycling /\ CycleForm /\ CallKnown /\ stack \in Nat
    BY DEF CycleInv, Cycling
<1>2. CASE Checkpoint
    <2>1. /\ UNCHANGED <<tree, call, meddled, straggler, start, tested>>
          /\ cycle.pc = "checkpoint" \/ (cycle.pc = "idle" /\ call = NoCall)
          /\ (stack' = stack + 1 /\ To("patch")) \/ (stack' = stack /\ To("threw"))
        BY <1>2 DEF Checkpoint, toolVars
    <2>2. CycleForm' /\ cycle'.diff = cycle.diff
        BY <1>1, <2>1, CycleMoves
    <2>3. (cycle'.pc = "patch" /\ stack' = stack + 1) \/ (cycle'.pc = "threw" /\ stack' = stack)
        BY <1>1, <2>1, CycleMoves
    <2>4. call.stage # "asked"
        BY <1>1, <2>1 DEF Cycling, NoCall
    <2>5. Cycling'
        BY <1>1, <2>1, <2>2, <2>3, <2>4 DEF Cycling, CallKnown
    <2>6. straggler # "wrote" /\ ~ meddled => Undoable(tree)
        BY <1>1, <2>1 DEF CycleInv, Cycling, Undoing, Undoable
    <2>7. Undoing'
        BY <2>1, <2>2, <2>3, <2>6, SameHead DEF Undoing
    <2> QED BY <2>3, <2>5, <2>7 DEF CycleInv, Landing
<1>3. CASE BreakerTrips
    <2>1. /\ UNCHANGED <<tree, call, meddled, stack, straggler, start, tested>>
          /\ cycle.pc \in {"patch", "test"} /\ To("threw")
        BY <1>3 DEF BreakerTrips, toolVars
    <2>2. CycleForm' /\ cycle'.pc = "threw" /\ cycle'.diff = cycle.diff
        BY <1>1, <2>1, CycleMoves
    <2>3. Cycling'
        BY <1>1, <2>1, <2>2 DEF Cycling, CallKnown
    <2>4. Undoing'
        BY <2>1, <2>2, SameHead DEF CycleInv, Undoing
    <2> QED BY <2>2, <2>3, <2>4 DEF CycleInv, Landing
<1>4. CASE Patches
    <2>1. /\ UNCHANGED <<tree, meddled, stack, straggler, start, tested>>
          /\ cycle.pc = "patch" /\ BeginCall(PatchCall) /\ To("patching")
        BY <1>4 DEF Patches
    <2>2. CycleForm' /\ cycle'.pc = "patching" /\ cycle'.diff = cycle.diff
        BY <1>1, <2>1, CycleMoves
    <2>3. /\ CallKnown' /\ call'.tool = "patch.apply" /\ call'.diff = cycle.diff /\ ~ call'.dryRun
          /\ call'.stage = "asked" \/ (call'.stage = "over" /\ call'.end \in {"failed", "refused"})
        <3>1. CallForm(PatchCall)
            BY <1>1, CallForms
        <3>2. PatchCall.tool = "patch.apply" /\ PatchCall.diff = cycle.diff /\ ~ PatchCall.dryRun
            BY DEF PatchCall
        <3> HIDE DEF PatchCall
        <3> QED BY <2>1, <3>1, <3>2, BeginIs
    <2>4. IsPatch'
        BY <2>2, <2>3 DEF IsPatch, Ends
    <2>5. Cycling'
        BY <1>1, <2>1, <2>2, <2>3, <2>4 DEF Cycling
    <2>6. Undoing'
        BY <2>1, <2>2, SameHead DEF CycleInv, Undoing
    <2> QED BY <2>2, <2>3, <2>5, <2>6 DEF CycleInv, Landing
<1>5. CASE Patched
    <2> DEFINE pc == CASE call.end = "ok" -> "test" [] call.end = "failed" -> "rollback"
                       [] call.end = "refused" -> "threw"
    <2>1. /\ UNCHANGED <<tree, call, meddled, stack, straggler, start, tested>>
          /\ cycle.pc = "patching" /\ call.stage = "over" /\ To(pc)
        BY <1>5 DEF Patched, toolVars
    <2>2. call.end \in Ends
        BY <1>1, <2>1 DEF Cycling, IsPatch
    <2>3. pc \in {"test", "rollback", "threw"} /\ (pc = "test" => call.end = "ok")
        BY <2>2 DEF Ends
    <2> HIDE DEF pc
    <2>4. CycleForm' /\ cycle'.pc = pc /\ cycle'.diff = cycle.diff
        BY <1>1, <2>1, CycleMoves
    <2>5. Cycling'
        BY <1>1, <2>1, <2>3, <2>4 DEF Cycling, CallKnown
    <2>6. Undoing'
        BY <2>1, <2>3, <2>4, SameHead DEF CycleInv, Undoing
    <2>7. Landing'
        BY <2>1, <2>3, <2>4, SameHead DEF CycleInv, Landing
    <2> QED BY <2>5, <2>6, <2>7 DEF CycleInv
<1>6. CASE RecordFails
    <2>1. /\ UNCHANGED <<tree, call, meddled, stack, straggler, start, tested>>
          /\ \/ cycle.pc = "patching" /\ call.stage = "over"
             \/ cycle.pc = "test"
          /\ To("caught") \/ To("threw")
        BY <1>6 DEF RecordFails, toolVars
    <2>2. CycleForm' /\ cycle'.pc \in {"caught", "threw"} /\ cycle'.diff = cycle.diff
        BY <1>1, <2>1, CycleMoves
    <2>3. Cycling'
        BY <1>1, <2>1, <2>2 DEF Cycling, CallKnown
    <2>4. Undoing'
        BY <2>1, <2>2, SameHead DEF CycleInv, Undoing
    <2> QED BY <2>2, <2>3, <2>4 DEF CycleInv, Landing
<1>7. CASE LeavesBranch
    <2>1. UNCHANGED <<tree, call, meddled, cycle, stack, straggler, start, tested>>
        BY <1>7 DEF LeavesBranch, toolVars
    <2>2. Cycling'
        BY <1>1, <2>1 DEF Cycling, CallKnown, CycleForm, IsPatch
    <2>3. Undoing' /\ Landing'
        BY <2>1, SameHead DEF CycleInv, Undoing, Landing
    <2> QED BY <2>2, <2>3 DEF CycleInv
<1>8. ASSUME NEW end \in {"pass", "fail", "timeout", "refused"}, Tests(end) PROVE CycleInv'
    <2> DEFINE pc == CASE end = "pass" -> "succeeded" [] end \in {"fail", "timeout"} -> "rollback"
                       [] end = "refused" -> "threw"
    <2>1. /\ UNCHANGED <<tree, call, meddled, stack, start>>
          /\ cycle.pc = "test"
          /\ end = "pass" => tested' = tree
          /\ straggler' = straggler \/ (straggler = "none" /\ straggler' = "alive")
          /\ To(pc)
        <3>1. /\ UNCHANGED <<tree, call, meddled, stack, start>> /\ cycle.pc = "test"
              /\ tested' = IF end = "pass" THEN tree ELSE Nothing
              /\ straggler' = IF end = "timeout" /\ straggler = "none" THEN "alive" ELSE straggler
            BY <1>8 DEF Tests, toolVars
        <3>2. To(pc)
            BY <1>8 DEF Tests
        <3> HIDE DEF pc
        <3> QED BY <3>1, <3>2
    <2>2. pc \in {"succeeded", "rollback", "threw"} /\ (pc = "succeeded" => end = "pass")
        OBVIOUS
    <2> HIDE DEF pc
    <2>3. CycleForm' /\ cycle'.pc = pc /\ cycle'.diff = cycle.diff
        BY <1>1, <2>1, CycleMoves
    <2>4. Cycling'
        BY <1>1, <2>1, <2>2, <2>3 DEF Cycling, CallKnown
    <2>5. Undoing'
        BY <2>1, <2>2, <2>3, SameHead DEF CycleInv, Undoing
    <2>6. Landing'
        BY <2>1, <2>2, <2>3, SameHead DEF CycleInv, Landing
    <2> QED BY <2>4, <2>5, <2>6 DEF CycleInv
<1> QED BY <1>2, <1>3, <1>4, <1>5, <1>6, <1>7, <1>8

\* The steps of the loop that put the tree back, and a runner that nothing stops.
LEMMA CycleRollsBack == CycleInv /\ (Rollback \/ RollbackToLast) => CycleInv'
<1> SUFFICES ASSUME CycleInv, Rollback \/ RollbackToLast PROVE CycleInv'
    OBVIOUS
<1>1. Cycling /\ CycleForm /\ CallKnown /\ stack \in Nat /\ start \in Trees
    BY DEF CycleInv, Cycling, CycleForm
<1>2. /\ UNCHANGED <<call, meddled, straggler, start, tested>>
      /\ cycle.pc \in {"rollback", "caught"} /\ stack > 0
      /\ \/ tree' = tree /\ stack' = stack /\ (To("caught") \/ To("threw"))
         \/ tree' = Reset(tree) /\ stack' \in Nat /\ TryAgain
    <2>1. CASE Rollback
        <3>1. cycle.pc = "rollback" /\ stack > 0
            BY <1>1, <2>1 DEF Rollback, Cycling
        <3> QED BY <2>1, <3>1 DEF Rollback, toolVars
    <2>2. CASE RollbackToLast
        <3>1. cycle.pc = "caught" /\ stack > 0
            BY <1>1, <2>2 DEF RollbackToLast, Cycling
        <3>2. stack - 1 \in Nat
            BY <1>1, <3>1
        <3> QED BY <2>2, <3>1, <3>2 DEF RollbackToLast, toolVars
    <2> QED BY <2>1, <2>2
<1>3. CASE tree' = tree /\ stack' = stack /\ (To("caught") \/ To("threw"))
    <2>1. CycleForm' /\ cycle'.pc \in {"caught", "threw"} /\ cycle'.diff = cycle.diff
        BY <1>1, <1>2, <1>3, CycleMoves
    <2>2. Cycling'
        BY <1>1, <1>2, <1>3, <2>1 DEF Cycling, CallKnown
    <2>3. Undoing'
        BY <1>2, <1>3, <2>1, SameHead DEF CycleInv, Undoing
    <2> QED BY <2>1, <2>2, <2>3 DEF CycleInv, Landing
<1>4. CASE tree' = Reset(tree) /\ stack' \in Nat /\ TryAgain
    <2>1. CycleForm' /\ cycle'.pc \in {"failed", "checkpoint"} /\ cycle'.diff = cycle.diff
        BY <1>1, <1>2, <1>4, CycleMoves
    <2>2. Cycling'
        BY <1>1, <1>2, <1>4, <2>1 DEF Cycling, CallKnown
    <2>3. straggler # "wrote" /\ ~ meddled => Undone(tree') /\ Undoable(tree')
        BY <1>1, <1>2, <1>4, UndoneByReset, UndoneIsUndoable DEF CycleInv, Undoing
    <2>4. Undoing'
        BY <1>2, <2>1, <2>3, SameHead DEF Undoing
    <2> QED BY <2>1, <2>2, <2>4 DEF CycleInv, Landing
<1> QED BY <1>2, <1>3, <1>4

LEMMA CycleStraggles == CycleInv /\ Straggles => CycleInv'
<1> SUFFICES ASSUME CycleInv, Straggles PROVE CycleInv'
    OBVIOUS
<1>1. /\ straggler = "alive" /\ straggler' = "wrote"
      /\ UNCHANGED <<call, meddled, cycle, stack, start>>
    BY DEF Straggles, toolVars
<1>2. Cycling'
    BY <1>1 DEF CycleInv, Cycling, CallKnown, CycleForm, IsPatch
<1> QED BY <1>1, <1>2 DEF CycleInv, Landing, Undoing

LEMMA CycleStutters == CycleInv /\ UNCHANGED patchVars => CycleInv'
<1> SUFFICES ASSUME CycleInv, UNCHANGED patchVars PROVE CycleInv'
    OBVIOUS
<1>1. UNCHANGED <<tree, call, meddled, cycle, stack, straggler, start, tested>>
    BY DEF patchVars, toolVars, cycleVars
<1>2. Cycling'
    BY <1>1 DEF CycleInv, Cycling, CallKnown, CycleForm, IsPatch
<1>3. Undoing' /\ Landing'
    BY <1>1, SameHead DEF CycleInv, Undoing, Landing
<1> QED BY <1>2, <1>3 DEF CycleInv

LEMMA CycleKept == CycleInv /\ [CycleNext]_patchVars => CycleInv'
    BY CycleBeside, CycleRuns, CycleSteps, CycleRollsBack, CycleStraggles, CycleStutters DEF CycleNext

LEMMA CycleInvariance == CycleSpec => []CycleInv
<1>1. CycleInit => CycleInv
    BY CycleStarts
<1>2. CycleInv /\ [CycleNext]_patchVars => CycleInv'
    BY CycleKept
<1> QED BY <1>1, <1>2, PTL DEF CycleSpec

\* A loop that reports success reports it of the tree its last tests passed in, with the whole
\* patch in it (ToolLoop.ts runPatchTestCycle, PatchTestCycle.ts run), whatever the trees, calls,
\* diffs and limits are.
THEOREM SuccessIsTested == CycleSpec => []SuccessTested
<1>1. CycleInv => SuccessTested
    BY DEF CycleInv, Landing, Landed, SuccessTested
<1> QED BY <1>1, CycleInvariance, PTL

\* A loop that gives up leaves what it found, but for files its patch created and the directories
\* above them (RollbackManager.ts resetHard): git reset puts every other path back, whatever part
\* of the patch was applied and however often.
THEOREM FailureIsUndone == CycleSpec => []CycleUndone
<1>1. CycleInv => CycleUndone
    <2> SUFFICES ASSUME CycleInv, cycle.pc = "failed", straggler # "wrote", ~ meddled PROVE Undone(tree)
        BY DEF CycleUndone, Undone, Kin
    <2> QED BY DEF CycleInv, Undoing
<1> QED BY <1>1, CycleInvariance, PTL

--------------------------------------------------------------------------------
(***************************************************************************)
(* What a call of patch.apply does, of the agent or of a loop.              *)
(***************************************************************************)

PatchedInFull ==
    Acts /\ call'.tool = "patch.apply" =>
      IF call'.end = "ok" /\ ~ call'.dryRun
      THEN /\ \A s \in Elements(call'.diff.sections) :
                /\ s.new # Nowhere => tree'[s.new] = s.to
                /\ s.old \notin {Nowhere, s.new} => ~ IsFile(tree'[s.old])
           /\ \A p \in Changed : p \in DeclaredFromGit(call'.diff) \/ "dir" \in {tree[p], tree'[p]}
           /\ Changed # {} => call.stage = "asked"
      ELSE \/ Changed = {}
           \/ \E p, q \in Creations(call'.diff) : At(tree, p) = "dir" \/ p \in Above(q)

\* What fs.write and fs.delete change is the name they resolved, what is above it and beneath it.
LEMMA WrittenInside ==
    ASSUME NEW t, NEW p, NEW content, NEW createDirs, NEW a \in Path,
           Write(t, p, content, createDirs).tree[a] # t[a]
    PROVE  ~ Escapes(a) /\ ~ NamesGitDir(a)
<1> DEFINE q == ResolveInside(t, p)
           o == Write(t, p, content, createDirs)
<1>1. WritablePath(t, p)
    <2> SUFFICES ASSUME ~ WritablePath(t, p) PROVE FALSE
        OBVIOUS
    <2>1. o = CallOutcome(t, "refused")
        BY DEF Write
    <2> QED BY <2>1 DEF CallOutcome
<1>2. ~ Escapes(q) /\ ~ NamesGitDir(q)
    BY <1>1 DEF WritablePath
<1> DEFINE made == IF createDirs /\ q \in Path /\ \A b \in Above(q) : At(t, b) \in {"none", "dir"}
                   THEN [b \in Path |-> IF b \in Above(q) THEN "dir" ELSE t[b]] ELSE t
<1>3. \/ o = CallOutcome(made, "failed")
      \/ o = CallOutcome([made EXCEPT ![q] = content], "ok") /\ q \in Path
    BY <1>1 DEF Write
<1>4. made[a] = t[a] \/ (q \in Path /\ a \in Above(q))
    OBVIOUS
<1> HIDE DEF made
<1>5. o.tree = made \/ (q \in Path /\ o.tree = [made EXCEPT ![q] = content])
    BY <1>3 DEF CallOutcome
<1> HIDE DEF o, q
<1>6. q \in Path /\ (a = q \/ a \in Above(q))
    <2>1. CASE o.tree = made
        BY <1>4, <2>1 DEF o
    <2>2. CASE q \in Path /\ o.tree = [made EXCEPT ![q] = content]
        <3>1. a # q => o.tree[a] = made[a]
            BY <2>2
        <3> QED BY <1>4, <2>2, <3>1 DEF o
    <2> QED BY <1>5, <2>1, <2>2
<1>7. q \in Seq(STRING)
    BY <1>6, AtItself
<1> QED BY <1>2, <1>6, <1>7, AboveStaysIn

LEMMA DeletedInside ==
    ASSUME NEW t, NEW p, NEW recursive, NEW a \in Path, Delete(t, p, recursive).tree[a] # t[a]
    PROVE  /\ ~ Escapes(a)
           /\ \/ ~ NamesGitDir(a)
              \/ \E b \in Above(a) \cap Path :
                    ~ NamesGitDir(b) /\ Delete(t, p, recursive).tree[b] = "none" /\ t[b] # "none"
<1> DEFINE q == ResolveInside(t, p)
           o == Delete(t, p, recursive)
           u == [b \in Path |-> IF b = q \/ q \in Above(b) THEN "none" ELSE t[b]]
<1>1. WritablePath(t, p) /\ At(t, q) # "none" /\ o = CallOutcome(u, "ok")
    <2> SUFFICES ASSUME o.tree # t PROVE WritablePath(t, p) /\ At(t, q) # "none" /\ o = CallOutcome(u, "ok")
        OBVIOUS
    <2>1. \A end : CallOutcome(t, end).tree = t
        BY DEF CallOutcome
    <2>2. \/ o = CallOutcome(t, "refused") \/ o = CallOutcome(t, "failed")
          \/ WritablePath(t, p) /\ At(t, q) # "none" /\ o = CallOutcome(u, "ok")
        BY DEF Delete
    <2> HIDE DEF o, u, q
    <2> QED BY <2>1, <2>2
<1>2. ~ Escapes(q) /\ ~ NamesGitDir(q) /\ q # <<>>
    BY <1>1 DEF WritablePath
<1>3. q # <<"..">>
    <2>1. Head(<<"..">>) = ".." /\ <<"..">> # <<>>
        OBVIOUS
    <2> QED BY <1>2, <2>1 DEF Escapes
<1>4. q \in Path /\ At(t, q) = t[q]
    BY <1>1, <1>2, <1>3, AtItself DEF At
<1>5. o.tree = u
    BY <1>1 DEF CallOutcome
<1>6. a = q \/ q \in Above(a)
    BY <1>5
<1>7. CASE a = q
    BY <1>2, <1>7
<1>8. CASE q \in Above(a)
    <2>1. a \in Seq(STRING) /\ a # <<>>
        BY AtItself
    <2>2. Head(q) = Head(a)
        <3>1. /\ q \in Seq(STRING) /\ q # <<>> /\ Len(q) \in 1 .. Len(a) - 1 /\ Len(a) \in Nat
              /\ \A i \in 1 .. Len(q) : q[i] = a[i]
            BY <1>8, <2>1, AboveIsBefore
        <3> HIDE DEF q
        <3> QED BY <2>1, <3>1, HeadTailProperties
    <2>3. ~ Escapes(a)
        BY <1>2, <2>1, <2>2 DEF Escapes
    <2>4. o.tree[q] = "none" /\ t[q] # "none"
        BY <1>1, <1>4, <1>5
    <2> QED BY <1>2, <1>4, <1>8, <2>3, <2>4
<1> QED BY <1>6, <1>7, <1>8

LEMMA ReadChangesNothing ==
    ASSUME NEW t, NEW tool, NEW p PROVE Read(t, tool, p).tree = t
    BY DEF Read, CallOutcome

LEMMA ExecutedInside ==
    ASSUME NEW c, c.tool \in Tools, c.tool = "patch.apply" => OneSectionAName(c.diff),
           NEW o \in Execute(tree, c), tree' = o.tree, call'.tool = c.tool
    PROVE  StaysInside
<1> SUFFICES ASSUME NEW p \in Path, tree'[p] # tree[p]
             PROVE  ~ Escapes(p) /\ (NamesGitDir(p) => GoesWithItsDirectory(p))
    BY DEF StaysInside, Changed
<1>1. \/ o = CallOutcome(tree, "failed")
      \/ c.tool = "patch.apply"
      \/ c.tool = "fs.write" /\ o = Write(tree, c.path, c.content, c.createDirs)
      \/ c.tool = "fs.delete" /\ o = Delete(tree, c.path, c.recursive)
      \/ o = Read(tree, c.tool, c.path)
    BY DEF Execute, InputProblem, Readers, Tools
<1>2. CASE o = CallOutcome(tree, "failed")
    BY <1>2 DEF CallOutcome
<1>3. CASE c.tool = "patch.apply"
    <2>1. PICK S \in SUBSET Elements(c.diff.sections) :
             Checked(tree, c.diff) /\ Applied(tree, S)[p] # tree[p]
        BY <1>3, ExecuteEnds
    <2> QED BY <2>1, AppliedInside
<1>4. CASE c.tool = "fs.write" /\ o = Write(tree, c.path, c.content, c.createDirs)
    BY <1>4, WrittenInside
<1>5. CASE c.tool = "fs.delete" /\ o = Delete(tree, c.path, c.recursive)
    <2>1. /\ ~ Escapes(p)
          /\ \/ ~ NamesGitDir(p)
             \/ \E b \in Above(p) \cap Path : ~ NamesGitDir(b) /\ tree'[b] = "none" /\ tree[b] # "none"
        BY <1>5, DeletedInside
    <2> QED BY <1>5, <2>1 DEF GoesWithItsDirectory, Changed
<1>6. CASE o = Read(tree, c.tool, c.path)
    BY <1>6, ReadChangesNothing
<1> QED BY <1>1, <1>2, <1>3, <1>4, <1>5, <1>6

LEMMA ExecutedInFull ==
    ASSUME NEW c, c.tool = "patch.apply", OneSectionAName(c.diff), NEW o \in Execute(tree, c), tree' = o.tree,
           call'.end = o.end, call'.diff = c.diff, call'.dryRun = c.dryRun,
           c.approved = DeclaredFromGit(c.diff) => call.stage = "asked"
    PROVE  PatchedInFull
<1> DEFINE d == c.diff
<1>1. \/ o.tree = tree /\ o.end \in {"refused", "failed"}
      \/ o.tree = tree /\ o.end = "ok" /\ c.dryRun
      \/ /\ Checked(tree, d) /\ c.approved = DeclaredFromGit(d) /\ ~ c.dryRun
         /\ \/ o.end = "ok" /\ o.tree = Applied(tree, Elements(d.sections))
            \/ /\ o.end = "failed" /\ \E S \in SUBSET Elements(d.sections) : o.tree = Applied(tree, S)
               /\ \E p, q \in Creations(d) : At(tree, p) = "dir" \/ p \in Above(q)
    BY ExecuteEnds
<1>2. o.tree = tree => Changed = {}
    BY DEF Changed
<1>3. CASE o.tree = tree /\ o.end \in {"refused", "failed"}
    BY <1>2, <1>3 DEF PatchedInFull
<1>4. CASE o.tree = tree /\ o.end = "ok" /\ c.dryRun
    BY <1>2, <1>4 DEF PatchedInFull
<1>5. CASE /\ Checked(tree, d) /\ c.approved = DeclaredFromGit(d) /\ ~ c.dryRun
           /\ o.end = "ok" /\ o.tree = Applied(tree, Elements(d.sections))
    <2>1. ASSUME NEW s \in Elements(d.sections)
          PROVE  /\ s.new # Nowhere => tree'[s.new] = s.to
                 /\ s.old \notin {Nowhere, s.new} => ~ IsFile(tree'[s.old])
        BY <1>5, AppliedWhole
    <2>2. ASSUME NEW p \in Changed PROVE p \in DeclaredFromGit(d) \/ "dir" \in {tree[p], tree'[p]}
        <3>1. p \in Path /\ tree'[p] # tree[p]
            BY DEF Changed
        <3>2. tree' = Applied(tree, Elements(d.sections))
            BY <1>5
        <3> DEFINE S == Elements(d.sections)
        <3>3. Applied(tree, S)[p] # tree[p] /\ S \subseteq Elements(d.sections)
            BY <3>1, <3>2
        <3>4. Checked(tree, d)
            BY <1>5
        <3> HIDE DEF d, S
        <3>5. p \in DeclaredFromGit(d) \/ "dir" \in {tree[p], Applied(tree, S)[p]}
            BY <3>1, <3>3, <3>4, AppliedWithin
        <3> QED BY <3>2, <3>5 DEF S, d
    <2> QED BY <1>5, <2>1, <2>2 DEF PatchedInFull
<1>6. CASE o.end = "failed" /\ \E p, q \in Creations(d) : At(tree, p) = "dir" \/ p \in Above(q)
    BY <1>6 DEF PatchedInFull
<1> QED BY <1>1, <1>3, <1>4, <1>5, <1>6

LEMMA StepInFull == CycleInv /\ [CycleNext]_patchVars => PatchedInFull
<1> SUFFICES ASSUME CycleInv, [CycleNext]_patchVars PROVE PatchedInFull
    OBVIOUS
<1>1. CallKnown /\ CycleForm
    BY DEF CycleInv, Cycling
<1>2. CASE call' = call
    BY <1>2 DEF PatchedInFull, Acts
<1>3. CASE Run
    <2> SUFFICES ASSUME call'.tool = "patch.apply" PROVE PatchedInFull
        BY DEF PatchedInFull
    <2>1. PICK o \in Execute(tree, call) :
            tree' = o.tree /\ call' = [call EXCEPT !.stage = "over", !.end = o.end]
        BY <1>3 DEF Run
    <2>2. /\ call'.end = o.end /\ call'.tool = call.tool
          /\ call.tool = "patch.apply" => call'.diff = call.diff /\ call'.dryRun = call.dryRun
        BY <1>1, <2>1, RunIs
    <2>3. OneSectionAName(call.diff) /\ call.stage = "asked"
        BY <1>1, <1>3, <2>2 DEF CallKnown, Run
    <2> QED BY <2>1, <2>2, <2>3, ExecutedInFull
<1>4. ASSUME NEW c \in Calls, CallsDirectly(c) PROVE PatchedInFull
    <2> SUFFICES ASSUME call'.tool = "patch.apply" PROVE PatchedInFull
        BY DEF PatchedInFull
    <2>1. PICK o \in Execute(tree, Ended(c, "none")) : tree' = o.tree /\ call' = Ended(c, o.end)
        BY <1>4 DEF CallsDirectly
    <2>2. CallForm(c)
        BY CallForms
    <2>3. call'.tool = c.tool /\ c.tool = "patch.apply" /\ OneSectionAName(c.diff)
        BY <2>1, <2>2, EndedIs DEF CallForm
    <2>4. call'.end = o.end /\ call'.diff = c.diff /\ call'.dryRun = c.dryRun
        BY <2>1, <2>2, <2>3, EndedIs
    <2> DEFINE e == Ended(c, "none")
    <2>5. e.tool = c.tool /\ e.diff = c.diff /\ e.dryRun = c.dryRun /\ e.approved = Nothing
        BY <2>2, <2>3, EndedIs
    <2>6. DeclaredFromGit(c.diff) # Nothing
        BY <2>3, PatchAssumption
    <2> HIDE DEF e
    <2> QED BY <2>1, <2>3, <2>4, <2>5, <2>6, ExecutedInFull DEF e
<1>5. ASSUME NEW c, CallForm(c), BeginCall(c), tree' = tree PROVE PatchedInFull
    <2>1. call'.stage = "asked" \/ call'.end \in {"failed", "refused"}
        BY <1>5, BeginIs
    <2>2. Changed = {}
        BY <1>5 DEF Changed
    <2> QED BY <2>1, <2>2 DEF PatchedInFull, Acts
<1>6. ASSUME NEW c \in Calls, AgentCalls(c) PROVE PatchedInFull
    BY <1>5, <1>6, CallForms DEF AgentCalls
<1>7. CASE Patches
    BY <1>1, <1>5, <1>7, CallForms DEF Patches
<1>8. CASE \/ Checkpoint \/ BreakerTrips \/ Patched \/ RecordFails \/ Rollback \/ RollbackToLast
           \/ Straggles \/ LeavesBranch \/ (\E t \in Meddling : SomeoneElse(t))
           \/ \E end \in {"pass", "fail", "timeout", "refused"} : Tests(end)
    BY <1>2, <1>8 DEF Checkpoint, BreakerTrips, Patched, RecordFails, Rollback, RollbackToLast, Straggles,
                      LeavesBranch, SomeoneElse, Tests, toolVars
<1>9. CASE UNCHANGED patchVars
    BY <1>2, <1>9 DEF patchVars, toolVars
<1> QED BY <1>3, <1>4, <1>6, <1>7, <1>8, <1>9 DEF CycleNext

\* A patch reported as applied is there in full, made of the paths that were approved and of
\* directories; one refused or failed wrote nothing, but for the two cases git finds out half way
\* (patch.ts execute): of every call, in every tree that others may have changed meanwhile.
THEOREM PatchAllOrNothing == CycleSpec => AllOrNothing
<1>1. CycleInv /\ [CycleNext]_patchVars => [PatchedInFull]_patchVars
    BY StepInFull
<1>2. [][PatchedInFull]_patchVars => AllOrNothing
    BY DEF AllOrNothing, PatchedInFull
<1> QED BY <1>1, <1>2, CycleInvariance, PTL DEF CycleSpec

\* Every step that ends a call stays inside: the calls that run are Run's and CallsDirectly's,
\* and what ends without running changes nothing.
LEMMA StepStaysInside == CycleInv /\ [CycleNext]_patchVars => (Acts => StaysInside)
<1> SUFFICES ASSUME CycleInv, [CycleNext]_patchVars, Acts PROVE StaysInside
    OBVIOUS
<1>1. CallKnown /\ CycleForm
    BY DEF CycleInv, Cycling
<1>2. CASE call' = call
    BY <1>2 DEF Acts
<1>3. CASE tree' = tree
    BY <1>3 DEF StaysInside, Changed
<1>4. CASE Run
    <2>1. PICK o \in Execute(tree, call) :
            tree' = o.tree /\ call' = [call EXCEPT !.stage = "over", !.end = o.end]
        BY <1>4 DEF Run
    <2>2. call'.tool = call.tool
        BY <1>1, <2>1, RunIs
    <2>3. call.tool \in Tools /\ (call.tool = "patch.apply" => OneSectionAName(call.diff))
        BY <1>1, <1>4 DEF CallKnown, Run
    <2> QED BY <2>1, <2>2, <2>3, ExecutedInside
<1>5. ASSUME NEW c \in Calls, CallsDirectly(c) PROVE StaysInside
    <2> DEFINE e == Ended(c, "none")
    <2>1. PICK o \in Execute(tree, e) : tree' = o.tree /\ call' = Ended(c, o.end)
        BY <1>5 DEF CallsDirectly
    <2>2. CallForm(c)
        BY CallForms
    <2>3. call'.tool = e.tool /\ e.tool = c.tool /\ (c.tool = "patch.apply" => e.diff = c.diff)
        BY <2>1, <2>2, EndedIs
    <2>4. e.tool \in Tools /\ (e.tool = "patch.apply" => OneSectionAName(e.diff))
        BY <2>2, <2>3 DEF CallForm
    <2> HIDE DEF e
    <2> QED BY <2>1, <2>3, <2>4, ExecutedInside
<1>6. ASSUME NEW c \in Calls, AgentCalls(c) PROVE StaysInside
    BY <1>3, <1>6 DEF AgentCalls
<1>7. CASE Patches
    BY <1>3, <1>7 DEF Patches
<1>8. CASE \/ Checkpoint \/ BreakerTrips \/ Patched \/ RecordFails \/ Rollback \/ RollbackToLast
           \/ Straggles \/ LeavesBranch \/ (\E t \in Meddling : SomeoneElse(t))
           \/ \E end \in {"pass", "fail", "timeout", "refused"} : Tests(end)
    BY <1>2, <1>8 DEF Checkpoint, BreakerTrips, Patched, RecordFails, Rollback, RollbackToLast, Straggles,
                      LeavesBranch, SomeoneElse, Tests, toolVars
<1>9. CASE UNCHANGED patchVars
    BY <1>2, <1>9 DEF patchVars, toolVars
<1> QED BY <1>4, <1>5, <1>6, <1>7, <1>8, <1>9 DEF CycleNext

\* No call changes a path outside the root, nor git's own data but for a repository that goes with
\* the directory it is in (fs.ts writablePath; patch.ts safePath, refuseGitDirPaths): the first half
\* of WritesLand, in any tree, through any links, whatever others did while the call waited.
THEOREM CallsStayInside == CycleSpec => [][Acts => StaysInside]_patchVars
<1>1. CycleInv /\ [CycleNext]_patchVars => [Acts => StaysInside]_patchVars
    BY StepStaysInside
<1> QED BY <1>1, CycleInvariance, PTL DEF CycleSpec

================================================================================

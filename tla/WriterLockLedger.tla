---------------------------- MODULE WriterLockLedger ---------------------------
(***************************************************************************)
(* The writer lock as a ledger of hold intervals (dag-runner's             *)
(* createWriterLockLedger), asked by readers which writers overlapped      *)
(* their turn.  Times are readings of a clock that never goes back and may *)
(* repeat a reading; the writers are serialized by the runner.             *)
(***************************************************************************)
EXTENDS Integers, FiniteSets, Sequences, SequencesExt

CONSTANTS
    Writer, Reader,
    MaxTime          \* bound: readings of the clock

ASSUME LedgerAssumption == MaxTime \in Nat /\ Writer \cap Reader = {}

Time == 0 .. MaxTime
Forever == MaxTime + 1     \* +Infinity: the end of a hold still open

VARIABLES
    now,        \* performance.now()
    openHolds,    \* open holds: [nodeId, at], in Map order
    closedHolds,  \* ended holds: [nodeId, from, to], in order of their end
    turn,       \* each reader: before, open, closed (endedAt read) or asked
    from, to,   \* each reader's bracket.at and endedAt
    answer,     \* what writersOverlapping told each reader
    ranBeside   \* history: the writers that held the lock during each turn

ledgerVars == <<now, openHolds, closedHolds, turn, from, to, answer, ranBeside>>

Holds == [nodeId : Writer, from : Time, to : Time]

LedgerTypeOK ==
    /\ now \in Time
    /\ openHolds \in Seq([nodeId : Writer, at : Time])
    /\ closedHolds \in Seq(Holds)
    /\ turn \in [Reader -> {"before", "open", "closed", "asked"}]
    /\ from \in [Reader -> Time] /\ to \in [Reader -> Time]
    /\ answer \in [Reader -> Seq(Writer)]
    /\ ranBeside \in [Reader -> SUBSET Writer]

LedgerInit ==
    /\ now = 0
    /\ openHolds = <<>>
    /\ closedHolds = <<>>
    /\ turn = [r \in Reader |-> "before"]
    /\ from = [r \in Reader |-> 0]
    /\ to = [r \in Reader |-> 0]
    /\ answer = [r \in Reader |-> <<>>]
    /\ ranBeside = [r \in Reader |-> {}]

Tick ==
    /\ now < MaxTime
    /\ now' = now + 1
    /\ UNCHANGED <<openHolds, closedHolds, turn, from, to, answer, ranBeside>>

Holding(w) == \E i \in DOMAIN openHolds : openHolds[i].nodeId = w

Ended(w) == \E i \in DOMAIN closedHolds : closedHolds[i].nodeId = w

\* enter: the runner calls it for a writer that takes the free lock, once.
Enter(w) ==
    /\ openHolds = <<>> /\ ~ Ended(w)
    /\ openHolds' = Append(openHolds, [nodeId |-> w, at |-> now])
    /\ ranBeside' = [r \in Reader |->
                       IF turn[r] = "open" THEN ranBeside[r] \cup {w} ELSE ranBeside[r]]
    /\ UNCHANGED <<now, closedHolds, turn, from, to, answer>>

\* exit: the open hold moves to the closed ones, ending now.
Exit(w) ==
    \E i \in DOMAIN openHolds :
        /\ openHolds[i].nodeId = w
        /\ openHolds' = RemoveAt(openHolds, i)
        /\ closedHolds' = Append(closedHolds, [nodeId |-> w, from |-> openHolds[i].at, to |-> now])
        /\ UNCHANGED <<now, turn, from, to, answer, ranBeside>>

\* Wrong: an interval must start within the window.
OverlapsByStart(holdFrom, holdTo, first, last) == holdFrom <= last /\ holdFrom >= first

\* Wrong: only the end of the hold is looked at.
OverlapsByEnd(holdFrom, holdTo, first, last) == holdTo >= first

\* Two closed intervals share a reading.
Overlaps(holdFrom, holdTo, first, last) == holdFrom <= last /\ holdTo >= first

\* Who held at the places S, in order.
WritersAt(holds, S) ==
    [k \in 1 .. Cardinality(S) |-> holds[CHOOSE i \in S : Cardinality({j \in S : j < i}) = k - 1].nodeId]

EndedDuring(first, last) == {i \in DOMAIN closedHolds : Overlaps(closedHolds[i].from, closedHolds[i].to, first, last)}
OpenDuring(first, last) == {i \in DOMAIN openHolds : Overlaps(openHolds[i].at, Forever, first, last)}

\* Wrong: the writer still holding is told first.
OpenHoldsFirst(first, last) ==
    WritersAt(openHolds, OpenDuring(first, last)) \o WritersAt(closedHolds, EndedDuring(first, last))

\* The ended holds that overlap, in order, then any hold still open.
WritersOverlapping(first, last) ==
    WritersAt(closedHolds, EndedDuring(first, last)) \o WritersAt(openHolds, OpenDuring(first, last))

\* A reader's turn opens at bracket.at and closes at endedAt; it asks later.
OpenTurn(r) ==
    /\ turn[r] = "before"
    /\ turn' = [turn EXCEPT ![r] = "open"]
    /\ from' = [from EXCEPT ![r] = now]
    /\ ranBeside' = [ranBeside EXCEPT ![r] = {w \in Writer : Holding(w)}]
    /\ UNCHANGED <<now, openHolds, closedHolds, to, answer>>

CloseTurn(r) ==
    /\ turn[r] = "open"
    /\ turn' = [turn EXCEPT ![r] = "closed"]
    /\ to' = [to EXCEPT ![r] = now]
    /\ UNCHANGED <<now, openHolds, closedHolds, from, answer, ranBeside>>

Ask(r) ==
    /\ turn[r] = "closed"
    /\ turn' = [turn EXCEPT ![r] = "asked"]
    /\ answer' = [answer EXCEPT ![r] = WritersOverlapping(from[r], to[r])]
    /\ UNCHANGED <<now, openHolds, closedHolds, from, to, ranBeside>>

LedgerNext ==
    \/ Tick
    \/ \E w \in Writer : Enter(w) \/ Exit(w)
    \/ \E r \in Reader : OpenTurn(r) \/ CloseTurn(r) \/ Ask(r)

LedgerSpec == LedgerInit /\ [][LedgerNext]_ledgerVars

--------------------------------------------------------------------------------
\* No writer that held the lock during a reader's turn is missing from the
\* answer, however the clock repeats itself and however late the reader asks
\* (WriterLockLedger.ts:12-16; types/index.ts:321-326).
CoRunnersNamed ==
    \A r \in Reader : turn[r] = "asked" => ranBeside[r] \subseteq ToSet(answer[r])

\* "Writers are serialized, so the closed intervals are in acquisition order and
\* precede any open one" (WriterLockLedger.ts:14-15): the answer is in the
\* order the writers took the lock, each named once, whatever was open when asked.
Takers(holds) == [i \in DOMAIN holds |-> holds[i].nodeId]
Taken == Takers(closedHolds) \o Takers(openHolds)
AnswerInOrder ==
    \A r \in Reader : \A i, j \in DOMAIN answer[r] :
        i < j => \E k, l \in DOMAIN Taken :
                    k < l /\ Taken[k] = answer[r][i] /\ Taken[l] = answer[r][j]

\* A writer named without having run beside the reader let go at the very reading
\* the turn opened on, or took the lock at the reading it closed on: with a clock
\* that never repeats a reading the answer is exact (types/index.ts:311-315).
OnlyTiesAreExtra ==
    \A r \in Reader : turn[r] = "asked" =>
        \A w \in ToSet(answer[r]) \ ranBeside[r] :
            \/ \E i \in DOMAIN closedHolds :
                 /\ closedHolds[i].nodeId = w
                 /\ closedHolds[i].to = from[r] \/ closedHolds[i].from = to[r]
            \/ \E i \in DOMAIN openHolds : openHolds[i].nodeId = w /\ openHolds[i].at = to[r]

\* What the ledger tells a reader is what happened beside it: everyone who held the
\* lock then, in order, and beyond them only ties of the clock.
AnswerTrue == CoRunnersNamed /\ AnswerInOrder /\ OnlyTiesAreExtra
================================================================================

---------------------------- MODULE GraphHandle ----------------------------
(* The native handle behind a MemoryGraph: KuzuDriver tracks what is in      *)
(* flight and frees the database once, when it is closed and idle. Opening   *)
(* starts the connection's initialisation and the schema's statements;       *)
(* every operation waits for the schema, and the statements are issued one   *)
(* after the other, also past a close, each then refused and ignored.        *)
EXTENDS Naturals, FiniteSets

CONSTANTS
    Queries,      \* operations that may be under way together
    Statements    \* statements of SCHEMA_DDL

VARIABLES
    graph,     \* KuzuDriver: "unopened", "open", "closed" or "released"
    inFlight,  \* native work not settled: "init", "schema", queries
    schema,    \* statements not issued yet
    asked      \* a query: "no", "waiting" for the schema, "issued", "done", "refused"

graphVars == <<graph, inFlight, schema, asked>>

GraphInit ==
    /\ graph = "unopened" /\ inFlight = {} /\ schema = Statements
    /\ asked = [q \in Queries |-> "no"]

\* The constructor: init is tracked, and the first statement issued, before it returns.
OpenGraph ==
    /\ graph = "unopened"
    /\ graph' = "open" /\ inFlight' = {"init", "schema"} /\ schema' = schema - 1
    /\ UNCHANGED asked

SchemaReady == schema = 0 /\ "schema" \notin inFlight

\* Mutant of Settled: only close() frees the database.
SettledOnly(x) == inFlight' = inFlight \ {x} /\ UNCHANGED graph

\* track's finally: the last to settle after a close frees the database.
Settled(x) ==
    /\ inFlight' = inFlight \ {x}
    /\ graph' = IF graph = "closed" /\ inFlight = {x} THEN "released" ELSE graph

InitSettles == "init" \in inFlight /\ Settled("init") /\ UNCHANGED <<schema, asked>>

StatementSettles ==
    /\ "schema" \in inFlight /\ "init" \notin inFlight
    /\ Settled("schema") /\ UNCHANGED <<schema, asked>>

QuerySettles(q) ==
    /\ q \in inFlight /\ "init" \notin inFlight
    /\ Settled(q)
    /\ asked' = [asked EXCEPT ![q] = "done"]
    /\ UNCHANGED schema

\* run: refused once close() was called.
Accepts == graph = "open"

NextStatement ==
    /\ graph # "unopened" /\ schema > 0 /\ "schema" \notin inFlight
    /\ schema' = schema - 1
    /\ inFlight' = IF Accepts THEN inFlight \union {"schema"} ELSE inFlight
    /\ UNCHANGED <<graph, asked>>

Ask(qs) == asked' = [q \in Queries |-> IF q \in qs THEN "waiting" ELSE asked[q]]

Issue(q) ==
    /\ asked[q] = "waiting" /\ SchemaReady
    /\ IF Accepts
       THEN /\ inFlight' = inFlight \union {q}
            /\ asked' = [asked EXCEPT ![q] = "issued"]
       ELSE /\ asked' = [asked EXCEPT ![q] = "refused"]
            /\ UNCHANGED inFlight
    /\ UNCHANGED <<graph, schema>>

\* Mutant of CloseGraph: close() does not look at what is in flight.
CloseAtOnce == graph' = IF graph # "open" THEN graph ELSE "released"

CloseGraph ==
    graph' = IF graph # "open" THEN graph ELSE IF inFlight = {} THEN "released" ELSE "closed"

GraphMoves ==
    \/ InitSettles \/ StatementSettles \/ NextStatement
    \/ \E q \in Queries : Issue(q) \/ QuerySettles(q)
=============================================================================

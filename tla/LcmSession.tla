---------------------------- MODULE LcmSession ----------------------------
(* What a run remembers of itself: the transcript in memory, the messages    *)
(* and summaries of the LCM database, the entries of the blackboard on their *)
(* way into it, and everything that summarizes.                              *)
(*                                                                           *)
(* A message is its row in `lcm_messages`, in order of insertion, which is   *)
(* the order of `created_at`; its id is its place. Every message is one      *)
(* token. A statement of the database is synchronous; what is awaited is the *)
(* summarizer, the log file and the turns of the event loop between two      *)
(* messages of a batch.                                                      *)
EXTENDS Integers, Sequences, FiniteSets

CONSTANTS
    Entry,            \* what nodes append to the transcript
    Key,              \* what nodes put on the board
    Caller,           \* calls that assemble a context or map over the session
    Mode,             \* per caller: the mode it asks for, by default the engine's
    Flusher,          \* nodes that flush the board into the LCM
    FreshTailCount, SoftThreshold, ChunkSize,
    ContextLimit,     \* tokenBudget * contextThreshold
    GhostCount,       \* cues a context carries: 10
    MaxMessages,      \* bound: rows of lcm_messages
    MaxSummaries,     \* bound: rows of lcm_summaries
    None

LcmMode == {"Dolt", "Upward"}

ASSUME SessionAssumption ==
    /\ Mode \in [Caller -> LcmMode]
    /\ (Entry \cup Key) \cap Nat = {} /\ Entry \cap Key = {}
    /\ None \notin Nat
    /\ FreshTailCount \in Nat \ {0} /\ SoftThreshold \in Nat
    /\ ChunkSize \in Nat \ {0} /\ ContextLimit \in Nat
    /\ GhostCount \in Nat

VARIABLES
    messages,     \* lcm_messages, in order
    summaries,    \* lcm_summaries: the ids each is linked to
    entries,      \* TranscriptLogger.entries
    writing,      \* entries whose append is being written
    compacting,   \* TranscriptLogger's chunk being compacted, or None
    flushQueue,   \* BlackboardToLcmAdapter.flushQueue
    batch,        \* per flusher: what its flush has still to write
    job,          \* per caller: the chunks it has still to summarize
    context,      \* the context that was last handed over
    pending,      \* CompressionAgent.pendingEntries
    fed,          \* how many messages of the session the agent was fed
    pass,         \* the agent's compactions under way: by itself, by compactNow
    compactor,    \* what compacts in this process: its calls, or an agent
    merged,       \* whether `maf merge` has copied the session
    gone,         \* history: entries and keys whose write failed
    overlapped    \* history: two compactions of the agent ran side by side

storeVars == <<messages, summaries>>
loggerVars == <<entries, writing, compacting>>
boardVars == <<flushQueue, batch>>
callerVars == <<job, context>>
agentVars == <<compactor, pending, fed, pass, overlapped>>
vars == <<storeVars, loggerVars, boardVars, callerVars, agentVars, merged, gone>>

Ids == 1 .. MaxMessages
Message == [content : Entry \cup Key, session : {"run", "merged"}, summary : Nat \cup {None}]
NoContext == [messages |-> {}, ghosts |-> {}, of |-> {}, mode |-> "Upward"]
Idle == [chunks |-> <<>>, of |-> {}]

Seen == {messages[i].content : i \in DOMAIN messages}
Elements(s) == {s[i] : i \in DOMAIN s}
First(s, n) == SubSeq(s, 1, IF n < Len(s) THEN n ELSE Len(s))
Rest(s, n) == SubSeq(s, n + 1, Len(s))

TypeOK ==
    /\ messages \in Seq(Message)
    /\ summaries \in Seq(SUBSET Nat)
    /\ entries \in Seq(Entry) /\ writing \subseteq Entry
    /\ compacting \in (SUBSET Entry) \cup {None}
    /\ flushQueue \in Seq(Key) /\ batch \in [Flusher -> Seq(Key)]
    /\ job \in [Caller -> [chunks : Seq(SUBSET Nat), of : SUBSET Nat]]
    /\ context \in [messages : SUBSET Nat, ghosts : SUBSET Nat, of : SUBSET Nat, mode : LcmMode]
    /\ pending \in Seq(Nat) /\ fed \in Nat
    /\ pass \in [auto : Seq(Nat), now : Seq(Nat)]
    /\ compactor \in {"calls", "agent"} /\ merged \in BOOLEAN /\ overlapped \in BOOLEAN
    /\ gone \subseteq Entry \cup Key

Init ==
    /\ messages = <<>> /\ summaries = <<>>
    /\ entries = <<>> /\ writing = {} /\ compacting = None
    /\ flushQueue = <<>> /\ batch = [f \in Flusher |-> <<>>]
    /\ job = [c \in Caller |-> Idle] /\ context = NoContext
    /\ pending = <<>> /\ fed = 0 /\ pass = [auto |-> <<>>, now |-> <<>>]
    /\ compactor \in {"calls", "agent"}
    /\ merged = FALSE /\ gone = {} /\ overlapped = FALSE

-----------------------------------------------------------------------------
(* LcmStore. *)

OfSession(s) == {i \in DOMAIN messages : messages[i].session = s}
Oldest(ids, n) == {i \in ids : Cardinality({j \in ids : j < i}) < n}

\* Wrong: ORDER BY created_at DESC.
UncompactedNewest(s) ==
    LET open == {i \in OfSession(s) : messages[i].summary = None} IN
    {i \in open : Cardinality({j \in open : j > i}) < Cardinality(OfSession(s)) - FreshTailCount}

Uncompacted(s) ==
    Oldest({i \in OfSession(s) : messages[i].summary = None},
           Cardinality(OfSession(s)) - FreshTailCount)

InsertMessage(content) ==
    /\ Len(messages) < MaxMessages
    /\ messages' = Append(messages, [content |-> content, session |-> "run", summary |-> None])
    /\ UNCHANGED summaries

\* The links of a summary are foreign keys: one id that is no message refuses the lot.
Linkable(ids) == ids \subseteq DOMAIN messages

MarkSummarized(ids, n) ==
    [i \in DOMAIN messages |-> IF i \in ids THEN [messages[i] EXCEPT !.summary = n] ELSE messages[i]]

\* Wrong: only what is not summarized yet is linked.
SummarizeLinksNew(ids) ==
    /\ Linkable(ids) /\ Len(summaries) < MaxSummaries
    /\ summaries' = Append(summaries, {i \in ids : messages[i].summary = None})
    /\ messages' = MarkSummarized(ids, Len(summaries) + 1)

Summarize(ids) ==
    /\ Linkable(ids) /\ Len(summaries) < MaxSummaries
    /\ summaries' = Append(summaries, ids)
    /\ messages' = MarkSummarized(ids, Len(summaries) + 1)

Expand(s) == IF s \in DOMAIN summaries THEN summaries[s] ELSE {}

\* The summaries a session's marks name, in the order of its messages, cut at GhostCount.
Marked(s) == {messages[i].summary : i \in OfSession(s)} \ {None}
Oldmost(s, n) == CHOOSE i \in OfSession(s) : messages[i].summary = n
                   /\ \A j \in OfSession(s) : messages[j].summary = n => i <= j
Ghosts(s) == {n \in Marked(s) :
                Cardinality({m \in Marked(s) : Oldmost(s, m) < Oldmost(s, n)}) < GhostCount}

-----------------------------------------------------------------------------
(* TranscriptLogger. Several nodes append to the run's one transcript. *)

AppendEntry(e) ==
    /\ e \notin Elements(entries) /\ Len(messages) < MaxMessages
    /\ entries' = Append(entries, e) /\ writing' = writing \cup {e}
    /\ UNCHANGED <<storeVars, compacting, boardVars, callerVars, agentVars, merged, gone>>

\* compactOldest takes its chunk at once and waits for the summarizer.
AppendEnds(e) ==
    /\ e \in writing /\ writing' = writing \ {e}
    /\ InsertMessage(e)
    /\ compacting' = IF Len(entries) > SoftThreshold /\ compacting = None
                     THEN Elements(First(entries, ChunkSize)) ELSE compacting
    /\ UNCHANGED <<entries, boardVars, callerVars, agentVars, merged, gone>>

AppendFails(e) ==
    /\ e \in writing /\ writing' = writing \ {e} /\ gone' = gone \cup {e}
    /\ UNCHANGED <<storeVars, entries, compacting, boardVars, callerVars, agentVars, merged>>

\* The ids handed over are the entries' own: what cannot be linked is thrown and swallowed.
CompactOldest ==
    /\ compacting # None /\ compacting' = None
    /\ IF Linkable(compacting)
       THEN Summarize(compacting) /\ entries' = Rest(entries, ChunkSize)
       ELSE UNCHANGED <<storeVars, entries>>
    /\ UNCHANGED <<writing, boardVars, callerVars, agentVars, merged, gone>>

-----------------------------------------------------------------------------
(* BlackboardToLcmAdapter. *)

EntryCreated(k) ==
    /\ k \notin Seen \cup gone \cup Elements(flushQueue) \cup UNION {Elements(batch[f]) : f \in Flusher}
    /\ flushQueue' = Append(flushQueue, k)
    /\ UNCHANGED <<storeVars, loggerVars, batch, callerVars, agentVars, merged, gone>>

\* Wrong: the queue is emptied once its batch is written.
FlushKeepsQueue(f) ==
    /\ batch[f] = <<>> /\ flushQueue # <<>>
    /\ batch' = [batch EXCEPT ![f] = flushQueue] /\ UNCHANGED flushQueue
    /\ UNCHANGED <<storeVars, loggerVars, callerVars, agentVars, merged, gone>>

Flush(f) ==
    /\ batch[f] = <<>> /\ flushQueue # <<>>
    /\ batch' = [batch EXCEPT ![f] = flushQueue] /\ flushQueue' = <<>>
    /\ UNCHANGED <<storeVars, loggerVars, callerVars, agentVars, merged, gone>>

FlushWrites(f) ==
    /\ batch[f] # <<>> /\ InsertMessage(Head(batch[f]))
    /\ batch' = [batch EXCEPT ![f] = Tail(@)]
    /\ UNCHANGED <<loggerVars, flushQueue, callerVars, agentVars, merged, gone>>

\* A write that fails ends the loop, and the batch has left the queue.
FlushFails(f) ==
    /\ batch[f] # <<>>
    /\ gone' = gone \cup Elements(batch[f]) /\ batch' = [batch EXCEPT ![f] = <<>>]
    /\ UNCHANGED <<storeVars, loggerVars, flushQueue, callerVars, agentVars, merged>>

-----------------------------------------------------------------------------
(* LcmEngine.assembleContext and the two map operators. *)

\* Only a caller in the mode Dolt is given cues.
Cues(c) == IF Mode[c] = "Dolt" THEN Ghosts("run") ELSE {}

\* `of` is what the session held when the context was asked for.
Assembled(c, of) ==
    [messages |-> Oldest(OfSession("run"), FreshTailCount), ghosts |-> Cues(c), of |-> of,
     mode |-> Mode[c]]

AssembleContext(c) ==
    /\ compactor = "calls" /\ job[c] = Idle /\ messages # <<>>
    /\ LET all == OfSession("run") old == Uncompacted("run") IN
       \/ /\ Cardinality(all) <= ContextLimit
          /\ context' = [messages |-> all, ghosts |-> {}, of |-> all, mode |-> Mode[c]]
          /\ UNCHANGED job
       \/ /\ Cardinality(all) > ContextLimit /\ old = {}
          /\ context' = Assembled(c, all) /\ UNCHANGED job
       \/ /\ Cardinality(all) > ContextLimit /\ old # {}
          /\ job' = [job EXCEPT ![c] = [chunks |-> <<old>>, of |-> all]]
          /\ UNCHANGED context
    /\ UNCHANGED <<storeVars, loggerVars, boardVars, agentVars, merged, gone>>

\* What the session holds now, cut into chunks of n, oldest first.
Chunks(ids, n) ==
    [k \in 1 .. (Cardinality(ids) + n - 1) \div n |-> Oldest(ids, k * n) \ Oldest(ids, (k - 1) * n)]

MapOver(c, whole) ==
    /\ compactor = "calls" /\ job[c] = Idle /\ messages # <<>>
    /\ job' = [job EXCEPT ![c] =
         [chunks |-> Chunks(OfSession("run"), IF whole THEN ChunkSize ELSE 1), of |-> {}]]
    /\ UNCHANGED <<storeVars, loggerVars, boardVars, context, agentVars, merged, gone>>

Remaining(j) == IF Len(j.chunks) > 1 THEN [j EXCEPT !.chunks = Tail(j.chunks)] ELSE Idle

\* Wrong: the cues are those of before the summary.
SummarizedStale(c) ==
    /\ job[c].chunks # <<>> /\ Summarize(Head(job[c].chunks))
    /\ job' = [job EXCEPT ![c] = Remaining(@)]
    /\ context' = IF job[c].of = {} THEN context ELSE Assembled(c, job[c].of)
    /\ UNCHANGED <<loggerVars, boardVars, agentVars, merged, gone>>

\* A chunk is summarized, linked and marked; a hierarchical map of several chunks then hands
\* its summaries' ids over as messages', is refused by the foreign key and throws, keeping what it has.
Summarized(c) ==
    /\ job[c].chunks # <<>> /\ Summarize(Head(job[c].chunks))
    /\ job' = [job EXCEPT ![c] = Remaining(@)]
    /\ context' = IF job[c].of = {} THEN context
                  ELSE [Assembled(c, job[c].of) EXCEPT !.ghosts = Cues(c)']
    /\ UNCHANGED <<loggerVars, boardVars, agentVars, merged, gone>>

SummarizeFails(c) ==
    /\ job[c].chunks # <<>> /\ job' = [job EXCEPT ![c] = Idle]
    /\ UNCHANGED <<storeVars, loggerVars, boardVars, context, agentVars, merged, gone>>

\* `maf merge` copies the rows, the mark of each with them.
MergeRuns ==
    /\ ~merged /\ merged' = TRUE
    /\ LET all == OfSession("run")
           Copy(k) == LET i == CHOOSE i \in all : Cardinality({j \in all : j < i}) = k - 1
                      IN [messages[i] EXCEPT !.session = "merged"] IN
       /\ all # {} /\ Len(messages) + Cardinality(all) <= MaxMessages
       /\ messages' = messages \o [k \in 1 .. Cardinality(all) |-> Copy(k)]
    /\ UNCHANGED <<summaries, loggerVars, boardVars, callerVars, agentVars, gone>>

-----------------------------------------------------------------------------
(* CompressionAgent, fed in order with what the session stores, under the   *)
(* ids the LCM gave it, as compact takes the entries' ids to be.             *)

Ingest ==
    /\ compactor = "agent"
    /\ \E i \in OfSession("run") :
         /\ Cardinality({j \in OfSession("run") : j < i}) = fed
         /\ pending' = Append(pending, i)
    /\ fed' = fed + 1
    /\ LET fires == Len(pending') > SoftThreshold /\ pass.auto = <<>> IN
       /\ pass' = IF fires THEN [pass EXCEPT !.auto = First(pending', ChunkSize)] ELSE pass
       /\ overlapped' = (overlapped \/ (fires /\ pass.now # <<>>))
    /\ UNCHANGED <<storeVars, loggerVars, boardVars, callerVars, compactor, merged, gone>>

CompactNow ==
    /\ pass.now = <<>> /\ pending # <<>>
    /\ pass' = [pass EXCEPT !.now = First(pending, ChunkSize)]
    /\ overlapped' = (overlapped \/ pass.auto # <<>>)
    /\ UNCHANGED <<storeVars, loggerVars, boardVars, callerVars, compactor, pending, fed, merged, gone>>

Compacted(p) ==
    /\ pass[p] # <<>> /\ Summarize(Elements(pass[p]))
    /\ pending' = Rest(pending, Len(pass[p]))
    /\ pass' = [pass EXCEPT ![p] = <<>>]
    /\ UNCHANGED <<loggerVars, boardVars, callerVars, compactor, fed, overlapped, merged, gone>>

\* Wrong: the chunk leaves the pending entries before its summary is there.
CompactFailsSpliced(p) ==
    /\ pass[p] # <<>> /\ pass' = [pass EXCEPT ![p] = <<>>]
    /\ pending' = Rest(pending, Len(pass[p]))
    /\ UNCHANGED <<storeVars, loggerVars, boardVars, callerVars, compactor, fed, overlapped, merged, gone>>

CompactFails(p) ==
    /\ pass[p] # <<>> /\ pass' = [pass EXCEPT ![p] = <<>>]
    /\ UNCHANGED <<storeVars, loggerVars, boardVars, callerVars, compactor, pending, fed, overlapped, merged, gone>>

-----------------------------------------------------------------------------
Next ==
    \/ \E e \in Entry : AppendEntry(e) \/ AppendEnds(e) \/ AppendFails(e)
    \/ CompactOldest
    \/ \E k \in Key : EntryCreated(k)
    \/ \E f \in Flusher : Flush(f) \/ FlushWrites(f) \/ FlushFails(f)
    \/ \E c \in Caller : AssembleContext(c) \/ Summarized(c) \/ SummarizeFails(c)
    \/ \E c \in Caller, whole \in BOOLEAN : MapOver(c, whole)
    \/ MergeRuns \/ Ingest \/ CompactNow
    \/ \E p \in {"auto", "now"} : Compacted(p) \/ CompactFails(p)

Spec == Init /\ [][Next]_vars

-----------------------------------------------------------------------------
(* Whatever is marked as summarized can be had back: expanding its summary   *)
(* gives a message of the same content. Two summarizers may take the same    *)
(* messages, one may throw half way, and `maf merge` copies marks without    *)
(* the links (LcmStore.insertSummary, markSummarized; SessionMerger.ts:8).   *)
MarksExpand ==
    \A i \in DOMAIN messages : messages[i].summary # None =>
      \E j \in Expand(messages[i].summary) : messages[j].content = messages[i].content

(* History is summarized from its old end: however many summarizers run over *)
(* the session at once, what they have marked is its beginning. Only two     *)
(* passes of one agent over the same entries break this.                     *)
OldestFirst ==
    overlapped \/ \A i, j \in OfSession("run") :
      i < j /\ messages[j].summary # None => messages[i].summary # None

(* What is written is written once, whatever node flushed it and whatever    *)
(* ran meanwhile; what is nowhere was in a write that failed, or behind one  *)
(* in the same batch (TranscriptLogger.append, BlackboardToLcmAdapter.flush). *)
WrittenOnce ==
    /\ \A i, j \in OfSession("run") : messages[i].content = messages[j].content => i = j
    /\ \A e \in Elements(entries) \ writing : e \in Seen \cup gone
    /\ Seen \cap gone = {}

(* The agent forgets an entry only once it is summarized, unless compactNow  *)
(* was called beside a compaction of its own (CompressionAgent.ts:53).       *)
ForgottenWhenSummarized ==
    overlapped \/ \A i \in OfSession("run") :
      /\ Cardinality({j \in OfSession("run") : j < i}) < fed
      /\ i \notin Elements(pending)
      => messages[i].summary # None

(* Summarizing loses nothing: what is marked can be had back, what the agent *)
(* forgets is marked.                                                        *)
NothingLost == MarksExpand /\ ForgottenWhenSummarized

(* A context reaches what it does not show. What was older than the fresh    *)
(* tail when it was asked for is in it, or is summarized, whoever else       *)
(* summarizes meanwhile or marks the same messages again. In the mode Dolt   *)
(* the context itself says where: it has a cue for the summary, unless the   *)
(* cues were cut. In the mode Upward, the default, no cue is given, and the  *)
(* summary can only be reached by who knows its id                           *)
(* (LcmEngine.assembleContext, buildGhostCues).                              *)
ContextReaches ==
    \A i \in context.of :
      \/ i \in context.messages
      \/ Cardinality({j \in context.of : j > i}) < FreshTailCount
      \/ /\ context.mode = "Dolt"
         /\ (\E n \in context.ghosts : i \in Expand(n)) \/ Cardinality(context.ghosts) = GhostCount
      \/ context.mode = "Upward" /\ \E n \in DOMAIN summaries : i \in Expand(n)
=============================================================================

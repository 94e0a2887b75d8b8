------------------------- MODULE LcmSession_proofs -------------------------
(* A run's memory, for any nodes, callers, flushers, sizes and thresholds.  *)
EXTENDS LcmSession, FiniteSetTheorems, SequenceTheorems, NaturalsInduction, WellFoundedInduction, TLAPS

-----------------------------------------------------------------------------
(* Counting.                                                                 *)

\* A set of numbers that is not empty has a smallest one.
LEMMA Smallest == ASSUME NEW S, S \subseteq Nat, S # {}
                  PROVE  \E k \in S : \A l \in S : k <= l
<1>1. PICK k \in S : \A l \in S : ~ (<<l, k>> \in OpToRel(<, Nat))
  BY NatLessThanWellFounded, WFMin
<1>2. \A l \in S : ~ (l < k)
  BY <1>1 DEF OpToRel
<1> QED BY <1>2

\* The places of the elements of M, in the order of f: who is at which place, and that every
\* place is taken.
Place(M, f, n) == Cardinality({m \in M : f[m] < f[n]})

\* A place is a number below the size of the set.
LEMMA PlaceIsNat ==
    ASSUME NEW M, IsFiniteSet(M), NEW f \in [M -> Nat], NEW n \in M
    PROVE  /\ IsFiniteSet({m \in M : f[m] < f[n]})
           /\ Place(M, f, n) \in 0 .. Cardinality(M) - 1
<1> DEFINE below == {m \in M : f[m] < f[n]}
<1>1. below \in SUBSET (M \ {n})
  OBVIOUS
<1>2. IsFiniteSet(M \ {n}) /\ Cardinality(M \ {n}) = Cardinality(M) - 1
  BY FS_RemoveElement
<1>3. IsFiniteSet(below) /\ Cardinality(below) <= Cardinality(M) - 1
  BY <1>1, <1>2, FS_Subset
<1>4. Cardinality(below) \in Nat /\ Cardinality(M) \in Nat
  BY <1>3, FS_CardinalityType
<1> QED BY <1>3, <1>4 DEF Place

\* Who is smaller has an earlier place.
LEMMA PlaceGrows ==
    ASSUME NEW M, IsFiniteSet(M), NEW f \in [M -> Nat], NEW m \in M, NEW n \in M, f[m] < f[n]
    PROVE  Place(M, f, m) < Place(M, f, n)
<1> DEFINE A == {k \in M : f[k] < f[m]}
           B == {k \in M : f[k] < f[n]}
<1>1. IsFiniteSet(A) /\ IsFiniteSet(B)
  BY PlaceIsNat
<1>2. m \notin A /\ A \cup {m} \in SUBSET B
  OBVIOUS
<1>3. IsFiniteSet(A \cup {m}) /\ Cardinality(A \cup {m}) = Cardinality(A) + 1
  BY <1>1, <1>2, FS_AddElement
<1>4. Cardinality(A \cup {m}) <= Cardinality(B)
  BY <1>1, <1>2, FS_Subset
<1>5. Cardinality(A) \in Nat /\ Cardinality(B) \in Nat
  BY <1>1, FS_CardinalityType
<1> QED BY <1>3, <1>4, <1>5 DEF Place

\* No two have the same place.
LEMMA PlacesDiffer ==
    ASSUME NEW M, IsFiniteSet(M), NEW f \in [M -> Nat],
           \A m, n \in M : f[m] = f[n] => m = n,
           NEW m \in M, NEW n \in M, Place(M, f, m) = Place(M, f, n)
    PROVE  m = n
<1>1. f[m] \in Nat /\ f[n] \in Nat
  OBVIOUS
<1>2. Place(M, f, m) \in 0 .. Cardinality(M) - 1 /\ Cardinality(M) \in Nat
  BY PlaceIsNat, FS_CardinalityType
<1>3. ~(f[m] < f[n]) /\ ~(f[n] < f[m])
  BY <1>2, PlaceGrows
<1> QED BY <1>1, <1>3

\* Every place is taken.
LEMMA PlacesTaken ==
    ASSUME NEW M, IsFiniteSet(M), NEW f \in [M -> Nat],
           \A m, n \in M : f[m] = f[n] => m = n,
           NEW k \in 0 .. Cardinality(M) - 1
    PROVE  \E m \in M : Place(M, f, m) = k
<1> DEFINE g == [m \in M |-> Place(M, f, m)]
           T == 0 .. Cardinality(M) - 1
<1>c. Cardinality(M) \in Nat
  BY FS_CardinalityType
<1>2. g \in Injection(M, T)
  <2>1. g \in [M -> T]
    BY PlaceIsNat
  <2>2. \A m, n \in M : Place(M, f, m) = Place(M, f, n) => m = n
    BY PlacesDiffer
  <2> QED BY <2>1, <2>2 DEF Injection, IsInjective
<1>3. IsFiniteSet(T) /\ Cardinality(T) = Cardinality(M)
  BY <1>c, FS_Interval
<1>4. g \in Surjection(M, T)
  BY <1>2, <1>3, FS_Injection
<1> QED BY <1>4 DEF Surjection

\* And as many of the first places are taken as there are, if there are so many.
LEMMA PlacesCut ==
    ASSUME NEW M, IsFiniteSet(M), NEW f \in [M -> Nat],
           \A m, n \in M : f[m] = f[n] => m = n,
           NEW c \in 0 .. Cardinality(M)
    PROVE  Cardinality({m \in M : Place(M, f, m) < c}) = c
<1> DEFINE A == {m \in M : Place(M, f, m) < c}
           h == [m \in A |-> Place(M, f, m)]
<1>c. Cardinality(M) \in Nat
  BY FS_CardinalityType
<1>p. \A m \in M : Place(M, f, m) \in 0 .. Cardinality(M) - 1
  BY PlaceIsNat
<1>d. \A m, n \in M : Place(M, f, m) = Place(M, f, n) => m = n
  BY PlacesDiffer
<1>1. h \in [A -> 0 .. c - 1]
  BY <1>c, <1>p
<1>2. \A a, b \in A : h[a] = h[b] => a = b
  BY <1>d
<1>3. \A k \in 0 .. c - 1 : \E a \in A : h[a] = k
  <2> SUFFICES ASSUME NEW k \in 0 .. c - 1 PROVE \E a \in A : h[a] = k
    OBVIOUS
  <2>1. k \in 0 .. Cardinality(M) - 1
    BY <1>c
  <2>2. PICK m \in M : Place(M, f, m) = k
    BY <2>1, PlacesTaken
  <2>3. m \in A /\ h[m] = k
    BY <2>2
  <2> QED BY <2>3
<1>4. h \in Bijection(A, 0 .. c - 1)
  BY <1>1, <1>2, <1>3 DEF Bijection, Injection, Surjection, IsInjective
<1>5. IsFiniteSet(A)
  BY FS_Subset
<1>6. Cardinality(0 .. c - 1) = Cardinality(A)
  BY <1>4, <1>5, FS_Bijection DEF ExistsBijection
<1>7. Cardinality(0 .. c - 1) = c
  BY <1>c, FS_Interval
<1> QED BY <1>6, <1>7

\* The place of i among the members of a set: how many are older.
Rank(S, i) == Cardinality({j \in S : j < i})

\* A rank is the place among numbers, so what holds of places holds of ranks.
LEMMA RankIsPlace ==
    ASSUME NEW S, S \subseteq Nat, NEW i \in S
    PROVE  Rank(S, i) = Place(S, [j \in S |-> j], i)
<1>1. {j \in S : j < i} = {j \in S : [k \in S |-> k][j] < [k \in S |-> k][i]}
  OBVIOUS
<1> QED BY <1>1 DEF Rank, Place

\* The ranks of a finite set: numbers below its size, in its order, each taken.
LEMMA RankIsNat == ASSUME NEW S, S \subseteq Nat, IsFiniteSet(S), NEW i
                   PROVE  Rank(S, i) \in Nat /\ Rank(S, i) <= Cardinality(S)
<1>1. {j \in S : j < i} \in SUBSET S
  OBVIOUS
<1>2. IsFiniteSet({j \in S : j < i}) /\ Cardinality({j \in S : j < i}) <= Cardinality(S)
  BY <1>1, FS_Subset
<1> QED BY <1>2, FS_CardinalityType DEF Rank

\* Of an element there are fewer before it than there are elements.
LEMMA RankBelow == ASSUME NEW S, S \subseteq Nat, IsFiniteSet(S), NEW i \in S
                   PROVE  Rank(S, i) < Cardinality(S)
<1>1. [j \in S |-> j] \in [S -> Nat]
  OBVIOUS
<1>2. Place(S, [j \in S |-> j], i) \in 0 .. Cardinality(S) - 1
  BY <1>1, PlaceIsNat
<1>3. Cardinality(S) \in Nat
  BY FS_CardinalityType
<1>4. Rank(S, i) = Place(S, [j \in S |-> j], i)
  BY RankIsPlace
<1> QED BY <1>2, <1>3, <1>4

\* Who is older has the lower rank.
LEMMA RankGrows == ASSUME NEW S, S \subseteq Nat, IsFiniteSet(S), NEW i \in S, NEW j \in S, i < j
                   PROVE  Rank(S, i) < Rank(S, j)
<1>1. [k \in S |-> k] \in [S -> Nat] /\ [k \in S |-> k][i] < [k \in S |-> k][j]
  OBVIOUS
<1>2. Place(S, [k \in S |-> k], i) < Place(S, [k \in S |-> k], j)
  BY <1>1, PlaceGrows
<1> QED BY <1>2, RankIsPlace

\* Each rank belongs to one, and every rank below the size to somebody.
LEMMA RankTaken ==
    ASSUME NEW S, S \subseteq Nat, IsFiniteSet(S)
    PROVE  /\ \A i, j \in S : Rank(S, i) = Rank(S, j) => i = j
           /\ \A k \in 0 .. Cardinality(S) - 1 : \E i \in S : Rank(S, i) = k
<1>1. PICK f : f = [k \in S |-> k]
  OBVIOUS
<1>2. f \in [S -> Nat]
  BY <1>1
<1>3. \A m, n \in S : f[m] = f[n] => m = n
  BY <1>1
<1>4. \A m, n \in S : Place(S, f, m) = Place(S, f, n) => m = n
  BY <1>2, <1>3, PlacesDiffer
<1>5. ASSUME NEW k \in 0 .. Cardinality(S) - 1 PROVE \E m \in S : Place(S, f, m) = k
  BY <1>2, <1>3, PlacesTaken
<1>6. \A m \in S : Rank(S, m) = Place(S, f, m)
  BY <1>1, RankIsPlace
<1> QED BY <1>4, <1>5, <1>6

\* In a part of a set nobody has more before it than in the whole.
LEMMA RankOfPart == ASSUME NEW S, S \subseteq Nat, IsFiniteSet(S), NEW T \in SUBSET S, NEW i
                    PROVE  Rank(T, i) <= Rank(S, i)
<1>1. {j \in T : j < i} \in SUBSET {j \in S : j < i}
  OBVIOUS
<1>2. IsFiniteSet({j \in S : j < i})
  BY FS_Subset
<1> QED BY <1>1, <1>2, FS_Subset DEF Rank

\* Who is older, who is younger and oneself are all there is.
LEMMA RankAndAfter ==
    ASSUME NEW S, S \subseteq Nat, IsFiniteSet(S), NEW i \in S
    PROVE  Cardinality({j \in S : j > i}) = Cardinality(S) - 1 - Rank(S, i)
<1> DEFINE A == {j \in S : j > i}
           B == {j \in S : j < i}
<1>1. IsFiniteSet(A) /\ IsFiniteSet(B)
  BY FS_Subset
<1>2. S \ {i} = A \cup B /\ A \cap B = {}
  <2>1. \A j \in S : j \in Nat /\ i \in Nat
    OBVIOUS
  <2>2. \A j \in S : (j # i <=> (j > i \/ j < i)) /\ ~(j > i /\ j < i)
    BY <2>1
  <2> QED BY <2>2
<1>3. Cardinality(S \ {i}) = Cardinality(S) - 1
  BY FS_RemoveElement
<1>4. Cardinality(A \cup B) = Cardinality(A) + Cardinality(B) - Cardinality(A \cap B)
  BY <1>1, FS_Union
<1>5. Cardinality(A \cap B) = 0
  BY <1>2, FS_EmptySet
<1>6. Cardinality(A) \in Nat /\ Cardinality(B) \in Nat /\ Cardinality(S) \in Nat
  BY <1>1, FS_CardinalityType
<1> QED BY <1>2, <1>3, <1>4, <1>5, <1>6 DEF Rank

-----------------------------------------------------------------------------
(* The inductive invariant.                                                  *)

\* The messages of the run, and those that are summarized.
Run == OfSession("run")
IsMarked(i) == messages[i].summary # None

\* A summary is linked to messages, and to those of the run that name it as theirs.
Linked ==
    /\ \A n \in DOMAIN summaries : summaries[n] \subseteq DOMAIN messages
    /\ \A i \in Run : IsMarked(i) =>
          messages[i].summary \in DOMAIN summaries /\ i \in summaries[messages[i].summary]

\* An entry of the transcript is being written, was written, or was lost in its write; what the
\* logger takes for compaction are entries.
Transcript ==
    /\ writing \subseteq Elements(entries)
    /\ \A e \in Elements(entries) \ writing : e \in Seen \cup gone
    /\ (Seen \cup gone) \cap Entry \subseteq Elements(entries) \ writing
    /\ compacting = None \/ (compacting # {} /\ compacting \subseteq Entry)

\* A key waits in one place at most, and only until it is written or lost.
Apart(f) == Elements(batch[f]) \cap (Elements(flushQueue) \cup Seen \cup gone) = {}
Board ==
    /\ IsInjective(flushQueue) /\ Elements(flushQueue) \cap (Seen \cup gone) = {}
    /\ \A f \in Flusher : IsInjective(batch[f]) /\ Apart(f)
    /\ \A f, g \in Flusher : f # g => Elements(batch[f]) \cap Elements(batch[g]) = {}

\* What a call has still to summarize: whatever is older is marked, or is in an earlier chunk.
\* If it is for a context, the chunk holds what the context will not show and is not marked.
InOrder(chunks) ==
    \A k \in DOMAIN chunks :
      /\ chunks[k] \subseteq DOMAIN messages
      /\ \A j \in chunks[k], i \in Run : i < j => IsMarked(i) \/ \E l \in 1 .. k : i \in chunks[l]
Covers(of, chunk) ==
    \A i \in of : Cardinality({j \in of : j > i}) < FreshTailCount \/ (i \in Run /\ (IsMarked(i) \/ i \in chunk))
JobInOrder(c) ==
    /\ InOrder(job[c].chunks)
    /\ job[c].of # {} => Len(job[c].chunks) = 1 /\ Covers(job[c].of, job[c].chunks[1])
Jobs == \A c \in Caller : JobInOrder(c)

\* The agent holds fed messages of the session, in order; a pass of its own, if no second one is
\* under way, is over the oldest of them.
Agent ==
    /\ fed <= Cardinality(Run)
    /\ \A k \in DOMAIN pending : pending[k] \in Run /\ Rank(Run, pending[k]) < fed
    /\ \A k, l \in DOMAIN pending : k < l => pending[k] < pending[l]
Passes ==
    /\ pass.auto = <<>> \/ pass.now = <<>>
    /\ \A p \in {"auto", "now"} : \A k \in DOMAIN pass[p] : k \in DOMAIN pending /\ pass[p][k] = pending[k]

-----------------------------------------------------------------------------
(* What the statements of the store do.                                      *)

\* The rows of the tables are numbered from one.
LEMMA Rows ==
    ASSUME TypeOK
    PROVE  /\ Len(messages) \in Nat /\ DOMAIN messages = 1 .. Len(messages)
           /\ \A i \in DOMAIN messages : messages[i] \in Message
           /\ Len(summaries) \in Nat /\ DOMAIN summaries = 1 .. Len(summaries)
           /\ Run \subseteq DOMAIN messages /\ Run \subseteq Nat /\ IsFiniteSet(Run)
<1>1. /\ Len(messages) \in Nat /\ DOMAIN messages = 1 .. Len(messages)
      /\ \A i \in DOMAIN messages : messages[i] \in Message
      /\ Len(summaries) \in Nat /\ DOMAIN summaries = 1 .. Len(summaries)
  BY LenProperties DEF TypeOK
<1>2. Run \subseteq DOMAIN messages
  BY DEF Run, OfSession
<1>3. IsFiniteSet(1 .. Len(messages))
  BY <1>1, FS_Interval
<1> QED BY <1>1, <1>2, <1>3, FS_Subset

\* A new message is the youngest, of the run, and not summarized.
LEMMA InsertAppends ==
    ASSUME TypeOK, NEW c \in Entry \cup Key, InsertMessage(c)
    PROVE  /\ messages' \in Seq(Message) /\ summaries' = summaries
           /\ DOMAIN messages' = 1 .. Len(messages) + 1
           /\ \A i \in DOMAIN messages : messages'[i] = messages[i]
           /\ messages'[Len(messages) + 1] = [content |-> c, session |-> "run", summary |-> None]
<1> DEFINE m == [content |-> c, session |-> "run", summary |-> None]
<1>1. m \in Message
  BY DEF Message
<1>2. messages \in Seq(Message) /\ messages' = Append(messages, m) /\ summaries' = summaries
  BY DEF TypeOK, InsertMessage
<1>3. DOMAIN messages = 1 .. Len(messages) /\ Len(messages) \in Nat
  BY Rows
<1> HIDE DEF m
<1>4. /\ messages' \in Seq(Message) /\ Len(messages') = Len(messages) + 1
      /\ \A i \in 1 .. Len(messages) : messages'[i] = messages[i]
      /\ messages'[Len(messages) + 1] = m
  BY <1>1, <1>2, AppendProperties
<1>5. DOMAIN messages' = 1 .. Len(messages')
  BY <1>4, LenProperties
<1> QED BY <1>2, <1>3, <1>4, <1>5 DEF m

\* A summary is linked to the messages it marks; nothing else of a message changes.
LEMMA SummarizeMarks ==
    ASSUME TypeOK, NEW ids, Summarize(ids)
    PROVE  /\ messages' \in Seq(Message) /\ summaries' \in Seq(SUBSET Nat)
           /\ ids \subseteq DOMAIN messages /\ DOMAIN messages' = DOMAIN messages
           /\ \A i \in DOMAIN messages :
                /\ messages'[i].content = messages[i].content
                /\ messages'[i].session = messages[i].session
                /\ i \in ids => messages'[i].summary = Len(summaries) + 1
                /\ i \notin ids => messages'[i].summary = messages[i].summary
           /\ DOMAIN summaries' = 1 .. Len(summaries) + 1
           /\ \A n \in DOMAIN summaries : summaries'[n] = summaries[n]
           /\ summaries'[Len(summaries) + 1] = ids
<1> DEFINE n == Len(summaries) + 1
           mark(i) == IF i \in ids THEN [messages[i] EXCEPT !.summary = n] ELSE messages[i]
<1>1. ids \subseteq DOMAIN messages /\ messages' = [i \in DOMAIN messages |-> mark(i)]
  BY DEF Summarize, Linkable, MarkSummarized
<1>2. /\ Len(messages) \in Nat /\ DOMAIN messages = 1 .. Len(messages)
      /\ \A i \in DOMAIN messages : messages[i] \in Message
      /\ Len(summaries) \in Nat /\ DOMAIN summaries = 1 .. Len(summaries)
  BY Rows
<1>3. \A i \in DOMAIN messages :
        /\ mark(i) \in Message
        /\ mark(i).content = messages[i].content /\ mark(i).session = messages[i].session
        /\ i \in ids => mark(i).summary = n
        /\ i \notin ids => mark(i).summary = messages[i].summary
  BY <1>2 DEF Message
<1>4. messages' \in [1 .. Len(messages) -> Message]
  BY <1>1, <1>2, <1>3
<1>5. messages' \in Seq(Message)
  BY <1>2, <1>4
<1>6. ids \in SUBSET Nat /\ summaries \in Seq(SUBSET Nat) /\ summaries' = Append(summaries, ids)
  BY <1>1, <1>2 DEF TypeOK, Summarize
<1>7. /\ summaries' \in Seq(SUBSET Nat) /\ Len(summaries') = n
      /\ \A k \in 1 .. Len(summaries) : summaries'[k] = summaries[k]
      /\ summaries'[n] = ids
  BY <1>6, AppendProperties
<1>8. DOMAIN summaries' = 1 .. Len(summaries')
  BY <1>7, LenProperties
<1>9. \A i \in DOMAIN messages : messages'[i] = mark(i)
  BY <1>1
<1> HIDE DEF mark
<1> QED BY <1>1, <1>2, <1>3, <1>5, <1>7, <1>8, <1>9

\* What `maf merge` adds are the run's messages again, of another session.
LEMMA MergeCopies ==
    ASSUME TypeOK, MergeRuns
    PROVE  /\ messages' \in Seq(Message) /\ summaries' = summaries
           /\ DOMAIN messages \subseteq DOMAIN messages'
           /\ \A i \in DOMAIN messages : messages'[i] = messages[i]
           /\ \A i \in DOMAIN messages' \ DOMAIN messages :
                /\ messages'[i].session = "merged"
                /\ \E j \in Run : /\ messages'[i].content = messages[j].content
                                  /\ messages'[i].summary = messages[j].summary
<1> DEFINE place(k) == CHOOSE i \in Run : Cardinality({j \in Run : j < i}) = k - 1
           copy(k) == [messages[place(k)] EXCEPT !.session = "merged"]
           copies == [k \in 1 .. Cardinality(Run) |-> copy(k)]
<1>1. messages' = messages \o copies /\ summaries' = summaries
  BY DEF MergeRuns, Run
<1>2. /\ Len(messages) \in Nat /\ DOMAIN messages = 1 .. Len(messages)
      /\ \A i \in DOMAIN messages : messages[i] \in Message
      /\ Run \subseteq DOMAIN messages /\ Run \subseteq Nat /\ IsFiniteSet(Run)
  BY Rows
<1>c. Cardinality(Run) \in Nat
  BY <1>2, FS_CardinalityType
<1>3. ASSUME NEW k \in 1 .. Cardinality(Run) PROVE place(k) \in Run
  <2>1. k - 1 \in 0 .. Cardinality(Run) - 1
    BY <1>c
  <2>2. \E i \in Run : Rank(Run, i) = k - 1
    BY <1>2, <2>1, RankTaken
  <2> QED BY <2>2 DEF Rank
<1> HIDE DEF place
<1>4. ASSUME NEW k \in 1 .. Cardinality(Run)
      PROVE  /\ copies[k] \in Message /\ copies[k].session = "merged"
             /\ \E j \in Run : copies[k].content = messages[j].content /\ copies[k].summary = messages[j].summary
  <2>1. place(k) \in Run /\ messages[place(k)] \in Message
    BY <1>2, <1>3
  <2>2. /\ copies[k] \in Message /\ copies[k].session = "merged"
        /\ copies[k].content = messages[place(k)].content
        /\ copies[k].summary = messages[place(k)].summary
    BY <2>1 DEF Message
  <2> QED BY <2>1, <2>2
<1>5. copies \in [1 .. Cardinality(Run) -> Message]
  <2>1. \A k \in 1 .. Cardinality(Run) : copies[k] \in Message
    BY <1>4
  <2> QED BY <2>1
<1>6. copies \in Seq(Message) /\ Len(copies) = Cardinality(Run)
  <2>1. copies \in Seq(Message)
    BY <1>c, <1>5
  <2>2. DOMAIN copies = 1 .. Cardinality(Run)
    OBVIOUS
  <2> HIDE DEF copies
  <2> QED BY <1>c, <2>1, <2>2, LenProperties
<1> HIDE DEF copies
<1>7. messages \in Seq(Message)
  BY DEF TypeOK
<1>8. /\ messages' \in Seq(Message) /\ Len(messages') = Len(messages) + Cardinality(Run)
      /\ \A i \in 1 .. Len(messages) + Cardinality(Run) :
           messages'[i] = IF i <= Len(messages) THEN messages[i] ELSE copies[i - Len(messages)]
  BY ZenonT(40), <1>1, <1>6, <1>7, ConcatProperties
<1>9. DOMAIN messages' = 1 .. Len(messages) + Cardinality(Run)
  BY <1>8, LenProperties
<1>10. \A i \in DOMAIN messages : i \in DOMAIN messages' /\ messages'[i] = messages[i]
  BY <1>2, <1>c, <1>8, <1>9
<1>11. ASSUME NEW i \in DOMAIN messages' \ DOMAIN messages
       PROVE  /\ messages'[i].session = "merged"
              /\ \E j \in Run : messages'[i].content = messages[j].content /\ messages'[i].summary = messages[j].summary
  <2>1. i - Len(messages) \in 1 .. Cardinality(Run) /\ messages'[i] = copies[i - Len(messages)]
    BY <1>2, <1>c, <1>8, <1>9
  <2> QED BY <2>1, <1>4
<1> QED BY <1>1, <1>8, <1>10, <1>11

-----------------------------------------------------------------------------
(* What no step undoes.                                                      *)

Stored ==
    \/ UNCHANGED storeVars
    \/ \E c \in Entry \cup Key : InsertMessage(c)
    \/ \E ids : Summarize(ids)
    \/ MergeRuns

\* A message stays what it is, a mark stays, a summary keeps its links, and what the run is given
\* is younger than all there is and not summarized.
Grows ==
    /\ messages' \in Seq(Message) /\ summaries' \in Seq(SUBSET Nat)
    /\ \A i \in DOMAIN messages :
         /\ i \in DOMAIN messages'
         /\ messages'[i].content = messages[i].content /\ messages'[i].session = messages[i].session
         /\ messages[i].summary # None => messages'[i].summary # None
    /\ \A n \in DOMAIN summaries : n \in DOMAIN summaries' /\ summaries'[n] = summaries[n]
    /\ \A i \in Run' \ Run :
         i \in Nat /\ messages'[i].summary = None /\ \A j \in DOMAIN messages : j < i

\* No statement of the store undoes anything.
LEMMA StoreGrows == ASSUME TypeOK, Stored PROVE Grows
<1>r. /\ Len(messages) \in Nat /\ DOMAIN messages = 1 .. Len(messages)
      /\ Len(summaries) \in Nat /\ DOMAIN summaries = 1 .. Len(summaries)
      /\ messages \in Seq(Message) /\ summaries \in Seq(SUBSET Nat)
      /\ \A i \in DOMAIN messages : messages[i] \in Message
  BY Rows DEF TypeOK
<1>n. None \notin Nat
  BY SessionAssumption
<1>1. CASE UNCHANGED storeVars
  <2>1. messages' = messages /\ summaries' = summaries
    BY <1>1 DEF storeVars
  <2>2. Run' = Run
    BY <2>1 DEF Run, OfSession
  <2> QED BY <1>r, <2>1, <2>2 DEF Grows
<1>2. CASE \E c \in Entry \cup Key : InsertMessage(c)
  <2>1. PICK c \in Entry \cup Key : InsertMessage(c)
    BY <1>2
  <2>2. /\ messages' \in Seq(Message) /\ summaries' = summaries
        /\ DOMAIN messages' = 1 .. Len(messages) + 1
        /\ \A i \in DOMAIN messages : messages'[i] = messages[i]
        /\ messages'[Len(messages) + 1] = [content |-> c, session |-> "run", summary |-> None]
    BY <2>1, InsertAppends
  <2>3. ASSUME NEW i \in Run' \ Run PROVE i = Len(messages) + 1
    <3>1. i \in DOMAIN messages' /\ messages'[i].session = "run"
      BY DEF Run, OfSession
    <3>2. i \notin DOMAIN messages
      BY <2>2, <3>1 DEF Run, OfSession
    <3> QED BY <1>r, <2>2, <3>1, <3>2
  <2>4. \A i \in Run' \ Run :
          i \in Nat /\ messages'[i].summary = None /\ \A j \in DOMAIN messages : j < i
    BY <1>r, <2>2, <2>3
  <2> QED BY <1>r, <2>2, <2>4 DEF Grows
<1>3. CASE \E ids : Summarize(ids)
  <2>1. PICK ids : Summarize(ids)
    BY <1>3
  <2>2. /\ messages' \in Seq(Message) /\ summaries' \in Seq(SUBSET Nat)
        /\ DOMAIN messages' = DOMAIN messages
        /\ \A i \in DOMAIN messages :
             /\ messages'[i].content = messages[i].content
             /\ messages'[i].session = messages[i].session
             /\ i \in ids => messages'[i].summary = Len(summaries) + 1
             /\ i \notin ids => messages'[i].summary = messages[i].summary
        /\ DOMAIN summaries' = 1 .. Len(summaries) + 1
        /\ \A n \in DOMAIN summaries : summaries'[n] = summaries[n]
    BY <2>1, SummarizeMarks
  <2>3. Run' = Run
    BY <2>2 DEF Run, OfSession
  <2>4. \A i \in DOMAIN messages : messages[i].summary # None => messages'[i].summary # None
    BY <1>r, <1>n, <2>2
  <2>5. \A n \in DOMAIN summaries : n \in DOMAIN summaries'
    BY <1>r, <2>2
  <2> QED BY <2>2, <2>3, <2>4, <2>5 DEF Grows
<1>4. CASE MergeRuns
  <2>1. /\ messages' \in Seq(Message) /\ summaries' = summaries
        /\ DOMAIN messages \subseteq DOMAIN messages'
        /\ \A i \in DOMAIN messages : messages'[i] = messages[i]
        /\ \A i \in DOMAIN messages' \ DOMAIN messages : messages'[i].session = "merged"
    BY <1>4, MergeCopies
  <2>2. Run' = Run
    BY <2>1 DEF Run, OfSession
  <2> QED BY <1>r, <2>1, <2>2 DEF Grows
<1> QED BY <1>1, <1>2, <1>3, <1>4 DEF Stored

\* The run's messages keep their places, and a new one has all of them before it.
LEMMA RunGrows ==
    ASSUME TypeOK, Grows
    PROVE  /\ Run \subseteq Run' /\ Run' \cap DOMAIN messages = Run
           /\ Run' \subseteq Nat /\ IsFiniteSet(Run') /\ Cardinality(Run) <= Cardinality(Run')
           /\ \A i \in Run : Rank(Run', i) = Rank(Run, i)
           /\ \A i \in Run' \ Run : Cardinality(Run) <= Rank(Run', i)
<1>r. /\ Len(messages) \in Nat /\ DOMAIN messages = 1 .. Len(messages)
      /\ Run \subseteq DOMAIN messages /\ Run \subseteq Nat /\ IsFiniteSet(Run)
  BY Rows
<1>1. Run' \cap DOMAIN messages = Run
  BY DEF Grows, Run, OfSession
<1>2. DOMAIN messages' = 1 .. Len(messages') /\ Len(messages') \in Nat
  BY LenProperties DEF Grows
<1>3. Run' \in SUBSET (1 .. Len(messages'))
  BY <1>2 DEF Run, OfSession
<1>4. Run' \subseteq Nat /\ IsFiniteSet(Run')
  <2>1. IsFiniteSet(1 .. Len(messages'))
    BY <1>2, FS_Interval
  <2>2. IsFiniteSet(Run')
    BY <1>3, <2>1, FS_Subset
  <2> QED BY <1>3, <2>2
<1>5. Run \in SUBSET Run'
  BY <1>1
<1>6. Cardinality(Run) <= Cardinality(Run')
  BY <1>4, <1>5, FS_Subset
<1>7. \A i \in Run' \ Run : \A j \in Run : j < i
  BY <1>r DEF Grows
<1>8. ASSUME NEW i \in Run PROVE Rank(Run', i) = Rank(Run, i)
  <2>1. \A j \in Run' : j < i => j \in Run
    <3> SUFFICES ASSUME NEW j \in Run', j < i, j \notin Run PROVE FALSE
      OBVIOUS
    <3>1. i < j
      BY <1>7
    <3> QED BY <1>r, <1>4, <3>1
  <2>2. {j \in Run' : j < i} = {j \in Run : j < i}
    BY <1>5, <2>1
  <2> QED BY <2>2 DEF Rank
<1>9. ASSUME NEW i \in Run' \ Run PROVE Cardinality(Run) <= Rank(Run', i)
  <2>1. Run \in SUBSET {j \in Run' : j < i}
    BY <1>5, <1>7
  <2>2. IsFiniteSet({j \in Run' : j < i})
    BY <1>4, FS_Subset
  <2> QED BY <2>1, <2>2, FS_Subset DEF Rank
<1> QED BY <1>1, <1>4, <1>5, <1>6, <1>8, <1>9

\* What is linked stays so, and what is marked has its summary.
LEMMA StoreLinks ==
    ASSUME TypeOK, Linked, MarksExpand, Stored
    PROVE  Linked' /\ MarksExpand'
<1>r. /\ Len(messages) \in Nat /\ DOMAIN messages = 1 .. Len(messages)
      /\ Len(summaries) \in Nat /\ DOMAIN summaries = 1 .. Len(summaries)
      /\ Run \subseteq DOMAIN messages
      /\ \A i \in DOMAIN messages : messages[i] \in Message
  BY Rows
<1>n. None \notin Nat
  BY SessionAssumption
<1>g. Grows
  BY StoreGrows
<1>d. Run \subseteq Run' /\ Run' \cap DOMAIN messages = Run
  BY <1>g, RunGrows
\* A mark that stays as it is keeps its summary.
<1>k. ASSUME NEW i \in DOMAIN messages, messages[i].summary # None
      PROVE  /\ messages[i].summary \in DOMAIN summaries'
             /\ \E j \in summaries'[messages[i].summary] : messages'[j].content = messages'[i].content
  <2>1. PICK j \in Expand(messages[i].summary) : messages[j].content = messages[i].content
    BY <1>k DEF MarksExpand
  <2>2. messages[i].summary \in DOMAIN summaries /\ j \in summaries[messages[i].summary]
    BY <2>1 DEF Expand
  <2>3. j \in DOMAIN messages
    BY <2>2 DEF Linked
  <2>4. summaries'[messages[i].summary] = summaries[messages[i].summary] /\ messages[i].summary \in DOMAIN summaries'
    BY <1>g, <2>2 DEF Grows
  <2>5. messages'[j].content = messages'[i].content
    BY <1>g, <2>1, <2>3 DEF Grows
  <2> QED BY <2>2, <2>4, <2>5
<1>l. ASSUME NEW i \in Run, messages[i].summary # None
      PROVE  /\ messages[i].summary \in DOMAIN summaries'
             /\ i \in summaries'[messages[i].summary]
  <2>1. messages[i].summary \in DOMAIN summaries /\ i \in summaries[messages[i].summary]
    BY <1>l DEF Linked, IsMarked
  <2> QED BY <1>g, <2>1 DEF Grows
<1>o. \A n \in DOMAIN summaries : summaries'[n] \subseteq DOMAIN messages'
  BY <1>g DEF Linked, Grows
\* What is to show of the summaries, of the run's marks and of every mark.
<1> DEFINE Links == \A n \in DOMAIN summaries' : summaries'[n] \subseteq DOMAIN messages'
           Named == \A i \in Run' : messages'[i].summary # None =>
                      messages'[i].summary \in DOMAIN summaries' /\ i \in summaries'[messages'[i].summary]
           Found == \A i \in DOMAIN messages' : messages'[i].summary # None =>
                      /\ messages'[i].summary \in DOMAIN summaries'
                      /\ \E j \in summaries'[messages'[i].summary] : messages'[j].content = messages'[i].content
<1>1. ASSUME UNCHANGED storeVars PROVE Links /\ Named /\ Found
  <2>1. messages' = messages /\ summaries' = summaries
    BY <1>1 DEF storeVars
  <2>2. Run' = Run
    BY <2>1 DEF Run, OfSession
  <2> QED BY <1>k, <1>l, <1>o, <2>1, <2>2
<1>2. ASSUME \E c \in Entry \cup Key : InsertMessage(c) PROVE Links /\ Named /\ Found
  <2>1. PICK c \in Entry \cup Key : InsertMessage(c)
    BY <1>2
  <2>2. /\ summaries' = summaries /\ DOMAIN messages' = 1 .. Len(messages) + 1
        /\ \A i \in DOMAIN messages : messages'[i] = messages[i]
        /\ messages'[Len(messages) + 1] = [content |-> c, session |-> "run", summary |-> None]
    BY <2>1, InsertAppends
  <2>3. ASSUME NEW i \in DOMAIN messages', messages'[i].summary # None
        PROVE  i \in DOMAIN messages /\ messages'[i] = messages[i]
    <3>1. i # Len(messages) + 1
      BY <2>2, <2>3
    <3> QED BY <1>r, <2>2, <3>1
  <2>4. ASSUME NEW i \in Run', messages'[i].summary # None PROVE i \in Run /\ messages'[i] = messages[i]
    <3>1. i \in DOMAIN messages'
      BY DEF Run, OfSession
    <3> QED BY <1>d, <2>3, <2>4, <3>1
  <2>5. Links
    BY <1>o, <2>2
  <2>6. Named
    BY <1>l, <2>4
  <2>7. Found
    BY <1>k, <2>3
  <2> QED BY <2>5, <2>6, <2>7
<1>3. ASSUME \E ids : Summarize(ids) PROVE Links /\ Named /\ Found
  <2>1. PICK ids : Summarize(ids)
    BY <1>3
  <2>2. /\ ids \subseteq DOMAIN messages /\ DOMAIN messages' = DOMAIN messages
        /\ \A i \in DOMAIN messages :
             /\ messages'[i].content = messages[i].content
             /\ messages'[i].session = messages[i].session
             /\ i \in ids => messages'[i].summary = Len(summaries) + 1
             /\ i \notin ids => messages'[i].summary = messages[i].summary
        /\ DOMAIN summaries' = 1 .. Len(summaries) + 1
        /\ summaries'[Len(summaries) + 1] = ids
    BY <2>1, SummarizeMarks
  <2>3. Run' = Run
    BY <2>2 DEF Run, OfSession
  <2>4. Links
    <3>1. \A n \in DOMAIN summaries' : n \in DOMAIN summaries \/ n = Len(summaries) + 1
      BY <1>r, <2>2
    <3> QED BY <1>o, <2>2, <3>1
  <2>5. Len(summaries) + 1 \in DOMAIN summaries'
    BY <1>r, <2>2
  <2>6. Named
    <3> SUFFICES ASSUME NEW i \in Run, messages'[i].summary # None
                 PROVE  messages'[i].summary \in DOMAIN summaries' /\ i \in summaries'[messages'[i].summary]
      BY <2>3
    <3>1. CASE i \in ids
      BY <1>r, <2>2, <2>5, <3>1
    <3>2. CASE i \notin ids
      <4>1. messages'[i].summary = messages[i].summary
        BY <1>r, <2>2, <3>2
      <4> QED BY <1>l, <4>1
    <3> QED BY <3>1, <3>2
  <2>7. Found
    <3> SUFFICES ASSUME NEW i \in DOMAIN messages, messages'[i].summary # None
                 PROVE  /\ messages'[i].summary \in DOMAIN summaries'
                        /\ \E j \in summaries'[messages'[i].summary] : messages'[j].content = messages'[i].content
      BY <2>2
    <3>1. CASE i \in ids
      BY <1>r, <2>2, <2>5, <3>1
    <3>2. CASE i \notin ids
      <4>1. messages'[i].summary = messages[i].summary
        BY <1>r, <2>2, <3>2
      <4> QED BY <1>k, <4>1
    <3> QED BY <3>1, <3>2
  <2> QED BY <2>4, <2>6, <2>7
<1>4. ASSUME MergeRuns PROVE Links /\ Named /\ Found
  <2>1. /\ summaries' = summaries
        /\ \A i \in DOMAIN messages : messages'[i] = messages[i]
        /\ \A i \in DOMAIN messages' \ DOMAIN messages :
             /\ messages'[i].session = "merged"
             /\ \E j \in Run : messages'[i].content = messages[j].content /\ messages'[i].summary = messages[j].summary
    BY <1>4, MergeCopies
  <2>2. Run' = Run
    BY <1>d, <2>1 DEF Run, OfSession
  <2>3. Links
    BY <1>o, <2>1
  <2>4. Named
    BY <1>l, <1>r, <2>1, <2>2
  <2>5. Found
    <3> SUFFICES ASSUME NEW i \in DOMAIN messages', messages'[i].summary # None
                 PROVE  /\ messages'[i].summary \in DOMAIN summaries'
                        /\ \E j \in summaries'[messages'[i].summary] : messages'[j].content = messages'[i].content
      OBVIOUS
    <3>1. CASE i \in DOMAIN messages
      BY <1>k, <2>1, <3>1
    <3>2. CASE i \notin DOMAIN messages
      <4>1. PICK j \in Run : messages'[i].content = messages[j].content /\ messages'[i].summary = messages[j].summary
        BY <2>1, <3>2
      <4>2. messages[j].summary \in DOMAIN summaries' /\ j \in summaries'[messages[j].summary]
        BY <1>l, <4>1
      <4>3. messages'[j].content = messages'[i].content
        BY <1>r, <2>1, <4>1
      <4> QED BY <4>1, <4>2, <4>3
    <3> QED BY <3>1, <3>2
  <2> QED BY <2>3, <2>4, <2>5
<1>5. Links /\ Named /\ Found
  BY <1>1, <1>2, <1>3, <1>4 DEF Stored
<1>6. Linked'
  BY <1>5 DEF Linked, IsMarked
<1>7. MarksExpand'
  BY <1>5 DEF MarksExpand, Expand
<1> QED BY <1>6, <1>7

-----------------------------------------------------------------------------
(* The transcript and the board.                                             *)

\* What is in a sequence is of its kind.
LEMMA ElementsIn == ASSUME NEW S, NEW s \in Seq(S) PROVE Elements(s) \subseteq S
BY ElementOfSeq, LenProperties DEF Elements

\* Appending adds one element, and repeats none if it was not there.
LEMMA ElementsAppend ==
    ASSUME NEW S, NEW s \in Seq(S), NEW x \in S
    PROVE  /\ Elements(Append(s, x)) = Elements(s) \cup {x}
           /\ x \notin Elements(s) /\ IsInjective(s) => IsInjective(Append(s, x))
<1> DEFINE t == Append(s, x)
<1>1. /\ t \in Seq(S) /\ Len(t) = Len(s) + 1
      /\ \A i \in 1 .. Len(s) : t[i] = s[i]
      /\ t[Len(s) + 1] = x
  BY AppendProperties
<1>2. DOMAIN t = 1 .. Len(t) /\ DOMAIN s = 1 .. Len(s) /\ Len(s) \in Nat
  BY <1>1, LenProperties
<1> HIDE DEF t
<1>3. Elements(t) = Elements(s) \cup {x}
  <2>1. \A i \in DOMAIN t : t[i] \in Elements(s) \cup {x}
    BY <1>1, <1>2 DEF Elements
  <2>2. \A y \in Elements(s) \cup {x} : \E i \in DOMAIN t : t[i] = y
    BY <1>1, <1>2 DEF Elements
  <2> QED BY <2>1, <2>2 DEF Elements
<1>4. ASSUME x \notin Elements(s), IsInjective(s) PROVE IsInjective(t)
  <2> SUFFICES ASSUME NEW a \in DOMAIN t, NEW b \in DOMAIN t, t[a] = t[b] PROVE a = b
    BY DEF IsInjective
  <2>1. \A i \in DOMAIN s : s[i] # x
    BY <1>4 DEF Elements
  <2>2. \A i, j \in DOMAIN s : s[i] = s[j] => i = j
    BY <1>4 DEF IsInjective
  <2> QED BY <1>1, <1>2, <2>1, <2>2
<1> QED BY <1>3, <1>4 DEF t

\* Taking the first element away takes nothing else.
LEMMA ElementsTail ==
    ASSUME NEW S, NEW s \in Seq(S), s # <<>>
    PROVE  /\ Head(s) \in Elements(s) /\ Head(s) \in S /\ Tail(s) \in Seq(S)
           /\ Elements(Tail(s)) \subseteq Elements(s)
           /\ IsInjective(s) => IsInjective(Tail(s)) /\ Head(s) \notin Elements(Tail(s))
<1>1. /\ Len(s) \in Nat \ {0} /\ DOMAIN s = 1 .. Len(s) /\ Head(s) = s[1] /\ Head(s) \in S
      /\ Tail(s) \in Seq(S) /\ Len(Tail(s)) = Len(s) - 1
      /\ \A i \in 1 .. Len(Tail(s)) : Tail(s)[i] = s[i + 1]
  BY HeadTailProperties, EmptySeq, LenProperties
<1>2. DOMAIN Tail(s) = 1 .. Len(Tail(s))
  BY <1>1, LenProperties
<1>3. Head(s) \in Elements(s)
  BY <1>1 DEF Elements
<1>4. \A i \in DOMAIN Tail(s) : i + 1 \in DOMAIN s /\ i + 1 # 1 /\ Tail(s)[i] = s[i + 1] /\ i \in Nat
  BY <1>1, <1>2
<1>5. Elements(Tail(s)) \subseteq Elements(s)
  BY <1>4 DEF Elements
<1>6. ASSUME IsInjective(s) PROVE IsInjective(Tail(s)) /\ Head(s) \notin Elements(Tail(s))
  <2>1. \A a, b \in DOMAIN s : s[a] = s[b] => a = b
    BY <1>6 DEF IsInjective
  <2>2. \A a, b \in DOMAIN Tail(s) : Tail(s)[a] = Tail(s)[b] => a = b
    BY <1>4, <2>1
  <2>3. \A a \in DOMAIN Tail(s) : Tail(s)[a] # s[1]
    BY <1>1, <1>4, <2>1
  <2> QED BY <1>1, <2>2, <2>3 DEF IsInjective, Elements
<1> QED BY <1>1, <1>3, <1>5, <1>6

\* The beginning of a sequence, and what is behind it.
LEMMA FirstAndRest ==
    ASSUME NEW S, NEW s \in Seq(S), NEW n \in Nat
    PROVE  /\ First(s, n) \in Seq(S) /\ Rest(s, n) \in Seq(S)
           /\ Len(First(s, n)) = IF n < Len(s) THEN n ELSE Len(s)
           /\ \A i \in DOMAIN First(s, n) : i \in DOMAIN s /\ First(s, n)[i] = s[i]
           /\ Len(Rest(s, n)) = IF n < Len(s) THEN Len(s) - n ELSE 0
           /\ \A i \in DOMAIN Rest(s, n) : i + n \in DOMAIN s /\ Rest(s, n)[i] = s[i + n]
<1>1. Len(s) \in Nat /\ DOMAIN s = 1 .. Len(s) /\ \A i \in 1 .. Len(s) : s[i] \in S
  BY LenProperties, ElementOfSeq
<1> DEFINE m == IF n < Len(s) THEN n ELSE Len(s)
<1>2. m \in Nat /\ m <= Len(s) /\ \A i \in 1 .. m : s[i] \in S
  BY <1>1
<1>3. First(s, n) = SubSeq(s, 1, m)
  BY DEF First
<1> HIDE DEF m
<1>4. /\ First(s, n) \in Seq(S) /\ Len(First(s, n)) = IF 1 <= m THEN m - 1 + 1 ELSE 0
      /\ \A i \in 1 .. m - 1 + 1 : First(s, n)[i] = s[1 + i - 1]
  BY <1>2, <1>3, SubSeqProperties
<1>5. Len(First(s, n)) = m /\ DOMAIN First(s, n) = 1 .. m
  BY <1>2, <1>4, LenProperties
<1>6. \A i \in DOMAIN First(s, n) : i \in DOMAIN s /\ First(s, n)[i] = s[i]
  BY <1>1, <1>2, <1>4, <1>5
<1>7. \A i \in n + 1 .. Len(s) : s[i] \in S
  BY <1>1
<1>8. n + 1 \in Int /\ Len(s) \in Int
  BY <1>1
<1>9. /\ Rest(s, n) \in Seq(S)
      /\ Len(Rest(s, n)) = IF n + 1 <= Len(s) THEN Len(s) - (n + 1) + 1 ELSE 0
      /\ \A i \in 1 .. Len(s) - (n + 1) + 1 : Rest(s, n)[i] = s[n + 1 + i - 1]
  BY <1>7, <1>8, SubSeqProperties DEF Rest
<1>10. Len(Rest(s, n)) = IF n < Len(s) THEN Len(s) - n ELSE 0
  <2>1. Len(s) \in Nat /\ Len(Rest(s, n)) = IF n + 1 <= Len(s) THEN Len(s) - (n + 1) + 1 ELSE 0
    BY <1>1, <1>9
  <2>2. CASE n < Len(s)
    BY <2>1, <2>2
  <2>3. CASE ~(n < Len(s))
    BY <2>1, <2>3
  <2> QED BY <2>2, <2>3
<1>11. DOMAIN Rest(s, n) = 1 .. Len(Rest(s, n))
  BY <1>9, LenProperties
<1>12. ASSUME NEW i \in DOMAIN Rest(s, n)
       PROVE  i + n \in DOMAIN s /\ Rest(s, n)[i] = s[i + n]
  <2>1. n < Len(s) /\ i \in 1 .. Len(s) - n
    <3>1. Len(s) \in Nat /\ i \in 1 .. Len(Rest(s, n))
      BY <1>1, <1>11
    <3>2. CASE n < Len(s)
      BY <1>10, <3>1, <3>2
    <3>3. CASE ~(n < Len(s))
      BY <1>10, <3>1, <3>3
    <3> QED BY <3>2, <3>3
  <2>2. n + 1 + i - 1 = i + n /\ i \in 1 .. Len(s) - (n + 1) + 1 /\ i + n \in DOMAIN s
    BY <1>1, <2>1
  <2>3. Rest(s, n)[i] = s[n + 1 + i - 1]
    BY <1>9, <2>2
  <2> QED BY <2>2, <2>3
<1> QED BY <1>4, <1>5, <1>6, <1>9, <1>10, <1>12 DEF m

\* Entries, keys and numbers are apart.
LEMMA Kinds == /\ \A e \in Entry : e \notin Nat /\ e \notin Key
               /\ \A k \in Key : k \notin Nat /\ k \notin Entry
               /\ None \notin Nat
BY SessionAssumption

\* Compaction is refused: what the logger hands over are entries, and no entry is a message's id.
LEMMA CompactsNothing ==
    ASSUME TypeOK, Transcript, CompactOldest
    PROVE  UNCHANGED <<storeVars, entries>> /\ compacting' = None
<1>1. compacting # {} /\ compacting \subseteq Entry
  BY DEF Transcript, CompactOldest
<1>2. PICK e \in compacting : e \in Entry
  BY <1>1
<1>3. DOMAIN messages \subseteq Nat
  BY Rows
<1>4. ~ Linkable(compacting)
  BY <1>2, <1>3, Kinds DEF Linkable
<1> QED BY <1>4 DEF CompactOldest, storeVars

\* A step of neither the logger nor the board.
Elsewhere ==
    /\ UNCHANGED <<loggerVars, boardVars, gone>>
    /\ UNCHANGED storeVars \/ (\E ids : Summarize(ids)) \/ MergeRuns

\* Whatever step is taken is of the logger, of the board, or of neither.
LEMMA StepCases ==
    ASSUME TypeOK, [Next]_vars
    PROVE  \/ Elsewhere
           \/ \E e \in Entry : AppendEntry(e) \/ AppendEnds(e) \/ AppendFails(e)
           \/ CompactOldest
           \/ \E k \in Key : EntryCreated(k)
           \/ \E f \in Flusher : Flush(f) \/ FlushWrites(f) \/ FlushFails(f)
<1>1. CASE UNCHANGED vars
  BY <1>1 DEF vars, Elsewhere, storeVars
<1>2. CASE Next
  <2>1. ASSUME NEW c \in Caller, AssembleContext(c) \/ Summarized(c) \/ SummarizeFails(c) PROVE Elsewhere
    BY <2>1 DEF AssembleContext, Summarized, SummarizeFails, Elsewhere, storeVars
  <2>2. ASSUME NEW c \in Caller, NEW whole \in BOOLEAN, MapOver(c, whole) PROVE Elsewhere
    BY <2>2 DEF MapOver, Elsewhere, storeVars
  <2>3. ASSUME MergeRuns PROVE Elsewhere
    BY <2>3 DEF MergeRuns, Elsewhere
  <2>4. ASSUME Ingest \/ CompactNow PROVE Elsewhere
    BY <2>4 DEF Ingest, CompactNow, Elsewhere, storeVars
  <2>5. ASSUME NEW p \in {"auto", "now"}, Compacted(p) \/ CompactFails(p) PROVE Elsewhere
    BY <2>5 DEF Compacted, CompactFails, Elsewhere, storeVars
  <2> QED BY <1>2, <2>1, <2>2, <2>3, <2>4, <2>5 DEF Next
<1> QED BY <1>1, <1>2

\* Every step is one statement of the store, or none.
LEMMA StepStores == ASSUME TypeOK, [Next]_vars PROVE Stored
<1>1. CASE Elsewhere
  BY <1>1 DEF Elsewhere, Stored
<1>2. CASE \E e \in Entry : AppendEntry(e) \/ AppendEnds(e) \/ AppendFails(e)
  BY <1>2 DEF AppendEntry, AppendEnds, AppendFails, Stored, storeVars
<1>3. CASE CompactOldest
  BY <1>3 DEF CompactOldest, Stored, storeVars
<1>4. CASE \E k \in Key : EntryCreated(k)
  BY <1>4 DEF EntryCreated, Stored, storeVars
<1>5. CASE \E f \in Flusher : Flush(f) \/ FlushWrites(f) \/ FlushFails(f)
  <2>1. ASSUME NEW f \in Flusher, FlushWrites(f) PROVE Stored
    <3>1. batch[f] \in Seq(Key) /\ batch[f] # <<>>
      BY <2>1 DEF TypeOK, FlushWrites
    <3>2. Head(batch[f]) \in Key
      BY <3>1, HeadTailProperties
    <3> QED BY <2>1, <3>2 DEF FlushWrites, Stored
  <2>2. ASSUME NEW f \in Flusher, Flush(f) \/ FlushFails(f) PROVE Stored
    BY <2>2 DEF Flush, FlushFails, Stored, storeVars
  <2> QED BY <1>5, <2>1, <2>2
<1> QED BY <1>1, <1>2, <1>3, <1>4, <1>5, StepCases

\* A step that writes nothing leaves what is written.
LEMMA NothingWritten ==
    ASSUME TypeOK, UNCHANGED storeVars \/ (\E ids : Summarize(ids)) \/ MergeRuns
    PROVE  /\ Seen' = Seen /\ Run' = Run /\ Run \subseteq DOMAIN messages
           /\ \A i \in Run : messages'[i].content = messages[i].content
<1>r. Run \subseteq DOMAIN messages
  BY Rows
<1>1. CASE UNCHANGED storeVars
  <2>1. messages' = messages
    BY <1>1 DEF storeVars
  <2> QED BY <1>r, <2>1 DEF Seen, Run, OfSession
<1>2. CASE \E ids : Summarize(ids)
  <2>1. PICK ids : Summarize(ids)
    BY <1>2
  <2>2. /\ DOMAIN messages' = DOMAIN messages
        /\ \A i \in DOMAIN messages :
             messages'[i].content = messages[i].content /\ messages'[i].session = messages[i].session
    BY <2>1, SummarizeMarks
  <2>3. Run' = Run
    BY <2>2 DEF Run, OfSession
  <2>4. Seen' = Seen
    BY <2>2 DEF Seen
  <2> QED BY <1>r, <2>2, <2>3, <2>4
<1>3. CASE MergeRuns
  <2>1. /\ DOMAIN messages \subseteq DOMAIN messages'
        /\ \A i \in DOMAIN messages : messages'[i] = messages[i]
        /\ \A i \in DOMAIN messages' \ DOMAIN messages :
             messages'[i].session = "merged" /\ \E j \in Run : messages'[i].content = messages[j].content
    BY <1>3, MergeCopies
  <2>2. Run' = Run
    BY <1>r, <2>1 DEF Run, OfSession
  <2>3. Seen' \subseteq Seen
    <3> SUFFICES ASSUME NEW i \in DOMAIN messages' PROVE messages'[i].content \in Seen
      BY DEF Seen
    <3> QED BY <1>r, <2>1 DEF Seen
  <2>4. Seen \subseteq Seen'
    BY <2>1 DEF Seen
  <2> QED BY <1>r, <2>1, <2>2, <2>3, <2>4
<1> QED BY <1>1, <1>2, <1>3

\* A write adds one message to the run.
LEMMA OneWritten ==
    ASSUME TypeOK, NEW c \in Entry \cup Key, InsertMessage(c)
    PROVE  /\ Seen' = Seen \cup {c} /\ Run' = Run \cup {Len(messages) + 1}
           /\ Run \subseteq DOMAIN messages /\ Len(messages) + 1 \notin DOMAIN messages
           /\ messages'[Len(messages) + 1].content = c
           /\ \A i \in Run : messages'[i].content = messages[i].content
<1>r. /\ Len(messages) \in Nat /\ DOMAIN messages = 1 .. Len(messages)
      /\ Run \subseteq DOMAIN messages
  BY Rows
<1>1. /\ DOMAIN messages' = 1 .. Len(messages) + 1
      /\ \A i \in DOMAIN messages : messages'[i] = messages[i]
      /\ messages'[Len(messages) + 1] = [content |-> c, session |-> "run", summary |-> None]
  BY InsertAppends
<1>2. messages'[Len(messages) + 1].content = c /\ messages'[Len(messages) + 1].session = "run"
  BY <1>1
<1>3. DOMAIN messages' = DOMAIN messages \cup {Len(messages) + 1}
  BY <1>r, <1>1
<1>4. Run' = Run \cup {Len(messages) + 1}
  BY <1>1, <1>2, <1>3 DEF Run, OfSession
<1>5. Seen' = Seen \cup {c}
  <2>1. \A i \in DOMAIN messages' : messages'[i].content \in Seen \cup {c}
    BY <1>1, <1>2, <1>3 DEF Seen
  <2>2. \A x \in Seen \cup {c} : \E i \in DOMAIN messages' : messages'[i].content = x
    BY <1>1, <1>2, <1>3 DEF Seen
  <2> QED BY <2>1, <2>2 DEF Seen
<1>6. Len(messages) + 1 \notin DOMAIN messages
  BY <1>r
<1> QED BY <1>r, <1>1, <1>2, <1>4, <1>5, <1>6

\* The transcript.
LEMMA TranscriptKept ==
    ASSUME TypeOK, Transcript, [Next]_vars
    PROVE  Transcript'
<1>t. /\ entries \in Seq(Entry) /\ writing \subseteq Entry /\ flushQueue \in Seq(Key)
      /\ \A f \in Flusher : batch[f] \in Seq(Key)
  BY DEF TypeOK
<1>1. CASE Elsewhere
  <2>1. Seen' = Seen
    BY <1>1, NothingWritten DEF Elsewhere
  <2>2. UNCHANGED <<entries, writing, compacting, gone>>
    BY <1>1 DEF Elsewhere, loggerVars
  <2> QED BY <2>1, <2>2 DEF Transcript, Elements
<1>2. ASSUME NEW e \in Entry, AppendEntry(e) PROVE Transcript'
  <2>1. Seen' = Seen
    BY <1>2, NothingWritten DEF AppendEntry
  <2>2. /\ e \notin Elements(entries) /\ entries' = Append(entries, e) /\ writing' = writing \cup {e}
        /\ UNCHANGED <<compacting, gone>>
    BY <1>2 DEF AppendEntry
  <2>3. Elements(entries)' = Elements(entries) \cup {e}
    <3>1. Elements(Append(entries, e)) = Elements(entries) \cup {e}
      BY <1>t, ElementsAppend
    <3> QED BY <2>2, <3>1 DEF Elements
  <2> QED BY <2>1, <2>2, <2>3 DEF Transcript
<1>3. ASSUME NEW e \in Entry, AppendEnds(e) PROVE Transcript'
  <2>1. Seen' = Seen \cup {e}
    BY <1>3, OneWritten DEF AppendEnds
  <2>2. /\ e \in writing /\ writing' = writing \ {e} /\ UNCHANGED <<entries, gone>>
        /\ compacting' = IF Len(entries) > SoftThreshold /\ compacting = None
                         THEN Elements(First(entries, ChunkSize)) ELSE compacting
    BY <1>3 DEF AppendEnds
  <2>3. Elements(entries)' = Elements(entries)
    BY <2>2 DEF Elements
  <2>4. Len(entries) > SoftThreshold =>
          Elements(First(entries, ChunkSize)) # {} /\ Elements(First(entries, ChunkSize)) \subseteq Entry
    <3> SUFFICES ASSUME Len(entries) > SoftThreshold
                 PROVE  Elements(First(entries, ChunkSize)) # {} /\ Elements(First(entries, ChunkSize)) \subseteq Entry
      OBVIOUS
    <3>1. SoftThreshold \in Nat /\ ChunkSize \in Nat \ {0}
      BY SessionAssumption
    <3>2. /\ First(entries, ChunkSize) \in Seq(Entry)
          /\ Len(First(entries, ChunkSize)) = IF ChunkSize < Len(entries) THEN ChunkSize ELSE Len(entries)
      BY <1>t, <3>1, FirstAndRest
    <3>3. Len(entries) \in Nat
      BY <1>t, LenProperties
    <3>4. 1 <= Len(First(entries, ChunkSize)) /\ Len(First(entries, ChunkSize)) \in Nat
      BY <3>1, <3>2, <3>3
    <3>5. 1 \in DOMAIN First(entries, ChunkSize)
      BY <3>2, <3>4, LenProperties
    <3> QED BY <3>2, <3>5, ElementsIn DEF Elements
  <2> QED BY <2>1, <2>2, <2>3, <2>4 DEF Transcript
<1>4. ASSUME NEW e \in Entry, AppendFails(e) PROVE Transcript'
  <2>1. Seen' = Seen
    BY <1>4, NothingWritten DEF AppendFails
  <2>2. /\ e \in writing /\ writing' = writing \ {e} /\ gone' = gone \cup {e}
        /\ UNCHANGED <<entries, compacting>>
    BY <1>4 DEF AppendFails
  <2>3. Elements(entries)' = Elements(entries)
    BY <2>2 DEF Elements
  <2> QED BY <2>1, <2>2, <2>3 DEF Transcript
<1>5. ASSUME CompactOldest PROVE Transcript'
  <2>1. UNCHANGED <<storeVars, entries>> /\ compacting' = None
    BY <1>5, CompactsNothing
  <2>2. Seen' = Seen
    BY <2>1, NothingWritten
  <2>3. UNCHANGED <<writing, gone>>
    BY <1>5 DEF CompactOldest
  <2>4. Elements(entries)' = Elements(entries)
    BY <2>1 DEF Elements
  <2> QED BY <2>1, <2>2, <2>3, <2>4 DEF Transcript
<1>6. ASSUME UNCHANGED <<loggerVars, storeVars, gone>> PROVE Transcript'
  <2>1. Seen' = Seen
    BY <1>6, NothingWritten
  <2> QED BY <1>6, <2>1 DEF Transcript, Elements, loggerVars
<1>7. ASSUME NEW f \in Flusher, FlushWrites(f) PROVE Transcript'
  <2>1. Head(batch[f]) \in Key
    BY <1>7, <1>t, HeadTailProperties DEF FlushWrites
  <2>2. Seen' = Seen \cup {Head(batch[f])}
    BY <1>7, <2>1, OneWritten DEF FlushWrites
  <2>3. UNCHANGED <<entries, writing, compacting, gone>>
    BY <1>7 DEF FlushWrites, loggerVars
  <2> QED BY <2>1, <2>2, <2>3, Kinds DEF Transcript, Elements
<1>8. ASSUME NEW f \in Flusher, FlushFails(f) PROVE Transcript'
  <2>1. Elements(batch[f]) \subseteq Key
    BY <1>t, ElementsIn
  <2>2. Seen' = Seen
    BY <1>8, NothingWritten DEF FlushFails
  <2>3. UNCHANGED <<entries, writing, compacting>> /\ gone' = gone \cup Elements(batch[f])
    BY <1>8 DEF FlushFails, loggerVars
  <2>4. Elements(entries)' = Elements(entries)
    BY <2>3 DEF Elements
  <2> QED BY <2>1, <2>2, <2>3, <2>4, Kinds DEF Transcript
<1>9. ASSUME NEW k \in Key, EntryCreated(k) PROVE Transcript'
  BY <1>6, <1>9 DEF EntryCreated
<1>10. ASSUME NEW f \in Flusher, Flush(f) PROVE Transcript'
  BY <1>6, <1>10 DEF Flush
<1> QED BY <1>1, <1>2, <1>3, <1>4, <1>5, <1>7, <1>8, <1>9, <1>10, StepCases

\* The board. A key is one place further with every step.
LEMMA BoardKept ==
    ASSUME TypeOK, Transcript, Board, [Next]_vars
    PROVE  Board'
<1>t. /\ flushQueue \in Seq(Key) /\ batch \in [Flusher -> Seq(Key)] /\ writing \subseteq Entry
      /\ Elements(flushQueue) \subseteq Key
      /\ \A f \in Flusher : batch[f] \in Seq(Key) /\ Elements(batch[f]) \subseteq Key
  BY ElementsIn DEF TypeOK
<1>b. /\ IsInjective(flushQueue) /\ Elements(flushQueue) \cap (Seen \cup gone) = {}
      /\ \A f \in Flusher : /\ IsInjective(batch[f])
                            /\ Elements(batch[f]) \cap (Elements(flushQueue) \cup Seen \cup gone) = {}
      /\ \A f, g \in Flusher : f # g => Elements(batch[f]) \cap Elements(batch[g]) = {}
  BY DEF Board, Apart
\* Where the keys are is as it was, and nothing but entries is written or lost.
<1>1. ASSUME UNCHANGED boardVars, (Seen \cup gone)' \subseteq Seen \cup gone \cup Entry PROVE Board'
  <2>1. UNCHANGED <<flushQueue, batch>>
    BY <1>1 DEF boardVars
  <2>2. \A k \in Key : k \in (Seen \cup gone)' => k \in Seen \cup gone
    BY <1>1, Kinds
  <2>3. Elements(flushQueue)' = Elements(flushQueue) /\ \A f \in Flusher : Elements(batch[f])' = Elements(batch[f])
    BY <2>1 DEF Elements
  <2>4. Elements(flushQueue) \cap (Seen \cup gone)' = {}
    BY <1>b, <1>t, <2>2
  <2>5. \A f \in Flusher : Elements(batch[f]) \cap (Elements(flushQueue) \cup Seen' \cup gone') = {}
    BY <1>b, <1>t, <2>2
  <2> QED BY <1>b, <2>1, <2>3, <2>4, <2>5 DEF Board, Apart
<1>2. CASE Elsewhere
  <2>1. Seen' = Seen /\ gone' = gone
    BY <1>2, NothingWritten DEF Elsewhere
  <2> QED BY <1>1, <1>2, <2>1 DEF Elsewhere
<1>3. ASSUME NEW e \in Entry, AppendEntry(e) \/ AppendEnds(e) \/ AppendFails(e) PROVE Board'
  <2>1. CASE AppendEntry(e) \/ AppendFails(e)
    <3>1. Seen' = Seen
      BY <2>1, NothingWritten DEF AppendEntry, AppendFails
    <3>2. gone' \subseteq gone \cup {e} /\ UNCHANGED boardVars
      BY <2>1 DEF AppendEntry, AppendFails
    <3> QED BY <1>1, <3>1, <3>2
  <2>2. CASE AppendEnds(e)
    <3>1. Seen' = Seen \cup {e}
      BY <2>2, OneWritten DEF AppendEnds
    <3>2. gone' = gone /\ UNCHANGED boardVars
      BY <2>2 DEF AppendEnds
    <3> QED BY <1>1, <3>1, <3>2
  <2> QED BY <1>3, <2>1, <2>2
<1>4. CASE CompactOldest
  <2>1. Seen' = Seen
    BY <1>4, CompactsNothing, NothingWritten
  <2>2. gone' = gone /\ UNCHANGED boardVars
    BY <1>4 DEF CompactOldest
  <2> QED BY <1>1, <2>1, <2>2
<1>5. ASSUME NEW k \in Key, EntryCreated(k) PROVE Board'
  <2>1. Seen' = Seen
    BY <1>5, NothingWritten DEF EntryCreated
  <2>2. /\ k \notin Seen \cup gone /\ k \notin Elements(flushQueue)
        /\ \A f \in Flusher : k \notin Elements(batch[f])
        /\ flushQueue' = Append(flushQueue, k) /\ UNCHANGED <<batch, gone>>
    BY <1>5 DEF EntryCreated
  <2>3. Elements(Append(flushQueue, k)) = Elements(flushQueue) \cup {k} /\ IsInjective(Append(flushQueue, k))
    BY <1>b, <1>t, <2>2, ElementsAppend
  <2>4. Elements(flushQueue)' = Elements(flushQueue) \cup {k} /\ IsInjective(flushQueue')
    BY <2>2, <2>3 DEF Elements
  <2>5. \A f \in Flusher : Elements(batch[f])' = Elements(batch[f]) /\ batch'[f] = batch[f]
    BY <2>2 DEF Elements
  <2> QED BY ZenonT(40), <1>b, <2>1, <2>2, <2>4, <2>5 DEF Board, Apart
<1>6. ASSUME NEW f \in Flusher, Flush(f) PROVE Board'
  <2>1. Seen' = Seen
    BY <1>6, NothingWritten DEF Flush
  <2>2. flushQueue' = <<>> /\ batch' = [batch EXCEPT ![f] = flushQueue] /\ gone' = gone
    BY <1>6 DEF Flush
  <2>3. Elements(flushQueue)' = {} /\ IsInjective(flushQueue')
    BY <2>2 DEF Elements, IsInjective
  <2>4. batch'[f] = flushQueue /\ \A g \in Flusher : g # f => batch'[g] = batch[g]
    BY <1>t, <2>2
  <2>5. /\ Elements(batch'[f]) = Elements(flushQueue)
        /\ \A g \in Flusher : g # f => Elements(batch'[g]) = Elements(batch[g])
    BY <2>4
  <2>6. \A g \in Flusher : Elements(batch[g])' = Elements(batch'[g])
    BY DEF Elements
  <2> QED BY <1>b, <2>1, <2>2, <2>3, <2>4, <2>5, <2>6 DEF Board, Apart
<1>7. ASSUME NEW f \in Flusher, FlushWrites(f) PROVE Board'
  <2> DEFINE k == Head(batch[f])
  <2>1. batch[f] # <<>> /\ InsertMessage(k) /\ batch' = [batch EXCEPT ![f] = Tail(@)] /\ UNCHANGED <<flushQueue, gone>>
    BY <1>7 DEF FlushWrites
  <2>2. /\ k \in Elements(batch[f]) /\ k \in Key /\ Elements(Tail(batch[f])) \subseteq Elements(batch[f])
        /\ IsInjective(Tail(batch[f])) /\ k \notin Elements(Tail(batch[f]))
    BY <1>b, <1>t, <2>1, ElementsTail
  <2>3. Seen' = Seen \cup {k}
    BY <2>1, <2>2, OneWritten
  <2>4. Elements(flushQueue)' = Elements(flushQueue)
    BY <2>1 DEF Elements
  <2>5. batch'[f] = Tail(batch[f]) /\ \A g \in Flusher : g # f => batch'[g] = batch[g]
    BY <1>t, <2>1
  <2>6. \A g \in Flusher : Elements(batch[g])' = Elements(batch'[g])
    BY DEF Elements
  <2>7. \A g \in Flusher : /\ IsInjective(batch'[g]) /\ Elements(batch'[g]) \subseteq Elements(batch[g])
                           /\ k \notin Elements(batch'[g])
    BY <1>b, <2>2, <2>5
  <2> HIDE DEF k
  <2>8. k \notin Elements(flushQueue)
    BY <1>b, <2>2
  <2>9. \A g \in Flusher : Elements(batch'[g]) \cap (Elements(flushQueue) \cup Seen' \cup gone') = {}
    BY <1>b, <2>1, <2>3, <2>7
  <2>10. \A g, h \in Flusher : g # h => Elements(batch'[g]) \cap Elements(batch'[h]) = {}
    BY <1>b, <2>7
  <2>11. Elements(flushQueue)' \cap (Seen \cup gone)' = {} /\ IsInjective(flushQueue')
    BY <1>b, <2>1, <2>3, <2>4, <2>8
  <2> QED BY <2>4, <2>6, <2>7, <2>9, <2>10, <2>11 DEF Board, Apart
<1>8. ASSUME NEW f \in Flusher, FlushFails(f) PROVE Board'
  <2>1. Seen' = Seen
    BY <1>8, NothingWritten DEF FlushFails
  <2>2. gone' = gone \cup Elements(batch[f]) /\ batch' = [batch EXCEPT ![f] = <<>>] /\ flushQueue' = flushQueue
    BY <1>8 DEF FlushFails
  <2>3. Elements(flushQueue)' = Elements(flushQueue)
    BY <2>2 DEF Elements
  <2>4. batch'[f] = <<>> /\ \A g \in Flusher : g # f => batch'[g] = batch[g]
    BY <1>t, <2>2
  <2>5. \A g \in Flusher : Elements(batch[g])' = Elements(batch'[g])
    BY DEF Elements
  <2>6. Elements(<<>>) = {} /\ IsInjective(<<>>)
    BY DEF Elements, IsInjective
  <2>7. \A g \in Flusher : /\ IsInjective(batch'[g]) /\ Elements(batch'[g]) \subseteq Elements(batch[g])
                           /\ Elements(batch'[g]) \cap Elements(batch[f]) = {}
    BY <1>b, <2>4, <2>6
  <2> QED BY <1>b, <2>1, <2>2, <2>3, <2>5, <2>7 DEF Board, Apart
<1> QED BY <1>2, <1>3, <1>4, <1>5, <1>6, <1>7, <1>8, StepCases

\* Nothing is written twice: who writes takes what is neither written nor lost.
LEMMA OncePreserved ==
    ASSUME TypeOK, Transcript, Board, WrittenOnce, [Next]_vars
    PROVE  WrittenOnce'
<1>t. /\ writing \subseteq Entry
      /\ \A f \in Flusher : batch[f] \in Seq(Key) /\ Elements(batch[f]) \subseteq Key
  BY ElementsIn DEF TypeOK
<1>o. Seen \cap gone = {} /\ \A i, j \in Run : messages[i].content = messages[j].content => i = j
  BY DEF WrittenOnce, Run
<1>w. Transcript'
  BY TranscriptKept
<1>1. ASSUME UNCHANGED storeVars \/ (\E ids : Summarize(ids)) \/ MergeRuns, gone' \cap Seen = {}
      PROVE  WrittenOnce'
  <2>1. Seen' = Seen /\ Run' = Run /\ \A i \in Run : messages'[i].content = messages[i].content
    BY <1>1, NothingWritten
  <2>2. \A i, j \in Run' : messages'[i].content = messages'[j].content => i = j
    BY <1>o, <2>1
  <2> QED BY <1>1, <1>w, <2>1, <2>2 DEF WrittenOnce, Transcript, Run
<1>2. ASSUME NEW c \in Entry \cup Key, InsertMessage(c), c \notin Seen \cup gone, gone' = gone
      PROVE  WrittenOnce'
  <2>1. /\ Seen' = Seen \cup {c} /\ Run' = Run \cup {Len(messages) + 1}
        /\ Run \subseteq DOMAIN messages /\ messages'[Len(messages) + 1].content = c
        /\ \A i \in Run : messages'[i].content = messages[i].content
    BY <1>2, OneWritten
  <2>2. \A i \in Run : messages[i].content # c
    BY <1>2, <2>1 DEF Seen
  <2>3. \A i, j \in Run' : messages'[i].content = messages'[j].content => i = j
    BY <1>o, <2>1, <2>2
  <2> QED BY <1>2, <1>o, <1>w, <2>1, <2>3 DEF WrittenOnce, Transcript, Run
<1>3. CASE Elsewhere
  BY <1>1, <1>3, <1>o DEF Elsewhere
<1>4. ASSUME NEW e \in Entry, AppendEntry(e) PROVE WrittenOnce'
  BY <1>1, <1>4, <1>o DEF AppendEntry
<1>5. ASSUME NEW e \in Entry, AppendEnds(e) PROVE WrittenOnce'
  <2>1. e \notin Seen \cup gone
    BY <1>5 DEF AppendEnds, Transcript
  <2> QED BY <1>2, <1>5, <2>1 DEF AppendEnds
<1>6. ASSUME NEW e \in Entry, AppendFails(e) PROVE WrittenOnce'
  <2>1. e \notin Seen \cup gone
    BY <1>6 DEF AppendFails, Transcript
  <2> QED BY <1>1, <1>6, <1>o, <2>1 DEF AppendFails
<1>7. CASE CompactOldest
  <2>1. UNCHANGED storeVars
    BY <1>7, CompactsNothing
  <2> QED BY <1>1, <1>7, <1>o, <2>1 DEF CompactOldest
<1>8. ASSUME NEW k \in Key, EntryCreated(k) PROVE WrittenOnce'
  BY <1>1, <1>8, <1>o DEF EntryCreated
<1>9. ASSUME NEW f \in Flusher, Flush(f) PROVE WrittenOnce'
  BY <1>1, <1>9, <1>o DEF Flush
<1>10. ASSUME NEW f \in Flusher, FlushWrites(f) PROVE WrittenOnce'
  <2>1. Head(batch[f]) \in Elements(batch[f]) /\ Head(batch[f]) \in Key
    BY <1>10, <1>t, ElementsTail DEF FlushWrites
  <2>2. Head(batch[f]) \notin Seen \cup gone
    BY <2>1 DEF Board, Apart
  <2> QED BY <1>10, <1>2, <2>1, <2>2 DEF FlushWrites
<1>11. ASSUME NEW f \in Flusher, FlushFails(f) PROVE WrittenOnce'
  <2>1. Elements(batch[f]) \cap Seen = {}
    BY DEF Board, Apart
  <2> QED BY <1>1, <1>11, <1>o, <2>1 DEF FlushFails
<1> QED BY <1>3, <1>4, <1>5, <1>6, <1>7, <1>8, <1>9, <1>10, <1>11, StepCases

-----------------------------------------------------------------------------
(* Contexts and maps.                                                        *)

\* What assembling summarizes is a beginning of what is not marked, and leaves the fresh tail.
LEMMA UncompactedIsOldest ==
    ASSUME TypeOK
    PROVE  /\ Uncompacted("run") \subseteq Run
           /\ \A j \in Uncompacted("run"), i \in Run : i < j => IsMarked(i) \/ i \in Uncompacted("run")
           /\ \A i \in Run : \/ Cardinality({j \in Run : j > i}) < FreshTailCount
                             \/ IsMarked(i) \/ i \in Uncompacted("run")
<1> DEFINE open == {i \in Run : ~ IsMarked(i)}
           n == Cardinality(Run) - FreshTailCount
<1>r. Run \subseteq Nat /\ IsFiniteSet(Run)
  BY Rows
<1>f. FreshTailCount \in Nat \ {0} /\ Cardinality(Run) \in Nat
  BY <1>r, FS_CardinalityType, SessionAssumption
<1>1. Uncompacted("run") = {i \in open : Rank(open, i) < n}
  BY DEF Uncompacted, Oldest, Run, IsMarked, Rank
<1>2. open \in SUBSET Run /\ open \subseteq Nat /\ IsFiniteSet(open)
  BY <1>r, FS_Subset
<1>3. n \in Int
  BY <1>f
<1>4. \A i : Rank(open, i) \in Nat
  BY <1>2, RankIsNat
<1>5. ASSUME NEW j \in Uncompacted("run"), NEW i \in Run, i < j, ~ IsMarked(i) PROVE i \in Uncompacted("run")
  <2>1. i \in open /\ j \in open /\ Rank(open, j) < n
    BY <1>1, <1>5
  <2>2. Rank(open, i) < Rank(open, j)
    BY <1>2, <1>5, <2>1, RankGrows
  <2>3. Rank(open, i) < n
    BY <1>3, <1>4, <2>1, <2>2
  <2> QED BY <1>1, <2>1, <2>3
<1>6. ASSUME NEW i \in Run, ~ (Cardinality({j \in Run : j > i}) < FreshTailCount), ~ IsMarked(i)
      PROVE  i \in Uncompacted("run")
  <2>1. Cardinality({j \in Run : j > i}) = Cardinality(Run) - 1 - Rank(Run, i)
    BY <1>r, RankAndAfter
  <2>2. Rank(open, i) <= Rank(Run, i) /\ Rank(Run, i) \in Nat
    BY <1>r, <1>2, RankOfPart, RankIsNat
  <2>3. Rank(open, i) < n
    BY <1>f, <1>4, <1>6, <2>1, <2>2
  <2> QED BY <1>1, <1>6, <2>3
<1> QED BY <1>1, <1>5, <1>6

\* The chunks of a map are of the run, and whoever is older than one of a chunk is in a chunk
\* that is not later.
LEMMA ChunksOldestFirst ==
    ASSUME TypeOK, NEW n \in Nat \ {0}
    PROVE  /\ Chunks(Run, n) \in Seq(SUBSET Nat)
           /\ \A k \in DOMAIN Chunks(Run, n) :
                /\ Chunks(Run, n)[k] \subseteq Run
                /\ \A j \in Chunks(Run, n)[k], i \in Run :
                     i < j => \E l \in 1 .. k : i \in Chunks(Run, n)[l]
<1> DEFINE count == (Cardinality(Run) + n - 1) \div n
<1>r. Run \subseteq Nat /\ IsFiniteSet(Run)
  BY Rows
<1>c. Cardinality(Run) \in Nat
  BY <1>r, FS_CardinalityType
<1>1. count \in Nat
  <2>1. Cardinality(Run) + n - 1 \in Nat
    BY <1>c
  <2> QED BY <2>1
<1>2. Chunks(Run, n) = [k \in 1 .. count |-> Oldest(Run, k * n) \ Oldest(Run, (k - 1) * n)]
  BY DEF Chunks
<1> HIDE DEF count
<1>3. \A k \in 1 .. count : Oldest(Run, k * n) \ Oldest(Run, (k - 1) * n) \in SUBSET Nat
  BY <1>r DEF Oldest
<1>4. Chunks(Run, n) \in Seq(SUBSET Nat)
  <2>1. Chunks(Run, n) \in [1 .. count -> SUBSET Nat]
    BY <1>2, <1>3
  <2> QED BY <1>1, <2>1
<1>5. \A i : Rank(Run, i) \in Nat
  BY <1>r, RankIsNat
<1>6. \A k \in 1 .. count : Chunks(Run, n)[k] = {i \in Run : Rank(Run, i) < k * n /\ ~ (Rank(Run, i) < (k - 1) * n)}
  BY <1>2 DEF Oldest, Rank
<1>7. DOMAIN Chunks(Run, n) = 1 .. count
  BY <1>2
<1>8. ASSUME NEW k \in 1 .. count, NEW j \in Chunks(Run, n)[k], NEW i \in Run, i < j
      PROVE  \E l \in 1 .. k : i \in Chunks(Run, n)[l]
  <2>1. j \in Run /\ Rank(Run, j) < k * n
    BY <1>6
  <2>2. Rank(Run, i) < Rank(Run, j)
    BY <1>r, <1>8, <2>1, RankGrows
  <2>k. k \in Nat /\ k * n \in Nat
    BY <1>1
  <2>3. Rank(Run, i) < k * n
    BY <1>5, <2>1, <2>2, <2>k
  <2> DEFINE L == {l \in Nat : Rank(Run, i) < l * n}
  <2>4. k \in L
    BY <2>3, <2>k
  <2>5. PICK l \in L : \A m \in L : l <= m
    <3>1. L \subseteq Nat /\ L # {}
      BY <2>4
    <3> HIDE DEF L
    <3> QED BY <3>1, Smallest
  <2>6. l \in Nat /\ Rank(Run, i) < l * n /\ l <= k
    BY <2>4, <2>5
  <2>7. l # 0
    <3>1. 0 * n = 0
      OBVIOUS
    <3> QED BY <1>5, <2>6, <3>1
  <2>8. l \in 1 .. k /\ l \in 1 .. count /\ l - 1 \in Nat
    BY <1>1, <2>6, <2>7
  <2>9. ~ (Rank(Run, i) < (l - 1) * n)
    <3> SUFFICES ASSUME Rank(Run, i) < (l - 1) * n PROVE FALSE
      OBVIOUS
    <3>1. l - 1 \in L
      BY <2>8
    <3>2. l <= l - 1
      BY <2>5, <3>1
    <3> QED BY <2>6, <3>2
  <2>10. i \in Chunks(Run, n)[l]
    BY <1>6, <2>6, <2>8, <2>9
  <2> QED BY <2>8, <2>10
<1> QED BY <1>4, <1>6, <1>7, <1>8

\* A message that is summarized has its cue, unless all cues are taken.
LEMMA CuesReach ==
    TypeOK /\ Linked =>
      \A i \in Run : IsMarked(i) =>
        \/ \E n \in Ghosts("run") : i \in Expand(n)
        \/ Cardinality(Ghosts("run")) = GhostCount
<1> SUFFICES ASSUME TypeOK, Linked, NEW i \in Run, IsMarked(i)
             PROVE  \/ \E n \in Ghosts("run") : i \in Expand(n)
                    \/ Cardinality(Ghosts("run")) = GhostCount
  OBVIOUS
<1> DEFINE M == Marked("run")
           f == [n \in M |-> Oldmost("run", n)]
<1>r. Run \subseteq Nat /\ IsFiniteSet(Run)
  BY Rows
<1>1. M = {messages[j].summary : j \in Run} \ {None}
  BY DEF Marked, Run
<1>2. IsFiniteSet(M) /\ Cardinality(M) \in Nat
  <2> DEFINE D == {j \in Run : IsMarked(j)}
             g == [j \in D |-> messages[j].summary]
  <2>1. D \in SUBSET Run
    OBVIOUS
  <2>2. IsFiniteSet(D)
    BY <1>r, <2>1, FS_Subset
  <2>3. g \in [D -> M]
    BY <1>1 DEF IsMarked
  <2>4. \A n \in M : \E j \in D : g[j] = n
    BY <1>1 DEF IsMarked
  <2>5. g \in Surjection(D, M)
    BY <2>3, <2>4 DEF Surjection
  <2> HIDE DEF D, g, M
  <2>6. IsFiniteSet(M)
    BY <2>2, <2>5, FS_Surjection
  <2> QED BY <2>6, FS_CardinalityType
<1>3. ASSUME NEW n \in M PROVE Oldmost("run", n) \in Run /\ messages[Oldmost("run", n)].summary = n
  <2> DEFINE S == {j \in Run : messages[j].summary = n}
  <2>1. S \subseteq Nat /\ S # {}
    BY <1>r, <1>1
  <2>2. PICK j \in S : \A l \in S : j <= l
    <3> HIDE DEF S
    <3> QED BY <2>1, Smallest
  <2>3. j \in OfSession("run") /\ messages[j].summary = n
        /\ \A l \in OfSession("run") : messages[l].summary = n => j <= l
    BY <2>2 DEF Run
  <2> QED BY <2>3 DEF Oldmost, Run
<1>4. f \in [M -> Nat]
  BY <1>r, <1>3
<1>5. \A m, n \in M : f[m] = f[n] => m = n
  BY <1>3
<1>6. Ghosts("run") = {n \in M : Place(M, f, n) < GhostCount}
  <2>1. \A n \in M : {m \in M : Oldmost("run", m) < Oldmost("run", n)} = {m \in M : f[m] < f[n]}
    OBVIOUS
  <2> QED BY <2>1 DEF Ghosts, Place
<1>7. messages[i].summary \in M /\ i \in Expand(messages[i].summary)
  BY <1>1 DEF Linked, IsMarked, Expand
<1>g. GhostCount \in Nat
  BY SessionAssumption
<1> HIDE DEF M, f
<1>8. CASE GhostCount <= Cardinality(M)
  <2>1. GhostCount \in 0 .. Cardinality(M)
    BY <1>2, <1>8, <1>g
  <2>2. Cardinality({n \in M : Place(M, f, n) < GhostCount}) = GhostCount
    BY <1>2, <1>4, <1>5, <2>1, PlacesCut
  <2> QED BY <1>6, <2>2
<1>9. CASE ~ (GhostCount <= Cardinality(M))
  <2>1. Place(M, f, messages[i].summary) \in 0 .. Cardinality(M) - 1
    BY <1>2, <1>4, <1>7, PlaceIsNat
  <2>2. Place(M, f, messages[i].summary) < GhostCount
    BY <1>2, <1>9, <1>g, <2>1
  <2> QED BY <1>6, <1>7, <2>2
<1> QED BY <1>8, <1>9

\* A job waits: what it has to summarize stays the oldest there is.
LEMMA JobWaits ==
    ASSUME TypeOK, Grows, NEW c \in Caller, JobInOrder(c), job'[c] = job[c]
    PROVE  JobInOrder(c)'
<1>d. Run \subseteq Run' /\ Run' \cap DOMAIN messages = Run /\ Run' \subseteq Nat
  BY RunGrows
<1>m. \A i \in Run : i \in DOMAIN messages /\ (IsMarked(i) => messages'[i].summary # None)
  BY Rows DEF Grows, IsMarked
<1>n. DOMAIN messages \subseteq Nat
  BY Rows
<1> DEFINE chunks == job[c].chunks
<1>1. ASSUME NEW k \in DOMAIN chunks
      PROVE  /\ chunks[k] \subseteq DOMAIN messages'
             /\ \A j \in chunks[k], i \in Run' :
                  i < j => messages'[i].summary # None \/ \E l \in 1 .. k : i \in chunks[l]
  <2>1. /\ chunks[k] \subseteq DOMAIN messages
        /\ \A j \in chunks[k], i \in Run : i < j => IsMarked(i) \/ \E l \in 1 .. k : i \in chunks[l]
    BY DEF JobInOrder, InOrder
  <2>2. ASSUME NEW j \in chunks[k], NEW i \in Run', i < j PROVE i \in Run
    <3>1. CASE i \notin Run
      <4>1. j < i
        BY <2>1, <3>1 DEF Grows
      <4> QED BY <1>d, <1>n, <2>1, <2>2, <4>1
    <3> QED BY <3>1
  <2>3. chunks[k] \subseteq DOMAIN messages'
    BY <2>1 DEF Grows
  <2> QED BY <1>m, <2>1, <2>2, <2>3
<1>2. ASSUME job[c].of # {}
      PROVE  /\ Len(chunks) = 1
             /\ \A i \in job[c].of : \/ Cardinality({j \in job[c].of : j > i}) < FreshTailCount
                                     \/ i \in Run' /\ (messages'[i].summary # None \/ i \in chunks[1])
  BY <1>2, <1>d, <1>m DEF JobInOrder, Covers
<1> HIDE DEF chunks
<1>3. job'[c].chunks = chunks /\ job'[c].of = job[c].of
  BY DEF chunks
<1> QED BY <1>1, <1>2, <1>3 DEF JobInOrder, InOrder, Covers, IsMarked

\* What a call that begins has to do.
LEMMA AssemblesInOrder ==
    ASSUME TypeOK, NEW c \in Caller, AssembleContext(c)
    PROVE  JobInOrder(c)'
<1>t. job \in [Caller -> [chunks : Seq(SUBSET Nat), of : SUBSET Nat]]
  BY DEF TypeOK
<1>s. messages' = messages /\ Run' = Run
  BY DEF AssembleContext, storeVars, Run, OfSession
<1>1. CASE job' = [job EXCEPT ![c] = [chunks |-> <<Uncompacted("run")>>, of |-> Run]]
  <2>0. PICK old : old = Uncompacted("run")
    OBVIOUS
  <2>1. job'[c].chunks = <<old>> /\ job'[c].of = Run
    BY <1>t, <1>1, <2>0
  <2>2. /\ old \subseteq Run
        /\ \A j \in old, i \in Run : i < j => IsMarked(i) \/ i \in old
        /\ \A i \in Run : Cardinality({j \in Run : j > i}) < FreshTailCount \/ IsMarked(i) \/ i \in old
    BY <2>0, UncompactedIsOldest
  <2>3. Run \subseteq DOMAIN messages
    BY Rows
  <2>4. DOMAIN <<old>> = {1} /\ <<old>>[1] = old /\ Len(<<old>>) = 1 /\ 1 \in 1 .. 1
    OBVIOUS
  <2>5. ASSUME NEW k \in DOMAIN <<old>>
        PROVE  /\ <<old>>[k] \subseteq DOMAIN messages
               /\ \A j \in <<old>>[k], i \in Run : i < j => IsMarked(i) \/ \E l \in 1 .. k : i \in <<old>>[l]
    <3>1. k = 1
      BY <2>4
    <3> QED BY <2>2, <2>3, <2>4, <3>1
  <2> QED BY <1>s, <2>1, <2>2, <2>4, <2>5 DEF JobInOrder, InOrder, Covers, IsMarked
<1>2. CASE job' = job
  <2>1. job'[c].chunks = <<>> /\ job'[c].of = {}
    BY <1>2 DEF AssembleContext, Idle
  <2>2. DOMAIN <<>> = {}
    OBVIOUS
  <2> QED BY <2>1, <2>2 DEF JobInOrder, InOrder
<1> QED BY <1>1, <1>2 DEF AssembleContext, Run

\* A map that begins has its chunks in the order of history.
LEMMA MapsInOrder ==
    ASSUME TypeOK, NEW c \in Caller, NEW whole \in BOOLEAN, MapOver(c, whole)
    PROVE  JobInOrder(c)' /\ job'[c].chunks \in Seq(SUBSET Nat)
<1> DEFINE n == IF whole THEN ChunkSize ELSE 1
<1>t. job \in [Caller -> [chunks : Seq(SUBSET Nat), of : SUBSET Nat]]
  BY DEF TypeOK
<1>n. n \in Nat \ {0}
  BY SessionAssumption
<1> HIDE DEF n
<1>s. messages' = messages /\ Run' = Run /\ Run \subseteq DOMAIN messages
  BY Rows DEF MapOver, storeVars, Run, OfSession
<1>0. PICK chunks : chunks = Chunks(Run, n)
  OBVIOUS
<1>1. job'[c].chunks = chunks /\ job'[c].of = {}
  BY <1>0, <1>t DEF MapOver, Run, n
<1>2. /\ chunks \in Seq(SUBSET Nat)
      /\ \A k \in DOMAIN chunks :
           /\ chunks[k] \subseteq Run
           /\ \A j \in chunks[k], i \in Run : i < j => \E l \in 1 .. k : i \in chunks[l]
  BY <1>0, <1>n, ChunksOldestFirst
<1> QED BY <1>s, <1>1, <1>2 DEF JobInOrder, InOrder, IsMarked

\* A chunk is summarized: it was the oldest, and what the job still has is again.
LEMMA JobProceeds ==
    ASSUME TypeOK, NEW c \in Caller, JobInOrder(c), Summarized(c)
    PROVE  /\ \A j \in Head(job[c].chunks), i \in Run : i < j => IsMarked(i) \/ i \in Head(job[c].chunks)
           /\ JobInOrder(c)' /\ job'[c].chunks \in Seq(SUBSET Nat) /\ job'[c].of \subseteq Nat
<1>t. job \in [Caller -> [chunks : Seq(SUBSET Nat), of : SUBSET Nat]]
  BY DEF TypeOK
<1>0. PICK chunks : chunks = job[c].chunks
  OBVIOUS
<1>1. chunks \in Seq(SUBSET Nat) /\ chunks # <<>> /\ Summarize(Head(chunks))
  BY <1>0, <1>t DEF Summarized
<1>2. /\ Len(chunks) \in Nat \ {0} /\ DOMAIN chunks = 1 .. Len(chunks) /\ Head(chunks) = chunks[1]
      /\ Tail(chunks) \in Seq(SUBSET Nat) /\ Len(Tail(chunks)) = Len(chunks) - 1
      /\ \A k \in 1 .. Len(Tail(chunks)) : Tail(chunks)[k] = chunks[k + 1]
  BY <1>1, HeadTailProperties, EmptySeq, LenProperties
<1>3. \A k \in DOMAIN chunks :
        /\ chunks[k] \subseteq DOMAIN messages
        /\ \A j \in chunks[k], i \in Run : i < j => IsMarked(i) \/ \E l \in 1 .. k : i \in chunks[l]
  BY <1>0 DEF JobInOrder, InOrder
<1>4. \A j \in Head(chunks), i \in Run : i < j => IsMarked(i) \/ i \in Head(chunks)
  <2>1. 1 \in DOMAIN chunks /\ \A l \in 1 .. 1 : l = 1
    BY <1>2
  <2> QED BY <1>2, <1>3, <2>1
<1>5. Run' = Run /\ DOMAIN messages' = DOMAIN messages
      /\ \A i \in Run : IsMarked(i) \/ i \in Head(chunks) => messages'[i].summary # None
  <2>1. /\ DOMAIN messages' = DOMAIN messages
        /\ \A i \in DOMAIN messages :
             /\ messages'[i].session = messages[i].session
             /\ i \in Head(chunks) => messages'[i].summary = Len(summaries) + 1
             /\ i \notin Head(chunks) => messages'[i].summary = messages[i].summary
    BY <1>1, SummarizeMarks
  <2>2. Run' = Run
    BY <2>1 DEF Run, OfSession
  <2>3. Run \subseteq DOMAIN messages /\ Len(summaries) \in Nat /\ None \notin Nat
    BY Rows, Kinds
  <2> QED BY <2>1, <2>2, <2>3 DEF IsMarked
<1>6. CASE Len(chunks) > 1
  <2>1. job'[c].chunks = Tail(chunks) /\ job'[c].of = job[c].of
    <3>1. job'[c] = [job[c] EXCEPT !.chunks = Tail(chunks)]
      <4>1. job'[c] = IF Len(job[c].chunks) > 1 THEN [job[c] EXCEPT !.chunks = Tail(job[c].chunks)] ELSE Idle
        BY <1>t DEF Summarized, Remaining
      <4> QED BY <1>0, <1>6, <4>1
    <3>2. job[c] \in [chunks : Seq(SUBSET Nat), of : SUBSET Nat]
      BY <1>t
    <3> QED BY <3>1, <3>2
  <2>2. job[c].of = {}
    <3>1. Len(chunks) # 1
      BY <1>2, <1>6
    <3> QED BY <1>0, <3>1 DEF JobInOrder
  <2>3. DOMAIN Tail(chunks) = 1 .. Len(chunks) - 1
    BY <1>2, LenProperties
  <2>4. ASSUME NEW k \in DOMAIN Tail(chunks)
        PROVE  /\ Tail(chunks)[k] \subseteq DOMAIN messages
               /\ \A j \in Tail(chunks)[k], i \in Run :
                    i < j => messages'[i].summary # None \/ \E l \in 1 .. k : i \in Tail(chunks)[l]
    <3>1. k + 1 \in DOMAIN chunks /\ Tail(chunks)[k] = chunks[k + 1] /\ k \in Nat
      BY <1>2, <2>3
    <3>2. ASSUME NEW i \in Run, NEW l \in 1 .. k + 1, i \in chunks[l]
          PROVE  messages'[i].summary # None \/ \E m \in 1 .. k : i \in Tail(chunks)[m]
      <4>1. CASE l = 1
        BY <1>2, <1>5, <3>2, <4>1
      <4>2. CASE l # 1
        <5>1. l - 1 \in 1 .. k /\ l - 1 + 1 = l /\ l - 1 \in 1 .. Len(Tail(chunks))
          BY <1>2, <2>3, <3>1, <4>2
        <5>2. Tail(chunks)[l - 1] = chunks[l]
          BY <1>2, <5>1
        <5> QED BY <3>2, <5>1, <5>2
      <4> QED BY <4>1, <4>2
    <3> QED BY <1>3, <1>5, <3>1, <3>2
  <2>5. JobInOrder(c)'
    BY <1>5, <2>1, <2>2, <2>4 DEF JobInOrder, InOrder, IsMarked
  <2> QED BY <1>0, <1>2, <1>4, <2>1, <2>2, <2>5
<1>7. CASE ~ (Len(chunks) > 1)
  <2>1. job'[c].chunks = <<>> /\ job'[c].of = {}
    BY <1>0, <1>7, <1>t DEF Summarized, Remaining, Idle
  <2>2. DOMAIN <<>> = {} /\ <<>> \in Seq(SUBSET Nat)
    OBVIOUS
  <2> QED BY <1>0, <1>4, <2>1, <2>2 DEF JobInOrder, InOrder
<1> QED BY <1>6, <1>7

\* What is marked is in the summary its mark names.
LEMMA MarkedReach ==
    TypeOK /\ Linked => \A i \in Run : IsMarked(i) => \E n \in DOMAIN summaries : i \in Expand(n)
BY DEF Linked, Expand

\* How a context reaches a message it does not show and that is not newer than the tail.
Reached(ghosts, mode, i) ==
    \/ /\ mode = "Dolt"
       /\ (\E n \in ghosts : i \in Expand(n)) \/ Cardinality(ghosts) = GhostCount
    \/ mode = "Upward" /\ \E n \in DOMAIN summaries : i \in Expand(n)

\* A context that was handed over goes on reaching what it reached.
LEMMA ReachWaits ==
    ASSUME Grows, ContextReaches, context' = context
    PROVE  ContextReaches'
<1>1. \A n : \A i \in Expand(n) : n \in DOMAIN summaries' /\ i \in summaries'[n]
  BY DEF Expand, Grows
<1> QED BY <1>1 DEF ContextReaches, Expand

\* A context that is assembled reaches what it does not show.
LEMMA ContextsReach ==
    ASSUME TypeOK, Linked, Linked', TypeOK', ContextReaches, Jobs, [Next]_vars
    PROVE  ContextReaches'
<1>g. Grows
  BY StepStores, StoreGrows
<1>t. job \in [Caller -> [chunks : Seq(SUBSET Nat), of : SUBSET Nat]]
  BY DEF TypeOK
<1>m. \A c \in Caller : Mode[c] \in LcmMode
  BY SessionAssumption
<1>1. ASSUME NEW c \in Caller, AssembleContext(c) PROVE ContextReaches'
  <2>s. UNCHANGED <<messages, summaries>>
    BY <1>1 DEF AssembleContext, storeVars
  <2>1. CASE context' = [messages |-> Run, ghosts |-> {}, of |-> Run, mode |-> Mode[c]]
    <3>1. context'.of = Run /\ context'.messages = Run
      BY <2>1
    <3> QED BY <3>1 DEF ContextReaches
  <2>2. CASE context' = Assembled(c, Run) /\ Uncompacted("run") = {}
    <3>1. context'.of = Run /\ context'.ghosts = Cues(c) /\ context'.mode = Mode[c]
      BY <2>2 DEF Assembled
    <3>3. ASSUME NEW i \in Run, ~ (Cardinality({j \in Run : j > i}) < FreshTailCount)
          PROVE  Reached(Cues(c), Mode[c], i)
      <4>1. IsMarked(i)
        BY <2>2, <3>3, UncompactedIsOldest
      <4> QED BY <4>1, CuesReach, MarkedReach, <1>m DEF Cues, Reached, LcmMode
    <3>4. \A n : Expand(n)' = Expand(n) /\ DOMAIN summaries' = DOMAIN summaries
      BY <2>s DEF Expand
    <3> QED BY <3>1, <3>3, <3>4 DEF ContextReaches, Reached
  <2>3. CASE context' = context
    BY <1>g, <2>3, ReachWaits
  <2> QED BY <1>1, <2>1, <2>2, <2>3 DEF AssembleContext, Run
<1>2. ASSUME NEW c \in Caller, Summarized(c) PROVE ContextReaches'
  <2>1. CASE job[c].of = {}
    <3>1. context' = context
      BY <1>2, <2>1 DEF Summarized
    <3> QED BY <1>g, <3>1, ReachWaits
  <2>2. CASE job[c].of # {}
    <3>1. context' = [Assembled(c, job[c].of) EXCEPT !.ghosts = Cues(c)']
      BY <1>2, <2>2 DEF Summarized
    <3>2. context'.of = job[c].of /\ context'.ghosts = Cues(c)' /\ context'.mode = Mode[c]
      BY <3>1 DEF Assembled
    <3>3. Len(job[c].chunks) = 1 /\ Covers(job[c].of, job[c].chunks[1])
      BY <2>2 DEF Jobs, JobInOrder
    <3>4. Head(job[c].chunks) = job[c].chunks[1] /\ Summarize(Head(job[c].chunks))
      <4>1. job[c].chunks # <<>> /\ Summarize(Head(job[c].chunks)) /\ job[c].chunks \in Seq(SUBSET Nat)
        BY <1>2, <1>t DEF Summarized
      <4> QED BY <4>1
    <3>5. Run' = Run /\ \A i \in Run : IsMarked(i) \/ i \in job[c].chunks[1] => messages'[i].summary # None
      <4>1. /\ DOMAIN messages' = DOMAIN messages
            /\ \A i \in DOMAIN messages :
                 /\ messages'[i].session = messages[i].session
                 /\ i \in Head(job[c].chunks) => messages'[i].summary = Len(summaries) + 1
                 /\ i \notin Head(job[c].chunks) => messages'[i].summary = messages[i].summary
        BY <3>4, SummarizeMarks
      <4>2. Run' = Run
        BY <4>1 DEF Run, OfSession
      <4>3. Run \subseteq DOMAIN messages /\ Len(summaries) \in Nat /\ None \notin Nat
        BY Rows, Kinds
      <4> QED BY <3>4, <4>1, <4>2, <4>3 DEF IsMarked
    <3>6. \A i \in Run' : messages'[i].summary # None => Reached(Cues(c), Mode[c], i)'
      <4>1. TypeOK' /\ Linked' =>
              (\A i \in Run : IsMarked(i) =>
                 \/ \E n \in Ghosts("run") : i \in Expand(n)
                 \/ Cardinality(Ghosts("run")) = GhostCount)'
        BY CuesReach, PTL
      <4>2. TypeOK' /\ Linked' =>
              (\A i \in Run : IsMarked(i) => \E n \in DOMAIN summaries : i \in Expand(n))'
        BY MarkedReach, PTL
      <4> QED BY <4>1, <4>2, <1>m DEF IsMarked, Cues, Reached, LcmMode
    <3>7. \A i \in job[c].of : \/ Cardinality({j \in job[c].of : j > i}) < FreshTailCount
                               \/ Reached(Cues(c), Mode[c], i)'
      BY <3>3, <3>5, <3>6 DEF Covers
    <3> QED BY <3>2, <3>7 DEF ContextReaches, Reached
  <2> QED BY <2>1, <2>2
<1>3. ASSUME context' = context PROVE ContextReaches'
  BY <1>g, <1>3, ReachWaits
<1>4. CASE Next
  <2>1. ASSUME NEW e \in Entry, AppendEntry(e) \/ AppendEnds(e) \/ AppendFails(e) PROVE context' = context
    BY <2>1 DEF AppendEntry, AppendEnds, AppendFails, callerVars
  <2>2. ASSUME CompactOldest \/ MergeRuns \/ Ingest \/ CompactNow PROVE context' = context
    BY <2>2 DEF CompactOldest, MergeRuns, Ingest, CompactNow, callerVars
  <2>3. ASSUME NEW k \in Key, EntryCreated(k) PROVE context' = context
    BY <2>3 DEF EntryCreated, callerVars
  <2>4. ASSUME NEW f \in Flusher, Flush(f) \/ FlushWrites(f) \/ FlushFails(f) PROVE context' = context
    BY <2>4 DEF Flush, FlushWrites, FlushFails, callerVars
  <2>5. ASSUME NEW c \in Caller, NEW whole \in BOOLEAN, MapOver(c, whole) \/ SummarizeFails(c) PROVE context' = context
    BY <2>5 DEF MapOver, SummarizeFails
  <2>6. ASSUME NEW p \in {"auto", "now"}, Compacted(p) \/ CompactFails(p) PROVE context' = context
    BY <2>6 DEF Compacted, CompactFails, callerVars
  <2> QED BY <1>1, <1>2, <1>3, <1>4, <2>1, <2>2, <2>3, <2>4, <2>5, <2>6 DEF Next
<1>5. CASE UNCHANGED vars
  BY <1>3, <1>5 DEF vars, callerVars
<1> QED BY <1>4, <1>5

\* The jobs of all callers.
LEMMA JobsKept ==
    ASSUME TypeOK, Jobs, [Next]_vars
    PROVE  /\ Jobs'
           /\ job' \in [Caller -> [chunks : Seq(SUBSET Nat), of : SUBSET Nat]]
<1>g. Grows
  BY StepStores, StoreGrows
<1>t. job \in [Caller -> [chunks : Seq(SUBSET Nat), of : SUBSET Nat]]
  BY DEF TypeOK
<1>r. Run \subseteq Nat
  BY Rows
<1>i. Idle \in [chunks : Seq(SUBSET Nat), of : SUBSET Nat] /\ Idle.chunks = <<>> /\ Idle.of = {}
  BY DEF Idle
<1>1. ASSUME job' = job PROVE Jobs' /\ job' \in [Caller -> [chunks : Seq(SUBSET Nat), of : SUBSET Nat]]
  BY <1>1, <1>g, <1>t, JobWaits DEF Jobs
\* The other callers wait while one moves.
<1>2. ASSUME NEW c \in Caller, NEW new, job' = [job EXCEPT ![c] = new], JobInOrder(c)',
             new \in [chunks : Seq(SUBSET Nat), of : SUBSET Nat]
      PROVE  Jobs' /\ job' \in [Caller -> [chunks : Seq(SUBSET Nat), of : SUBSET Nat]]
  <2>1. \A d \in Caller : d # c => job'[d] = job[d]
    BY <1>t, <1>2
  <2>2. \A d \in Caller : JobInOrder(d)'
    BY <1>2, <1>g, <2>1, JobWaits DEF Jobs
  <2> QED BY <1>t, <1>2, <2>2 DEF Jobs
<1>3. ASSUME NEW c \in Caller, AssembleContext(c)
      PROVE  Jobs' /\ job' \in [Caller -> [chunks : Seq(SUBSET Nat), of : SUBSET Nat]]
  <2>1. CASE job' = job
    BY <1>1, <2>1
  <2>2. CASE job' = [job EXCEPT ![c] = [chunks |-> <<Uncompacted("run")>>, of |-> Run]]
    <3>1. Uncompacted("run") \in SUBSET Nat
      BY <1>r, UncompactedIsOldest
    <3>2. [chunks |-> <<Uncompacted("run")>>, of |-> Run] \in [chunks : Seq(SUBSET Nat), of : SUBSET Nat]
      BY <1>r, <3>1
    <3> QED BY <1>2, <1>3, <2>2, <3>2, AssemblesInOrder
  <2> QED BY <1>3, <2>1, <2>2 DEF AssembleContext, Run
<1>4. ASSUME NEW c \in Caller, NEW whole \in BOOLEAN, MapOver(c, whole)
      PROVE  Jobs' /\ job' \in [Caller -> [chunks : Seq(SUBSET Nat), of : SUBSET Nat]]
  <2>1. JobInOrder(c)' /\ job'[c].chunks \in Seq(SUBSET Nat)
    BY <1>4, MapsInOrder
  <2>2. PICK chunks : job' = [job EXCEPT ![c] = [chunks |-> chunks, of |-> {}]]
    BY <1>4 DEF MapOver
  <2>3. job'[c].chunks = chunks
    BY <1>t, <2>2
  <2>4. [chunks |-> chunks, of |-> {}] \in [chunks : Seq(SUBSET Nat), of : SUBSET Nat]
    BY <2>1, <2>3
  <2> QED BY <1>2, <2>1, <2>2, <2>4
<1>5. ASSUME NEW c \in Caller, Summarized(c)
      PROVE  Jobs' /\ job' \in [Caller -> [chunks : Seq(SUBSET Nat), of : SUBSET Nat]]
  <2>1. JobInOrder(c)' /\ job'[c].chunks \in Seq(SUBSET Nat)
    BY <1>5, JobProceeds DEF Jobs
  <2>2. PICK new : job' = [job EXCEPT ![c] = new] /\ new = Remaining(job[c])
    BY <1>t, <1>5 DEF Summarized
  <2>3. job[c].chunks \in Seq(SUBSET Nat) /\ job[c].chunks # <<>> /\ job[c] \in [chunks : Seq(SUBSET Nat), of : SUBSET Nat]
    BY <1>t, <1>5 DEF Summarized
  <2>4. Tail(job[c].chunks) \in Seq(SUBSET Nat)
    BY <2>3, HeadTailProperties
  <2>5. new \in [chunks : Seq(SUBSET Nat), of : SUBSET Nat]
    BY <1>i, <2>2, <2>3, <2>4 DEF Remaining
  <2> QED BY <1>2, <2>1, <2>2, <2>5
<1>6. ASSUME NEW c \in Caller, SummarizeFails(c)
      PROVE  Jobs' /\ job' \in [Caller -> [chunks : Seq(SUBSET Nat), of : SUBSET Nat]]
  <2>1. job' = [job EXCEPT ![c] = Idle]
    BY <1>6 DEF SummarizeFails
  <2>2. job'[c].chunks = <<>> /\ job'[c].of = {}
    BY <1>i, <1>t, <2>1
  <2>3. DOMAIN <<>> = {}
    OBVIOUS
  <2>4. JobInOrder(c)'
    BY <2>2, <2>3 DEF JobInOrder, InOrder
  <2> QED BY <1>2, <1>i, <2>1, <2>4
<1>7. CASE Next
  <2>1. ASSUME NEW e \in Entry, AppendEntry(e) \/ AppendEnds(e) \/ AppendFails(e) PROVE job' = job
    BY <2>1 DEF AppendEntry, AppendEnds, AppendFails, callerVars
  <2>2. ASSUME CompactOldest \/ MergeRuns \/ Ingest \/ CompactNow PROVE job' = job
    BY <2>2 DEF CompactOldest, MergeRuns, Ingest, CompactNow, callerVars
  <2>3. ASSUME NEW k \in Key, EntryCreated(k) PROVE job' = job
    BY <2>3 DEF EntryCreated, callerVars
  <2>4. ASSUME NEW f \in Flusher, Flush(f) \/ FlushWrites(f) \/ FlushFails(f) PROVE job' = job
    BY <2>4 DEF Flush, FlushWrites, FlushFails, callerVars
  <2>5. ASSUME NEW p \in {"auto", "now"}, Compacted(p) \/ CompactFails(p) PROVE job' = job
    BY <2>5 DEF Compacted, CompactFails, callerVars
  <2> QED BY <1>1, <1>3, <1>4, <1>5, <1>6, <1>7, <2>1, <2>2, <2>3, <2>4, <2>5 DEF Next
<1>8. CASE UNCHANGED vars
  BY <1>1, <1>8 DEF vars, callerVars
<1> QED BY <1>7, <1>8

-----------------------------------------------------------------------------
(* The compression agent, and the order of history.                          *)

\* Summarizing leaves the run's messages where they are and marks those it takes.
LEMMA SummarizeKeepsRun ==
    ASSUME TypeOK, NEW ids, Summarize(ids)
    PROVE  /\ Run' = Run /\ Run \subseteq DOMAIN messages
           /\ \A i \in Run : messages'[i].summary # None <=> IsMarked(i) \/ i \in ids
<1>1. /\ DOMAIN messages' = DOMAIN messages
      /\ \A i \in DOMAIN messages :
           /\ messages'[i].session = messages[i].session
           /\ i \in ids => messages'[i].summary = Len(summaries) + 1
           /\ i \notin ids => messages'[i].summary = messages[i].summary
  BY SummarizeMarks
<1>2. Run' = Run
  BY <1>1 DEF Run, OfSession
<1>3. Run \subseteq DOMAIN messages /\ Len(summaries) \in Nat /\ None \notin Nat
  BY Rows, Kinds
<1> QED BY <1>1, <1>2, <1>3 DEF IsMarked

\* The agent in the invariant's words.
LEMMA Forgets ==
    ForgottenWhenSummarized <=>
      (overlapped \/ \A i \in Run : Rank(Run, i) < fed /\ i \notin Elements(pending) => IsMarked(i))
BY DEF ForgottenWhenSummarized, Run, Rank, IsMarked

AgentOK == Agent /\ (overlapped \/ Passes) /\ ForgottenWhenSummarized

\* While others move, what the agent holds stays, and what it is not fed is younger.
LEMMA AgentWaits ==
    ASSUME TypeOK, Grows, AgentOK, UNCHANGED agentVars
    PROVE  AgentOK'
<1>u. pending' = pending /\ fed' = fed /\ pass' = pass /\ overlapped' = overlapped
  BY DEF agentVars
<1>d. /\ Run \subseteq Run' /\ Cardinality(Run) <= Cardinality(Run')
      /\ \A i \in Run : Rank(Run', i) = Rank(Run, i)
      /\ \A i \in Run' \ Run : Cardinality(Run) <= Rank(Run', i)
      /\ Run' \subseteq Nat /\ IsFiniteSet(Run')
  BY RunGrows
<1>n. /\ Cardinality(Run) \in Nat /\ Cardinality(Run') \in Nat /\ fed \in Nat
      /\ \A i : Rank(Run', i) \in Nat
  BY <1>d, Rows, FS_CardinalityType, RankIsNat DEF TypeOK
<1>m. \A i \in Run : IsMarked(i) => messages'[i].summary # None
  BY Rows DEF Grows, IsMarked
<1>1. Agent'
  <2>1. /\ fed <= Cardinality(Run)
        /\ \A k \in DOMAIN pending : pending[k] \in Run /\ Rank(Run, pending[k]) < fed
        /\ \A k, l \in DOMAIN pending : k < l => pending[k] < pending[l]
    BY DEF AgentOK, Agent
  <2>2. fed <= Cardinality(Run')
    BY <1>d, <1>n, <2>1
  <2>3. \A k \in DOMAIN pending : pending[k] \in Run' /\ Rank(Run', pending[k]) < fed
    BY <1>d, <2>1
  <2>4. \A i : Rank(Run, i)' = Rank(Run', i)
    BY DEF Rank
  <2> QED BY <1>u, <2>1, <2>2, <2>3, <2>4 DEF Agent
<1>2. overlapped' \/ Passes'
  BY <1>u DEF AgentOK, Passes
<1>3. overlapped' \/ \A i \in Run' : Rank(Run', i) < fed /\ i \notin Elements(pending) => messages'[i].summary # None
  <2> SUFFICES ASSUME ~ overlapped, NEW i \in Run', Rank(Run', i) < fed, i \notin Elements(pending)
               PROVE  messages'[i].summary # None
    BY <1>u
  <2>1. i \in Run
    BY <1>d, <1>n DEF AgentOK, Agent
  <2>2. IsMarked(i)
    BY <1>d, <2>1, Forgets DEF AgentOK
  <2> QED BY <1>m, <2>1, <2>2
<1>4. ForgottenWhenSummarized'
  <2>1. Elements(pending)' = Elements(pending)
    BY <1>u DEF Elements
  <2> QED BY <1>u, <1>3, <2>1 DEF ForgottenWhenSummarized, Run, Rank
<1> QED BY <1>1, <1>2, <1>4 DEF AgentOK

\* The agent is fed the next message.
LEMMA AgentIsFed ==
    ASSUME TypeOK, AgentOK, Ingest
    PROVE  AgentOK' /\ pending' \in Seq(Nat) /\ fed' \in Nat /\ pass' \in [auto : Seq(Nat), now : Seq(Nat)]
           /\ overlapped' \in BOOLEAN
<1>t. /\ pending \in Seq(Nat) /\ fed \in Nat /\ overlapped \in BOOLEAN
      /\ pass \in [auto : Seq(Nat), now : Seq(Nat)]
  BY DEF TypeOK
<1>s. messages' = messages /\ Run' = Run
  BY DEF Ingest, storeVars, Run, OfSession
<1>r. Run \subseteq Nat /\ IsFiniteSet(Run) /\ Cardinality(Run) \in Nat /\ \A i : Rank(Run, i) \in Nat
  BY Rows, FS_CardinalityType, RankIsNat
<1>1. PICK x \in Run : Rank(Run, x) = fed /\ pending' = Append(pending, x)
  BY DEF Ingest, Run, Rank
<1>f. fed' = fed + 1
  BY DEF Ingest
<1>2. /\ pending' \in Seq(Nat) /\ Len(pending') = Len(pending) + 1 /\ Len(pending) \in Nat
      /\ \A i \in 1 .. Len(pending) : pending'[i] = pending[i]
      /\ pending'[Len(pending) + 1] = x
      /\ DOMAIN pending = 1 .. Len(pending)
  BY <1>1, <1>r, <1>t, AppendProperties, LenProperties
<1>3. DOMAIN pending' = 1 .. Len(pending) + 1
  BY <1>2, LenProperties
<1>e. Elements(pending)' = Elements(pending) \cup {x}
  <2>1. Elements(Append(pending, x)) = Elements(pending) \cup {x}
    BY SMTT(60), <1>r, <1>t, ElementsAppend
  <2> QED BY <1>1, <2>1 DEF Elements
<1>a. /\ fed <= Cardinality(Run)
      /\ \A k \in DOMAIN pending : pending[k] \in Run /\ Rank(Run, pending[k]) < fed
      /\ \A k, l \in DOMAIN pending : k < l => pending[k] < pending[l]
  BY DEF AgentOK, Agent
<1>4. Agent'
  <2>1. fed + 1 <= Cardinality(Run)
    <3>1. Rank(Run, x) < Cardinality(Run)
      BY <1>r, RankBelow
    <3> QED BY <1>1, <1>r, <1>t, <3>1
  <2>2. \A k \in DOMAIN pending : pending[k] < x
    <3> SUFFICES ASSUME NEW k \in DOMAIN pending, ~ (pending[k] < x) PROVE FALSE
      OBVIOUS
    <3>1. pending[k] \in Run /\ Rank(Run, pending[k]) < fed
      BY <1>a
    <3>2. x # pending[k]
      BY <1>1, <1>t, <3>1
    <3>3. x < pending[k]
      <4>1. x \in Nat /\ pending[k] \in Nat
        BY <1>r, <3>1
      <4> QED BY <3>2, <4>1
    <3>4. Rank(Run, x) < Rank(Run, pending[k])
      BY <1>r, <3>1, <3>3, RankGrows
    <3> QED BY <1>1, <1>r, <1>t, <3>1, <3>4
  <2>3. \A k \in DOMAIN pending' : pending'[k] \in Run /\ Rank(Run, pending'[k]) < fed + 1
    BY <1>1, <1>2, <1>3, <1>a, <1>r, <1>t
  <2>4. \A k, l \in DOMAIN pending' : k < l => pending'[k] < pending'[l]
    <3> SUFFICES ASSUME NEW k \in DOMAIN pending', NEW l \in DOMAIN pending', k < l PROVE pending'[k] < pending'[l]
      OBVIOUS
    <3>1. k \in DOMAIN pending /\ pending'[k] = pending[k]
      BY <1>2, <1>3
    <3>2. CASE l = Len(pending) + 1
      BY <1>2, <2>2, <3>1, <3>2
    <3>3. CASE l # Len(pending) + 1
      <4>1. l \in DOMAIN pending /\ pending'[l] = pending[l]
        BY <1>2, <1>3, <3>3
      <4> QED BY <1>a, <3>1, <4>1
    <3> QED BY <3>2, <3>3
  <2>5. \A i : Rank(Run, i)' = Rank(Run, i)
    BY <1>s DEF Rank
  <2> QED BY <1>f, <1>s, <2>1, <2>3, <2>4, <2>5 DEF Agent
<1> DEFINE fires == Len(pending') > SoftThreshold /\ pass.auto = <<>>
<1>p. /\ pass' = IF fires THEN [pass EXCEPT !.auto = First(pending', ChunkSize)] ELSE pass
      /\ overlapped' = (overlapped \/ (fires /\ pass.now # <<>>))
  BY DEF Ingest
<1>c. /\ First(pending', ChunkSize) \in Seq(Nat)
      /\ \A i \in DOMAIN First(pending', ChunkSize) : i \in DOMAIN pending' /\ First(pending', ChunkSize)[i] = pending'[i]
  <2>1. ChunkSize \in Nat
    BY SessionAssumption
  <2> QED BY <1>2, <2>1, FirstAndRest
<1>5. pass' \in [auto : Seq(Nat), now : Seq(Nat)]
  BY <1>c, <1>p, <1>t
<1>6. overlapped' \in BOOLEAN
  BY <1>p, <1>t
<1>7. overlapped' \/ Passes'
  <2> SUFFICES ASSUME ~ overlapped' PROVE Passes'
    OBVIOUS
  <2>1. ~ overlapped /\ (fires => pass.now = <<>>)
    BY <1>p
  <2>2. /\ pass.auto = <<>> \/ pass.now = <<>>
        /\ \A p \in {"auto", "now"} : \A k \in DOMAIN pass[p] : k \in DOMAIN pending /\ pass[p][k] = pending[k]
    BY <2>1 DEF AgentOK, Passes
  <2>3. \A k \in DOMAIN pending : k \in DOMAIN pending' /\ pending'[k] = pending[k]
    BY <1>2, <1>3
  <2>4. \A p \in {"auto", "now"} : \A k \in DOMAIN pass[p] : k \in DOMAIN pending' /\ pass[p][k] = pending'[k]
    BY <2>2, <2>3
  <2>5. CASE fires
    <3>1. pass'.auto = First(pending', ChunkSize) /\ pass'.now = pass.now /\ pass.now = <<>>
      BY <1>p, <1>t, <2>1, <2>5
    <3>2. \A p \in {"auto", "now"} : \A k \in DOMAIN pass'[p] : k \in DOMAIN pending' /\ pass'[p][k] = pending'[k]
      BY <1>c, <2>4, <3>1
    <3> QED BY <3>1, <3>2 DEF Passes
  <2>6. CASE ~ fires
    <3>1. pass' = pass
      BY <1>p, <2>6
    <3> QED BY <2>2, <2>4, <3>1 DEF Passes
  <2> QED BY <2>5, <2>6
<1>8. ForgottenWhenSummarized'
  <2> SUFFICES ASSUME ~ overlapped', NEW i \in Run, Rank(Run, i) < fed + 1, i \notin Elements(pending) \cup {x}
               PROVE  IsMarked(i)
    BY <1>e, <1>f, <1>s DEF ForgottenWhenSummarized, Run, Rank, IsMarked
  <2>1. Rank(Run, i) # fed
    BY <1>1, <1>r, RankTaken
  <2>2. Rank(Run, i) < fed
    BY <1>r, <1>t, <2>1
  <2>3. ~ overlapped
    BY <1>p
  <2> QED BY <2>2, <2>3, Forgets DEF AgentOK
<1>9. fed' \in Nat
  BY <1>f, <1>t
<1> QED BY <1>2, <1>4, <1>5, <1>6, <1>7, <1>8, <1>9 DEF AgentOK

\* A compaction of its own begins, is done, or fails.
LEMMA AgentCompacts ==
    ASSUME TypeOK, AgentOK,
           CompactNow \/ \E p \in {"auto", "now"} : Compacted(p) \/ CompactFails(p)
    PROVE  AgentOK' /\ pending' \in Seq(Nat) /\ pass' \in [auto : Seq(Nat), now : Seq(Nat)] /\ overlapped' \in BOOLEAN
<1>t. /\ pending \in Seq(Nat) /\ fed \in Nat /\ overlapped \in BOOLEAN
      /\ pass \in [auto : Seq(Nat), now : Seq(Nat)]
  BY DEF TypeOK
<1>l. Len(pending) \in Nat /\ DOMAIN pending = 1 .. Len(pending)
  BY <1>t, LenProperties
<1>a. /\ fed <= Cardinality(Run)
      /\ \A k \in DOMAIN pending : pending[k] \in Run /\ Rank(Run, pending[k]) < fed
      /\ \A k, l \in DOMAIN pending : k < l => pending[k] < pending[l]
  BY DEF AgentOK, Agent
<1>p. \/ overlapped
      \/ /\ pass.auto = <<>> \/ pass.now = <<>>
         /\ \A p \in {"auto", "now"} : \A k \in DOMAIN pass[p] : k \in DOMAIN pending /\ pass[p][k] = pending[k]
  BY DEF AgentOK, Passes
<1>e. DOMAIN <<>> = {} /\ <<>> \in Seq(Nat)
  OBVIOUS
<1>1. ASSUME CompactNow
      PROVE  AgentOK' /\ pending' \in Seq(Nat) /\ pass' \in [auto : Seq(Nat), now : Seq(Nat)] /\ overlapped' \in BOOLEAN
  <2>1. /\ pass.now = <<>> /\ pass' = [pass EXCEPT !.now = First(pending, ChunkSize)]
        /\ overlapped' = (overlapped \/ pass.auto # <<>>)
        /\ messages' = messages /\ pending' = pending /\ fed' = fed
    BY <1>1 DEF CompactNow, storeVars
  <2>2. /\ First(pending, ChunkSize) \in Seq(Nat)
        /\ \A i \in DOMAIN First(pending, ChunkSize) : i \in DOMAIN pending /\ First(pending, ChunkSize)[i] = pending[i]
    <3>1. ChunkSize \in Nat
      BY SessionAssumption
    <3> QED BY <1>t, <3>1, FirstAndRest
  <2>3. Run' = Run
    BY <2>1 DEF Run, OfSession
  <2>4. Agent'
    <3>1. \A i : Rank(Run, i)' = Rank(Run, i)
      BY <2>3 DEF Rank
    <3> QED BY <1>a, <2>1, <2>3, <3>1 DEF Agent
  <2>5. overlapped' \/ Passes'
    <3> SUFFICES ASSUME ~ overlapped' PROVE Passes'
      OBVIOUS
    <3>1. ~ overlapped /\ pass.auto = <<>>
      BY <2>1
    <3>2. pass'.auto = <<>> /\ pass'.now = First(pending, ChunkSize)
      BY <1>t, <2>1, <3>1
    <3>3. \A p \in {"auto", "now"} : \A k \in DOMAIN pass'[p] : k \in DOMAIN pending /\ pass'[p][k] = pending[k]
      BY <1>e, <2>2, <3>2
    <3> QED BY <2>1, <3>2, <3>3 DEF Passes
  <2>6. ForgottenWhenSummarized'
    <3>1. Elements(pending)' = Elements(pending) /\ (overlapped' \/ ~ overlapped)
      BY <2>1 DEF Elements
    <3>2. \A i : Rank(Run, i)' = Rank(Run, i)
      BY <2>3 DEF Rank
    <3> QED BY <2>1, <2>3, <3>1, <3>2, Forgets DEF AgentOK, ForgottenWhenSummarized, Run, Rank, IsMarked
  <2>7. pass' \in [auto : Seq(Nat), now : Seq(Nat)]
    BY <1>t, <2>1, <2>2
  <2> QED BY <1>t, <2>1, <2>4, <2>5, <2>6, <2>7 DEF AgentOK
\* What holds of the passes when one of them is over.
<1>2. ASSUME NEW p \in {"auto", "now"}, pass[p] # <<>>, pass' = [pass EXCEPT ![p] = <<>>], overlapped' = overlapped
      PROVE  /\ pass' \in [auto : Seq(Nat), now : Seq(Nat)] /\ overlapped' \in BOOLEAN
             /\ overlapped \/ (pass'.auto = <<>> /\ pass'.now = <<>>)
             /\ overlapped' \/ Passes'
  <2>1. pass' \in [auto : Seq(Nat), now : Seq(Nat)]
    BY <1>t, <1>2, <1>e
  <2>2. overlapped \/ (pass'.auto = <<>> /\ pass'.now = <<>>)
    <3>1. CASE p = "auto"
      BY <1>t, <1>2, <1>p, <3>1
    <3>2. CASE p = "now"
      BY <1>t, <1>2, <1>p, <3>2
    <3> QED BY <3>1, <3>2
  <2>3. overlapped' \/ Passes'
    <3> SUFFICES ASSUME ~ overlapped PROVE Passes'
      BY <1>2
    <3>1. \A q \in {"auto", "now"} : pass'[q] = <<>>
      BY <2>2
    <3> QED BY <1>e, <3>1 DEF Passes
  <2> QED BY <1>t, <1>2, <2>1, <2>2, <2>3
<1>3. ASSUME NEW p \in {"auto", "now"}, CompactFails(p)
      PROVE  AgentOK' /\ pending' \in Seq(Nat) /\ pass' \in [auto : Seq(Nat), now : Seq(Nat)] /\ overlapped' \in BOOLEAN
  <2>1. /\ pass[p] # <<>> /\ pass' = [pass EXCEPT ![p] = <<>>] /\ overlapped' = overlapped
        /\ messages' = messages /\ pending' = pending /\ fed' = fed
    BY <1>3 DEF CompactFails, storeVars
  <2>2. Run' = Run
    BY <2>1 DEF Run, OfSession
  <2>3. \A i : Rank(Run, i)' = Rank(Run, i)
    BY <2>2 DEF Rank
  <2>4. Agent'
    BY <1>a, <2>1, <2>2, <2>3 DEF Agent
  <2>5. ForgottenWhenSummarized'
    <3>1. Elements(pending)' = Elements(pending)
      BY <2>1 DEF Elements
    <3> QED BY <2>1, <2>2, <2>3, <3>1, Forgets DEF AgentOK, ForgottenWhenSummarized, Run, Rank, IsMarked
  <2> QED BY <1>2, <1>t, <2>1, <2>4, <2>5 DEF AgentOK
<1>4. ASSUME NEW p \in {"auto", "now"}, Compacted(p)
      PROVE  AgentOK' /\ pending' \in Seq(Nat) /\ pass' \in [auto : Seq(Nat), now : Seq(Nat)] /\ overlapped' \in BOOLEAN
  <2> DEFINE n == Len(pass[p])
  <2>1. /\ pass[p] # <<>> /\ pass' = [pass EXCEPT ![p] = <<>>] /\ overlapped' = overlapped /\ fed' = fed
        /\ Summarize(Elements(pass[p])) /\ pending' = Rest(pending, n)
    BY <1>4 DEF Compacted
  <2>2. pass[p] \in Seq(Nat)
    BY <1>t
  <2>3. n \in Nat /\ DOMAIN pass[p] = 1 .. n
    BY <2>2, LenProperties
  <2>4. /\ pending' \in Seq(Nat) /\ Len(pending') = IF n < Len(pending) THEN Len(pending) - n ELSE 0
        /\ \A i \in DOMAIN pending' : i + n \in DOMAIN pending /\ pending'[i] = pending[i + n]
    BY SMTT(30), <1>t, <2>1, <2>3, FirstAndRest
  <2>5. DOMAIN pending' = 1 .. Len(pending')
    BY <2>4, LenProperties
  <2>6. Run' = Run /\ \A i \in Run : messages'[i].summary # None <=> IsMarked(i) \/ i \in Elements(pass[p])
    BY <2>1, SummarizeKeepsRun
  <2>7. \A i : Rank(Run, i)' = Rank(Run, i)
    BY <2>6 DEF Rank
  <2> HIDE DEF n
  <2>8. Agent'
    <3>1. \A k, l \in DOMAIN pending' : k < l => pending'[k] < pending'[l]
      <4> SUFFICES ASSUME NEW k \in DOMAIN pending', NEW l \in DOMAIN pending', k < l PROVE pending'[k] < pending'[l]
        OBVIOUS
      <4>0. Len(pending') \in Nat
        BY <2>4, LenProperties
      <4>1. k + n < l + n
        BY <2>3, <2>5, <4>0
      <4> QED BY <1>a, <2>4, <4>1
    <3>2. \A k \in DOMAIN pending' : pending'[k] \in Run /\ Rank(Run, pending'[k]) < fed
      BY <1>a, <2>4
    <3> QED BY <1>a, <2>1, <2>6, <2>7, <3>1, <3>2 DEF Agent
  <2>9. ForgottenWhenSummarized'
    <3> SUFFICES ASSUME ~ overlapped, NEW i \in Run, Rank(Run, i) < fed, i \notin Elements(pending')
                 PROVE  messages'[i].summary # None
      <4>1. Elements(pending)' = Elements(pending')
        BY DEF Elements
      <4> QED BY <2>1, <2>6, <2>7, <4>1 DEF ForgottenWhenSummarized, Run, Rank
    <3>1. CASE i \notin Elements(pending)
      BY <2>6, <3>1, Forgets DEF AgentOK
    <3>2. CASE i \in Elements(pending)
      <4>1. PICK k \in DOMAIN pending : i = pending[k]
        BY <3>2 DEF Elements
      <4>2. k <= n
        <5> SUFFICES ASSUME ~ (k <= n) PROVE FALSE
          OBVIOUS
        <5>1. n < Len(pending)
          BY <1>l, <2>3, <4>1
        <5>0. PICK j \in Nat : j + n = k
          <6>1. k - n \in Nat /\ k - n + n = k
            BY <1>l, <2>3, <4>1
          <6> QED BY <6>1
        <5>2. j \in DOMAIN pending'
          BY <1>l, <2>3, <2>4, <2>5, <4>1, <5>0, <5>1
        <5>3. pending'[j] = pending[k]
          BY <2>4, <5>0, <5>2
        <5>4. i \in Elements(pending')
          BY <4>1, <5>2, <5>3 DEF Elements
        <5> QED BY <5>4
      <4>3. k \in DOMAIN pass[p]
        BY <1>l, <2>3, <4>1, <4>2
      <4>4. pass[p][k] = i
        BY <1>p, <4>1, <4>3
      <4> QED BY <2>6, <4>3, <4>4 DEF Elements
    <3> QED BY <3>1, <3>2
  <2> QED BY <1>2, <2>1, <2>4, <2>8, <2>9 DEF AgentOK
<1> QED BY <1>1, <1>3, <1>4

\* Whatever step is taken, the agent holds what it was fed and did not yet have summarized.
LEMMA AgentKept ==
    ASSUME TypeOK, AgentOK, [Next]_vars
    PROVE  /\ AgentOK' /\ pending' \in Seq(Nat) /\ fed' \in Nat
           /\ pass' \in [auto : Seq(Nat), now : Seq(Nat)] /\ overlapped' \in BOOLEAN
<1>t. pending \in Seq(Nat) /\ fed \in Nat /\ pass \in [auto : Seq(Nat), now : Seq(Nat)] /\ overlapped \in BOOLEAN
  BY DEF TypeOK
<1>1. ASSUME UNCHANGED agentVars
      PROVE  /\ AgentOK' /\ pending' \in Seq(Nat) /\ fed' \in Nat
             /\ pass' \in [auto : Seq(Nat), now : Seq(Nat)] /\ overlapped' \in BOOLEAN
  BY <1>1, <1>t, AgentWaits, StepStores, StoreGrows DEF agentVars
<1>2. CASE Next
  <2>1. ASSUME NEW e \in Entry, AppendEntry(e) \/ AppendEnds(e) \/ AppendFails(e) PROVE UNCHANGED agentVars
    BY <2>1 DEF AppendEntry, AppendEnds, AppendFails
  <2>2. ASSUME CompactOldest \/ MergeRuns PROVE UNCHANGED agentVars
    BY <2>2 DEF CompactOldest, MergeRuns
  <2>3. ASSUME NEW k \in Key, EntryCreated(k) PROVE UNCHANGED agentVars
    BY <2>3 DEF EntryCreated
  <2>4. ASSUME NEW f \in Flusher, Flush(f) \/ FlushWrites(f) \/ FlushFails(f) PROVE UNCHANGED agentVars
    BY <2>4 DEF Flush, FlushWrites, FlushFails
  <2>5. ASSUME NEW c \in Caller, AssembleContext(c) \/ Summarized(c) \/ SummarizeFails(c) PROVE UNCHANGED agentVars
    BY <2>5 DEF AssembleContext, Summarized, SummarizeFails
  <2>6. ASSUME NEW c \in Caller, NEW whole \in BOOLEAN, MapOver(c, whole) PROVE UNCHANGED agentVars
    BY <2>6 DEF MapOver
  <2>7. ASSUME CompactNow \/ \E p \in {"auto", "now"} : Compacted(p) \/ CompactFails(p) PROVE fed' = fed
    BY <2>7 DEF CompactNow, Compacted, CompactFails
  <2> QED BY <1>1, <1>2, <1>t, <2>1, <2>2, <2>3, <2>4, <2>5, <2>6, <2>7, AgentIsFed, AgentCompacts DEF Next
<1>3. CASE UNCHANGED vars
  BY <1>1, <1>3 DEF vars
<1> QED BY <1>2, <1>3

\* What is summarized goes on being the beginning of the run's history.
LEMMA OldestSummarized ==
    ASSUME TypeOK, OldestFirst, overlapped => overlapped', NEW ids, Summarize(ids),
           overlapped \/ \A j \in ids, i \in Run : j \in Run /\ i < j => IsMarked(i) \/ i \in ids
    PROVE  OldestFirst'
<1>1. Run' = Run /\ \A i \in Run : messages'[i].summary # None <=> IsMarked(i) \/ i \in ids
  BY SummarizeKeepsRun
<1>2. overlapped \/ \A i, j \in Run : i < j /\ IsMarked(j) => IsMarked(i)
  BY DEF OldestFirst, Run, IsMarked
<1>3. overlapped \/ \A i, j \in Run : i < j /\ messages'[j].summary # None => messages'[i].summary # None
  BY <1>1, <1>2
<1> QED BY <1>1, <1>3 DEF OldestFirst, Run

\* A step that summarizes nothing leaves the marks, and the run's new message is the youngest.
LEMMA OldestWaits ==
    ASSUME TypeOK, OldestFirst, overlapped' = overlapped,
           UNCHANGED storeVars \/ (\E c \in Entry \cup Key : InsertMessage(c)) \/ MergeRuns
    PROVE  OldestFirst'
<1>g. Grows
  BY StoreGrows DEF Stored
<1>d. Run \subseteq Run' /\ Run \subseteq DOMAIN messages /\ DOMAIN messages \subseteq Nat /\ Run' \subseteq Nat
  BY <1>g, Rows, RunGrows
<1>1. \A i \in DOMAIN messages : messages'[i] = messages[i]
  <2>1. CASE UNCHANGED storeVars
    BY <2>1 DEF storeVars
  <2>2. CASE \E c \in Entry \cup Key : InsertMessage(c)
    BY <2>2, InsertAppends
  <2>3. CASE MergeRuns
    BY <2>3, MergeCopies
  <2> QED BY <2>1, <2>2, <2>3
<1>2. ASSUME NEW i \in Run', NEW j \in Run', i < j, messages'[j].summary # None, ~ overlapped
      PROVE  messages'[i].summary # None
  <2>1. j \in Run
    BY <1>2, <1>g DEF Grows
  <2>2. i \in Run
    <3> SUFFICES ASSUME i \notin Run PROVE FALSE
      OBVIOUS
    <3>1. j < i
      BY <1>d, <1>g, <2>1 DEF Grows
    <3>2. i \in Nat /\ j \in Nat
      BY <1>d
    <3> QED BY <1>2, <3>1, <3>2
  <2>3. messages[i].summary # None
    BY <1>1, <1>2, <1>d, <2>1, <2>2 DEF OldestFirst, Run
  <2> QED BY <1>1, <1>d, <2>2, <2>3
<1> QED BY <1>2 DEF OldestFirst, Run

\* A pass of the agent takes the oldest there are.
LEMMA PassIsOldest ==
    ASSUME TypeOK, AgentOK, ~ overlapped, NEW p \in {"auto", "now"},
           NEW j \in Elements(pass[p]), NEW i \in Run, i < j
    PROVE  IsMarked(i) \/ i \in Elements(pass[p])
<1>t. pass[p] \in Seq(Nat) /\ pending \in Seq(Nat) /\ fed \in Nat
  BY DEF TypeOK
<1>r. Run \subseteq Nat /\ IsFiniteSet(Run) /\ \A x : Rank(Run, x) \in Nat
  BY Rows, RankIsNat
<1>l. /\ Len(pass[p]) \in Nat /\ DOMAIN pass[p] = 1 .. Len(pass[p])
      /\ Len(pending) \in Nat /\ DOMAIN pending = 1 .. Len(pending)
  BY <1>t, LenProperties
<1>p. \A k \in DOMAIN pass[p] : k \in DOMAIN pending /\ pass[p][k] = pending[k]
  BY DEF AgentOK, Passes
<1>a. /\ \A k \in DOMAIN pending : pending[k] \in Run /\ Rank(Run, pending[k]) < fed
      /\ \A k, l \in DOMAIN pending : k < l => pending[k] < pending[l]
  BY DEF AgentOK, Agent
<1>1. PICK k \in DOMAIN pass[p] : j = pass[p][k]
  BY DEF Elements
<1>2. k \in DOMAIN pending /\ j = pending[k] /\ j \in Run /\ Rank(Run, j) < fed
  BY <1>1, <1>a, <1>p
<1>3. Rank(Run, i) < fed
  <2>1. Rank(Run, i) < Rank(Run, j)
    BY <1>2, <1>r, RankGrows
  <2> QED BY <1>2, <1>r, <1>t, <2>1
<1>4. CASE i \notin Elements(pending)
  BY <1>3, <1>4, Forgets DEF AgentOK
<1>5. CASE i \in Elements(pending)
  <2>1. PICK l \in DOMAIN pending : i = pending[l]
    BY <1>5 DEF Elements
  <2>2. l < k
    <3> SUFFICES ASSUME ~ (l < k) PROVE FALSE
      OBVIOUS
    <3>1. i \in Nat /\ j \in Nat /\ (l = k \/ k < l)
      BY <1>2, <1>l, <1>r, <2>1
    <3>2. CASE l = k
      BY <1>2, <2>1, <3>1, <3>2
    <3>3. CASE k < l
      <4>1. j < i
        BY <1>2, <1>a, <2>1, <3>3
      <4> QED BY <3>1, <4>1
    <3> QED BY <3>1, <3>2, <3>3
  <2>3. l \in DOMAIN pass[p]
    BY <1>1, <1>l, <2>1, <2>2
  <2>4. pass[p][l] = i
    BY <1>p, <2>1, <2>3
  <2> QED BY <2>3, <2>4 DEF Elements
<1> QED BY <1>4, <1>5

\* Whatever step is taken, what is summarized is a beginning.
LEMMA OldestKept ==
    ASSUME TypeOK, Transcript, Jobs, AgentOK, OldestFirst, [Next]_vars
    PROVE  OldestFirst'
<1>1. ASSUME NEW c \in Caller, Summarized(c) PROVE OldestFirst'
  <2>1. \A j \in Head(job[c].chunks), i \in Run : i < j => IsMarked(i) \/ i \in Head(job[c].chunks)
    BY <1>1, JobProceeds DEF Jobs
  <2>2. Summarize(Head(job[c].chunks)) /\ overlapped' = overlapped
    BY <1>1 DEF Summarized, agentVars
  <2> QED BY <2>1, <2>2, OldestSummarized
<1>2. ASSUME NEW p \in {"auto", "now"}, Compacted(p) PROVE OldestFirst'
  <2>1. overlapped \/ \A j \in Elements(pass[p]), i \in Run : i < j => IsMarked(i) \/ i \in Elements(pass[p])
    BY PassIsOldest
  <2>2. Summarize(Elements(pass[p])) /\ overlapped' = overlapped
    BY <1>2 DEF Compacted
  <2> QED BY <2>1, <2>2, OldestSummarized
\* Where two passes begin to overlap, nothing is claimed any more; nothing else is stored then.
<1>3. ASSUME Ingest \/ CompactNow PROVE OldestFirst'
  <2>1. messages' = messages /\ (overlapped => overlapped')
    BY <1>3 DEF Ingest, CompactNow, storeVars
  <2> QED BY <2>1 DEF OldestFirst, OfSession
<1>4. ASSUME overlapped' = overlapped,
             UNCHANGED storeVars \/ (\E c \in Entry \cup Key : InsertMessage(c)) \/ MergeRuns
      PROVE  OldestFirst'
  BY <1>4, OldestWaits
<1>5. CASE Next
  <2>1. ASSUME NEW e \in Entry, AppendEntry(e) \/ AppendEnds(e) \/ AppendFails(e) PROVE OldestFirst'
    BY <1>4, <2>1 DEF AppendEntry, AppendEnds, AppendFails, agentVars
  <2>2. ASSUME CompactOldest PROVE OldestFirst'
    <3>1. UNCHANGED storeVars /\ overlapped' = overlapped
      BY <2>2, CompactsNothing DEF CompactOldest, agentVars
    <3> QED BY <1>4, <3>1
  <2>3. ASSUME NEW k \in Key, EntryCreated(k) PROVE OldestFirst'
    BY <1>4, <2>3 DEF EntryCreated, agentVars
  <2>4. ASSUME NEW f \in Flusher, Flush(f) \/ FlushFails(f) PROVE OldestFirst'
    BY <1>4, <2>4 DEF Flush, FlushFails, agentVars
  <2>5. ASSUME NEW f \in Flusher, FlushWrites(f) PROVE OldestFirst'
    <3>1. batch[f] \in Seq(Key) /\ batch[f] # <<>>
      BY <2>5 DEF TypeOK, FlushWrites
    <3>2. Head(batch[f]) \in Key
      BY <3>1, HeadTailProperties
    <3> QED BY <1>4, <2>5, <3>2 DEF FlushWrites, agentVars
  <2>6. ASSUME NEW c \in Caller, AssembleContext(c) \/ SummarizeFails(c) PROVE OldestFirst'
    BY <1>4, <2>6 DEF AssembleContext, SummarizeFails, agentVars
  <2>7. ASSUME NEW c \in Caller, NEW whole \in BOOLEAN, MapOver(c, whole) PROVE OldestFirst'
    BY <1>4, <2>7 DEF MapOver, agentVars
  <2>8. ASSUME MergeRuns PROVE OldestFirst'
    <3>1. overlapped' = overlapped
      BY <2>8 DEF MergeRuns, agentVars
    <3> QED BY <1>4, <2>8, <3>1
  <2>9. ASSUME NEW p \in {"auto", "now"}, CompactFails(p) PROVE OldestFirst'
    BY <1>4, <2>9 DEF CompactFails
  <2> QED BY <1>1, <1>2, <1>3, <1>5, <2>1, <2>2, <2>3, <2>4, <2>5, <2>6, <2>7, <2>8, <2>9 DEF Next
<1>6. CASE UNCHANGED vars
  BY <1>4, <1>6 DEF vars, agentVars
<1> QED BY <1>5, <1>6

-----------------------------------------------------------------------------
(* The types.                                                                *)

\* Cues are numbers of summaries.
LEMMA CuesAreIds == messages \in Seq(Message) => Ghosts("run") \subseteq Nat
<1> SUFFICES ASSUME messages \in Seq(Message), NEW i \in OfSession("run"), messages[i].summary # None
             PROVE  messages[i].summary \in Nat
  BY DEF Ghosts, Marked
<1>1. messages[i] \in Message
  BY ElementOfSeq, LenProperties DEF OfSession
<1> QED BY <1>1 DEF Message

\* The types of the logger's and the board's variables.
LEMMA LoggerTyped ==
    ASSUME TypeOK, Transcript, [Next]_vars
    PROVE  /\ entries' \in Seq(Entry) /\ writing' \subseteq Entry
           /\ compacting' \in (SUBSET Entry) \cup {None}
           /\ flushQueue' \in Seq(Key) /\ batch' \in [Flusher -> Seq(Key)]
           /\ gone' \subseteq Entry \cup Key
<1> DEFINE Typed == /\ entries' \in Seq(Entry) /\ writing' \subseteq Entry
                    /\ compacting' \in (SUBSET Entry) \cup {None}
                    /\ flushQueue' \in Seq(Key) /\ batch' \in [Flusher -> Seq(Key)]
                    /\ gone' \subseteq Entry \cup Key
<1>t. /\ entries \in Seq(Entry) /\ writing \subseteq Entry /\ compacting \in (SUBSET Entry) \cup {None}
      /\ flushQueue \in Seq(Key) /\ batch \in [Flusher -> Seq(Key)] /\ gone \subseteq Entry \cup Key
  BY DEF TypeOK
<1>1. CASE Elsewhere
  BY <1>1, <1>t DEF Elsewhere, loggerVars, boardVars
<1>2. ASSUME NEW e \in Entry, AppendEntry(e) \/ AppendFails(e) PROVE Typed
  <2>1. Append(entries, e) \in Seq(Entry)
    BY <1>t, AppendProperties
  <2>2. UNCHANGED <<compacting, flushQueue, batch>>
    BY <1>2 DEF AppendEntry, AppendFails, boardVars
  <2>3. entries' \in Seq(Entry) /\ writing' \subseteq Entry /\ gone' \subseteq Entry \cup Key
    BY <1>2, <1>t, <2>1 DEF AppendEntry, AppendFails
  <2> QED BY <1>t, <2>2, <2>3
<1>3. ASSUME NEW e \in Entry, AppendEnds(e) PROVE Typed
  <2>1. Elements(First(entries, ChunkSize)) \subseteq Entry
    <3>1. First(entries, ChunkSize) \in Seq(Entry)
      BY <1>t, FirstAndRest, SessionAssumption
    <3> QED BY <3>1, ElementsIn
  <2> QED BY <1>3, <1>t, <2>1 DEF AppendEnds, boardVars
<1>4. CASE CompactOldest
  <2>1. entries' = entries /\ compacting' = None
    BY <1>4, CompactsNothing
  <2>2. UNCHANGED <<writing, flushQueue, batch, gone>>
    BY <1>4 DEF CompactOldest, boardVars
  <2>3. None \in (SUBSET Entry) \cup {None}
    OBVIOUS
  <2>4. compacting' \in (SUBSET Entry) \cup {None}
    BY <2>1, <2>3, Zenon
  <2> QED BY <1>t, <2>1, <2>2, <2>4
<1>5. ASSUME NEW k \in Key, EntryCreated(k) PROVE Typed
  BY <1>5, <1>t, AppendProperties DEF EntryCreated, loggerVars
<1>6. ASSUME NEW f \in Flusher, Flush(f) PROVE Typed
  BY <1>6, <1>t DEF Flush, loggerVars
<1>7. ASSUME NEW f \in Flusher, FlushWrites(f) PROVE Typed
  <2>1. Tail(batch[f]) \in Seq(Key)
    BY <1>7, <1>t, HeadTailProperties DEF FlushWrites
  <2> QED BY <1>7, <1>t, <2>1 DEF FlushWrites, loggerVars
<1>8. ASSUME NEW f \in Flusher, FlushFails(f) PROVE Typed
  <2>1. Elements(batch[f]) \subseteq Key
    BY <1>t, ElementsIn
  <2>2. <<>> \in Seq(Key)
    OBVIOUS
  <2> QED BY <1>8, <1>t, <2>1, <2>2 DEF FlushFails, loggerVars
<1> QED BY <1>1, <1>2, <1>3, <1>4, <1>5, <1>6, <1>7, <1>8, StepCases

\* The types of the contexts and of what is fixed.
LEMMA ContextTyped ==
    ASSUME TypeOK, [Next]_vars
    PROVE  /\ context' \in [messages : SUBSET Nat, ghosts : SUBSET Nat, of : SUBSET Nat, mode : LcmMode]
           /\ compactor' \in {"calls", "agent"} /\ merged' \in BOOLEAN
<1>t. /\ context \in [messages : SUBSET Nat, ghosts : SUBSET Nat, of : SUBSET Nat, mode : LcmMode]
      /\ compactor \in {"calls", "agent"} /\ merged \in BOOLEAN
      /\ job \in [Caller -> [chunks : Seq(SUBSET Nat), of : SUBSET Nat]]
  BY DEF TypeOK
<1>m. \A c \in Caller : Mode[c] \in LcmMode
  BY SessionAssumption
<1>1. Run \subseteq Nat /\ Oldest(Run, FreshTailCount) \subseteq Nat
  BY Rows DEF Oldest
<1>2. Ghosts("run") \subseteq Nat /\ Ghosts("run")' \subseteq Nat
  <2>1. messages \in Seq(Message) /\ messages' \in Seq(Message)
    BY StepStores, StoreGrows DEF TypeOK, Grows
  <2>2. (messages \in Seq(Message))' => (Ghosts("run") \subseteq Nat)'
    BY CuesAreIds, PTL
  <2> QED BY <2>1, <2>2, CuesAreIds
<1>3. ASSUME NEW c \in Caller, AssembleContext(c)
      PROVE  context' \in [messages : SUBSET Nat, ghosts : SUBSET Nat, of : SUBSET Nat, mode : LcmMode]
  <2>1. Cues(c) \subseteq Nat
    BY <1>2 DEF Cues
  <2> QED BY <1>1, <1>3, <1>m, <1>t, <2>1 DEF AssembleContext, Assembled, Run
<1>4. ASSUME NEW c \in Caller, Summarized(c)
      PROVE  context' \in [messages : SUBSET Nat, ghosts : SUBSET Nat, of : SUBSET Nat, mode : LcmMode]
  <2>1. job[c].of \subseteq Nat
    BY <1>t
  <2>2. context' = IF job[c].of = {} THEN context ELSE [Assembled(c, job[c].of) EXCEPT !.ghosts = Cues(c)']
    BY <1>4 DEF Summarized
  <2>3. Assembled(c, job[c].of) \in [messages : SUBSET Nat, ghosts : SUBSET Nat, of : SUBSET Nat, mode : LcmMode]
    BY <1>1, <1>2, <1>m, <2>1 DEF Assembled, Cues, Run
  <2>4. Cues(c)' \subseteq Nat
    BY <1>2 DEF Cues
  <2> QED BY <1>t, <2>2, <2>3, <2>4
<1>5. CASE Next
  <2>1. ASSUME NEW e \in Entry, AppendEntry(e) \/ AppendEnds(e) \/ AppendFails(e)
        PROVE  UNCHANGED <<context, compactor, merged>>
    BY <2>1 DEF AppendEntry, AppendEnds, AppendFails, callerVars, agentVars
  <2>2. ASSUME CompactOldest \/ Ingest \/ CompactNow PROVE UNCHANGED <<context, compactor, merged>>
    BY <2>2 DEF CompactOldest, Ingest, CompactNow, callerVars, agentVars
  <2>3. ASSUME NEW k \in Key, EntryCreated(k) PROVE UNCHANGED <<context, compactor, merged>>
    BY <2>3 DEF EntryCreated, callerVars, agentVars
  <2>4. ASSUME NEW f \in Flusher, Flush(f) \/ FlushWrites(f) \/ FlushFails(f)
        PROVE  UNCHANGED <<context, compactor, merged>>
    BY <2>4 DEF Flush, FlushWrites, FlushFails, callerVars, agentVars
  <2>5. ASSUME NEW c \in Caller, NEW whole \in BOOLEAN, MapOver(c, whole) \/ SummarizeFails(c)
        PROVE  UNCHANGED <<context, compactor, merged>>
    BY <2>5 DEF MapOver, SummarizeFails, agentVars
  <2>6. ASSUME NEW p \in {"auto", "now"}, Compacted(p) \/ CompactFails(p)
        PROVE  UNCHANGED <<context, compactor, merged>>
    BY <2>6 DEF Compacted, CompactFails, callerVars
  <2>7. ASSUME NEW c \in Caller, AssembleContext(c) \/ Summarized(c) PROVE UNCHANGED <<compactor, merged>>
    BY <2>7 DEF AssembleContext, Summarized, agentVars
  <2>8. ASSUME MergeRuns PROVE UNCHANGED <<context, compactor>> /\ merged' = TRUE
    BY <2>8 DEF MergeRuns, callerVars, agentVars
  <2> QED BY <1>3, <1>4, <1>5, <1>t, <2>1, <2>2, <2>3, <2>4, <2>5, <2>6, <2>7, <2>8 DEF Next
<1>6. CASE UNCHANGED vars
  BY <1>6, <1>t DEF vars, callerVars, agentVars
<1> QED BY <1>5, <1>6

-----------------------------------------------------------------------------
(* The theorems.                                                             *)

IInv ==
    /\ TypeOK /\ Linked /\ MarksExpand
    /\ Transcript /\ Board /\ WrittenOnce
    /\ Jobs /\ AgentOK
    /\ OldestFirst /\ ContextReaches

\* The invariant holds at first.
LEMMA Initially == ASSUME Init PROVE IInv
<1>i. /\ messages = <<>> /\ summaries = <<>> /\ entries = <<>> /\ writing = {} /\ compacting = None
      /\ flushQueue = <<>> /\ batch = [f \in Flusher |-> <<>>] /\ job = [c \in Caller |-> Idle]
      /\ context = NoContext /\ pending = <<>> /\ fed = 0 /\ pass = [auto |-> <<>>, now |-> <<>>]
      /\ compactor \in {"calls", "agent"} /\ merged = FALSE /\ gone = {} /\ overlapped = FALSE
  BY DEF Init
<1>e. DOMAIN <<>> = {} /\ Elements(<<>>) = {} /\ IsInjective(<<>>) /\ \A S : <<>> \in Seq(S)
  BY DEF Elements, IsInjective
<1>1. TypeOK
  <2>1. Idle \in [chunks : Seq(SUBSET Nat), of : SUBSET Nat]
    BY DEF Idle
  <2>2. context \in [messages : SUBSET Nat, ghosts : SUBSET Nat, of : SUBSET Nat, mode : LcmMode]
    BY <1>i DEF NoContext, LcmMode
  <2>3. pass \in [auto : Seq(Nat), now : Seq(Nat)]
    BY <1>i, <1>e
  <2>4. job \in [Caller -> [chunks : Seq(SUBSET Nat), of : SUBSET Nat]] /\ batch \in [Flusher -> Seq(Key)]
    BY <1>i, <1>e, <2>1
  <2>5. messages \in Seq(Message) /\ summaries \in Seq(SUBSET Nat) /\ entries \in Seq(Entry)
        /\ flushQueue \in Seq(Key) /\ pending \in Seq(Nat)
    BY <1>i, <1>e
  <2>6. /\ writing \subseteq Entry /\ gone \subseteq Entry \cup Key
        /\ fed \in Nat /\ compactor \in {"calls", "agent"} /\ merged \in BOOLEAN /\ overlapped \in BOOLEAN
    BY <1>i
  <2>7. compacting \in (SUBSET Entry) \cup {None}
    BY <1>i, Zenon
  <2> QED BY <2>2, <2>3, <2>4, <2>5, <2>6, <2>7 DEF TypeOK
<1>2. Run = {} /\ OfSession("run") = {} /\ Seen = {}
  BY <1>i, <1>e DEF Run, OfSession, Seen
<1>3. Linked /\ MarksExpand /\ OldestFirst
  BY <1>i, <1>e, <1>2 DEF Linked, MarksExpand, OldestFirst
<1>4. Transcript /\ WrittenOnce
  <2>1. Elements(entries) = {}
    BY <1>i, <1>e
  <2> QED BY <1>i, <1>2, <2>1 DEF Transcript, WrittenOnce
<1>5. Board
  <2>1. Elements(flushQueue) = {} /\ IsInjective(flushQueue)
    BY <1>i, <1>e
  <2>2. \A f \in Flusher : Elements(batch[f]) = {} /\ IsInjective(batch[f])
    BY <1>i, <1>e
  <2> QED BY <2>1, <2>2 DEF Board, Apart
<1>6. Jobs
  <2>1. \A c \in Caller : job[c].chunks = <<>> /\ job[c].of = {}
    BY <1>i DEF Idle
  <2> QED BY <1>e, <2>1 DEF Jobs, JobInOrder, InOrder
<1>7. ContextReaches
  BY <1>i DEF ContextReaches, NoContext
<1>8. AgentOK
  <2>1. Cardinality(Run) = 0
    BY <1>2, FS_EmptySet
  <2>2. Agent
    BY <1>i, <1>e, <2>1 DEF Agent
  <2>3. Passes
    BY <1>i, <1>e DEF Passes
  <2>4. ForgottenWhenSummarized
    BY <1>2 DEF ForgottenWhenSummarized
  <2> QED BY <2>2, <2>3, <2>4 DEF AgentOK
<1> QED BY <1>1, <1>3, <1>4, <1>5, <1>6, <1>7, <1>8 DEF IInv

\* Every step keeps it.
LEMMA Inductive == ASSUME IInv, [Next]_vars PROVE IInv'
<1>i. /\ TypeOK /\ Linked /\ MarksExpand /\ Transcript /\ Board /\ WrittenOnce
      /\ Jobs /\ AgentOK /\ OldestFirst /\ ContextReaches
  BY DEF IInv
<1>1. TypeOK'
  <2>1. messages' \in Seq(Message) /\ summaries' \in Seq(SUBSET Nat)
    BY <1>i, StepStores, StoreGrows DEF Grows
  <2> QED BY <1>i, <2>1, LoggerTyped, ContextTyped, JobsKept, AgentKept DEF TypeOK
<1>2. Linked' /\ MarksExpand'
  BY <1>i, StepStores, StoreLinks
<1>3. Transcript' /\ Board' /\ WrittenOnce'
  BY <1>i, TranscriptKept, BoardKept, OncePreserved
<1>4. Jobs' /\ AgentOK' /\ OldestFirst'
  BY <1>i, JobsKept, AgentKept, OldestKept
<1>5. ContextReaches'
  BY <1>i, <1>1, <1>2, ContextsReach
<1> QED BY <1>1, <1>2, <1>3, <1>4, <1>5 DEF IInv

\* So it holds in every state.
LEMMA Invariance == Spec => []IInv
<1>1. Init => IInv
  BY Initially
<1>2. IInv /\ [Next]_vars => IInv'
  BY Inductive
<1> QED BY <1>1, <1>2, PTL DEF Spec

\* In every behaviour the variables have their types (the tables, queues and fields of
\* LcmStore, TranscriptLogger, BlackboardToLcmAdapter and CompressionAgent).
THEOREM TypeCorrect == Spec => []TypeOK
<1>1. IInv => TypeOK
  BY DEF IInv
<1> QED BY <1>1, Invariance, PTL

\* However many summarizers take the same messages, fail half way or have their marks copied by
\* `maf merge`: what is marked can be had back, and what the agent forgot is marked.
THEOREM SummariesLoseNothing == Spec => []NothingLost
<1>1. IInv => NothingLost
  BY DEF IInv, AgentOK, NothingLost
<1> QED BY <1>1, Invariance, PTL

\* However contexts, maps, writes and a merge interleave, what is summarized is the beginning of
\* the run's history, as long as the agent's two ways to compact did not overlap.
THEOREM HistoryFromItsOldEnd == Spec => []OldestFirst
<1>1. IInv => OldestFirst
  BY DEF IInv
<1> QED BY <1>1, Invariance, PTL

\* Whatever flushes at once and whatever write fails: what is written is written once, and of the
\* transcript nothing is nowhere.
THEOREM NothingTwice == Spec => []WrittenOnce
<1>1. IInv => WrittenOnce
  BY DEF IInv
<1> QED BY <1>1, Invariance, PTL

\* Of what the session held when a context was asked for, and is neither in it nor newer than the
\* tail, a context in the mode Dolt has a cue; in the mode Upward it is summarized, and no more.
THEOREM ContextsReachAll == Spec => []ContextReaches
<1>1. IInv => ContextReaches
  BY DEF IInv
<1> QED BY <1>1, Invariance, PTL
=============================================================================

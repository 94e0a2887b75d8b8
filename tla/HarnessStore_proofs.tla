------------------------ MODULE HarnessStore_proofs ------------------------
(***************************************************************************)
(* Theorems about HarnessStore, for any number of processes, any harnesses *)
(* and ids, and any harnesses committed, imported or evolved.              *)
(***************************************************************************)
EXTENDS HarnessStore, TLAPS

Holding == {"mint", "bound", "write", "index", "repoint", "tracked", "newest", "move", "done"}
Kept == {"index", "repoint", "tracked", "newest", "move", "done"}

\* What an index may say: an id names a stored harness of that id.
Resolves(ix) == \A i \in Ids : ix[i] # None => ix[i] \in stored /\ IdOf[ix[i]] = i

\* What command p is about, by the file it touches next.
CommandOK(p) ==
  /\ at[p] \in Holding => job[p].h \in Harnesses
  /\ at[p] \in Kept => job[p].h \in stored
  /\ at[p] = "mint" => job[p].h \in Legacy
  /\ at[p] \in {"plain", "mint", "tracked"} => job[p].cmd \in Adopting
  /\ at[p] = "locate" => job[p].ref \in Refs
  /\ at[p] = "locate" => job[p].cmd \in {"use", "set"}
  /\ at[p] = "bound" => job[p].cmd \notin Adopting
  /\ at[p] = "newest" => job[p].cmd \notin Adopting
  /\ at[p] = "repoint" => Resolves(job[p].ix)

\* The inductive invariant of the files.
FilesOK ==
  /\ TypeOK
  /\ current # None => current \in stored
  /\ Resolves(index)
  /\ \A p \in Procs : CommandOK(p)

USE IdsAssumption, FilesAssumption

LEMMA FilesInit == Init => FilesOK
<1> SUFFICES ASSUME Init PROVE FilesOK
    OBVIOUS
<1>1. Empty \in Indexes
    BY DEF Empty, Indexes
<1>2. TypeOK
    BY <1>1 DEF Init, TypeOK, Stages, Commands, Adopting
<1>3. Resolves(index)
    BY DEF Init, Resolves, Empty
<1>4. \A p \in Procs : CommandOK(p)
    BY DEF Init, CommandOK, Holding, Kept
<1> QED
    BY <1>2, <1>3, <1>4 DEF Init, FilesOK

\* What p does leaves what is known of the commands beside it alone.
LEMMA OthersKeep ==
  ASSUME FilesOK, NEW p \in Procs, stored \subseteq stored',
         \A q \in Procs \ {p} : at'[q] = at[q] /\ job'[q] = job[q]
  PROVE \A q \in Procs \ {p} : CommandOK(q)'
<1> SUFFICES ASSUME NEW q \in Procs \ {p} PROVE CommandOK(q)'
    OBVIOUS
<1>1. CommandOK(q)
    BY DEF FilesOK
<1> QED
    BY <1>1 DEF CommandOK, Resolves, Holding, Kept

LEMMA EndKeeps ==
  ASSUME FilesOK, NEW p \in Procs, End(p), UNCHANGED disk, UNCHANGED <<saved, torn>>
  PROVE FilesOK'
<1>1. Ended \in [cmd : Commands, ref : Refs \cup {None}, h : Harnesses \cup {None}, ix : Indexes]
    BY DEF Ended, Commands, Adopting, Indexes, Empty
<1>2. TypeOK'
    BY <1>1 DEF FilesOK, TypeOK, End, disk, Stages
<1>3. at'[p] = "idle"
    BY DEF FilesOK, TypeOK, End
<1>4. CommandOK(p)'
    BY <1>3 DEF CommandOK, Holding, Kept
<1>5. \A q \in Procs \ {p} : at'[q] = at[q] /\ job'[q] = job[q]
    BY DEF FilesOK, TypeOK, End
<1> QED
    BY <1>2, <1>4, <1>5, OthersKeep DEF FilesOK, disk, Resolves

\* The other ways on: a stage, a harness or an index that is known to be right for it.
LEMMA StepKeeps ==
  ASSUME FilesOK, NEW p \in Procs, TypeOK', stored \subseteq stored',
         current' # None => current' \in stored', Resolves(index)', CommandOK(p)',
         \A q \in Procs \ {p} : at'[q] = at[q] /\ job'[q] = job[q]
  PROVE FilesOK'
  BY OthersKeep DEF FilesOK

LEMMA GoesKeeps ==
  ASSUME FilesOK, NEW p \in Procs, NEW stage \in Stages, Goes(p, stage),
         UNCHANGED disk, saved' \in Indexes, torn' \subseteq Ids, CommandOK(p)'
  PROVE FilesOK'
<1>1. TypeOK'
    BY DEF FilesOK, TypeOK, Goes, disk
<1>2. \A q \in Procs \ {p} : at'[q] = at[q] /\ job'[q] = job[q]
    BY DEF FilesOK, TypeOK, Goes
<1> QED
    BY <1>1, <1>2, StepKeeps DEF FilesOK, disk, Resolves

LEMMA WithKeeps ==
  ASSUME FilesOK, NEW p \in Procs, NEW stage \in Stages, NEW h \in Harnesses, With(p, h, stage),
         UNCHANGED disk, UNCHANGED <<saved, torn>>, CommandOK(p)'
  PROVE FilesOK'
<1>1. TypeOK'
    BY ZenonT(40) DEF FilesOK, TypeOK, With, disk
<1>2. \A q \in Procs \ {p} : at'[q] = at[q] /\ job'[q] = job[q]
    BY DEF FilesOK, TypeOK, With
<1> QED
    BY <1>1, <1>2, StepKeeps DEF FilesOK, disk, Resolves

LEMMA PointedResolves ==
  ASSUME NEW ix \in Indexes, NEW h \in stored, stored \subseteq Harnesses, Resolves(ix)
  PROVE Pointed(ix, h) \in Indexes /\ Resolves(Pointed(ix, h))
  BY DEF Pointed, Resolves, Indexes

\* An index that cannot be read is taken to be empty, and says nothing that is wrong.
LEMMA ReadsResolve ==
  ASSUME FilesOK, NEW ix \in IndexReads
  PROVE ix \in Indexes /\ Resolves(ix)
  BY DEF FilesOK, TypeOK, IndexReads, Empty, Indexes, Resolves

LEMMA BeginKeeps ==
  ASSUME FilesOK, NEW p \in Procs, NEW cmd \in Commands, NEW ref \in Refs \cup {None},
         NEW h \in Harnesses \cup {None}, NEW stage \in Stages, Begin(p, cmd, ref, h, stage),
         stage \in {"plain", "mint", "locate", "bound", "write"},
         stage \in Holding => h \in Harnesses,
         stage = "mint" => h \in Legacy,
         stage \in {"plain", "mint"} => cmd \in Adopting,
         stage = "locate" => ref \in Refs,
         stage = "locate" => cmd \in {"use", "set"},
         stage = "bound" => cmd \notin Adopting
  PROVE FilesOK'
<1>1. [cmd |-> cmd, ref |-> ref, h |-> h, ix |-> Empty]
        \in [cmd : Commands, ref : Refs \cup {None}, h : Harnesses \cup {None}, ix : Indexes]
    BY DEF Indexes, Empty
<1>2. TypeOK'
  <2>1. job' \in [Procs -> [cmd : Commands, ref : Refs \cup {None}, h : Harnesses \cup {None},
                           ix : Indexes]]
      BY <1>1, Zenon DEF FilesOK, TypeOK, Begin
  <2>2. alone' \in [Procs -> BOOLEAN] /\ steady' \in [Procs -> BOOLEAN]
      BY Zenon DEF FilesOK, TypeOK, Begin, Chosen
  <2>3. at' \in [Procs -> Stages]
      BY DEF FilesOK, TypeOK, Begin
  <2> QED
      BY <2>1, <2>2, <2>3 DEF FilesOK, TypeOK, Begin, disk
<1>3. /\ at'[p] = stage
      /\ job'[p] = [cmd |-> cmd, ref |-> ref, h |-> h, ix |-> Empty]
      /\ \A q \in Procs \ {p} : at'[q] = at[q] /\ job'[q] = job[q]
    BY DEF FilesOK, TypeOK, Begin
<1>4. CommandOK(p)'
    BY <1>3 DEF CommandOK, Kept
<1> QED
    BY <1>2, <1>3, <1>4, StepKeeps DEF FilesOK, Begin, disk, Resolves

LEMMA BeginsKeep ==
  ASSUME FilesOK, NEW p \in Procs,
         BeginPlain(p) \/ BeginLegacy(p) \/ BeginRef(p) \/ BeginImport(p) \/ BeginShip(p)
  PROVE FilesOK'
<1> USE DEF Commands, Adopting, Stages, Holding
<1>1. CASE BeginPlain(p)
    BY <1>1, BeginKeeps DEF BeginPlain
<1>2. CASE BeginLegacy(p)
  <2>1. PICK h \in Legacy : Begin(p, "legacy", None, h, "mint")
      BY <1>2 DEF BeginLegacy
  <2> QED
      BY <2>1, BeginKeeps DEF Legacy
<1>3. CASE BeginRef(p)
  <2>1. PICK r \in Refs : Begin(p, "use", r, None, "locate") \/ Begin(p, "set", r, None, "locate")
      BY <1>3 DEF BeginRef
  <2> QED
      BY <2>1, BeginKeeps
<1>4. CASE BeginImport(p)
  <2>1. PICK h \in Files : Begin(p, "import", None, h, "bound")
      BY <1>4 DEF BeginImport
  <2> QED
      BY <2>1, BeginKeeps
<1>5. CASE BeginShip(p)
  <2>1. PICK h \in Evolved : Begin(p, "ship", None, h, "write")
      BY <1>5 DEF BeginShip
  <2> QED
      BY <2>1, BeginKeeps
<1> QED
    BY <1>1, <1>2, <1>3, <1>4, <1>5

LEMMA FilesStep == FilesOK /\ [Next]_vars => FilesOK'
<1> SUFFICES ASSUME FilesOK, [Next]_vars PROVE FilesOK'
    OBVIOUS
<1>1. CASE UNCHANGED vars
  <2>1. \A p \in Procs : CommandOK(p)'
      BY <1>1 DEF vars, disk, FilesOK, CommandOK, Resolves
  <2> QED
      BY <1>1, <2>1 DEF vars, disk, FilesOK, TypeOK, Resolves
<1> SUFFICES ASSUME Next PROVE FilesOK'
    BY <1>1
<1> PICK p \in Procs :
      \/ BeginPlain(p) \/ BeginLegacy(p) \/ BeginRef(p) \/ BeginImport(p) \/ BeginShip(p)
      \/ PlainReads(p) \/ Locate(p) \/ Bound(p) \/ Mint(p) \/ Write(p) \/ Index(p)
      \/ Repoint(p) \/ Tracked(p) \/ Newest(p) \/ Move(p) \/ Return(p) \/ Killed(p)
    BY DEF Next
<1>2. /\ CommandOK(p)
      /\ at[p] \in Stages /\ job[p].cmd \in Commands /\ job[p].ix \in Indexes
      /\ stored \subseteq Harnesses /\ saved \in Indexes /\ torn \subseteq Ids
    BY DEF FilesOK, TypeOK
<1>3. ASSUME NEW stage, Goes(p, stage)
      PROVE at'[p] = stage /\ job'[p] = job[p]
    BY <1>3 DEF Goes, FilesOK, TypeOK
<1>4. ASSUME NEW stage, NEW h, With(p, h, stage)
      PROVE at'[p] = stage /\ job'[p].h = h /\ job'[p].cmd = job[p].cmd
    BY <1>4 DEF With, FilesOK, TypeOK
<1>5. CASE BeginPlain(p) \/ BeginLegacy(p) \/ BeginRef(p) \/ BeginImport(p) \/ BeginShip(p)
    BY <1>5, BeginsKeep
<1>6. CASE PlainReads(p)
  <2>1. CASE Chosen(current)
    <3>1. With(p, current, "done") /\ current \in Harnesses /\ current \in stored
        BY <1>6, <2>1 DEF PlainReads, Chosen, FilesOK, TypeOK
    <3>2. CommandOK(p)'
        BY <3>1, <1>4, <1>6 DEF CommandOK, PlainReads, disk
    <3> QED
        BY <1>6, <3>1, <3>2, WithKeeps DEF PlainReads, Stages
  <2>2. CASE ~Chosen(current)
    <3>1. PICK h \in Legacy : With(p, h, "mint")
        BY <1>6, <2>2 DEF PlainReads
    <3>2. CommandOK(p)'
        BY <3>1, <1>2, <1>4, <1>6 DEF CommandOK, PlainReads, Kept, Legacy
    <3> QED
        BY <1>6, <3>1, <3>2, WithKeeps DEF PlainReads, Stages, Legacy
  <2> QED
      BY <2>1, <2>2
<1>7. CASE Locate(p)
  <2> DEFINE ref == job[p].ref
  <2>0. at[p] = "locate" /\ ref \in Refs /\ job[p].cmd \notin Adopting
      BY <1>2, <1>7 DEF Locate, CommandOK, Adopting
  <2>1. CASE \E ix \in IndexReads : \E h \in InStore(ref, ix) : With(p, h, Found(job[p].cmd, h))
    <3>0. PICK ix \in IndexReads : \E h \in InStore(ref, ix) : With(p, h, Found(job[p].cmd, h))
        BY <2>1
    <3>1. PICK h \in InStore(ref, ix) : With(p, h, Found(job[p].cmd, h))
        BY <3>0
    <3>2. h \in stored /\ h \in Harnesses
        BY <2>0, <1>2, ReadsResolve DEF InStore, Refs, Resolves
    <3>3. Found(job[p].cmd, h) \in {"newest", "move", "done"}
        BY DEF Found, ToCurrent
    <3>4. CommandOK(p)'
        BY <2>0, <3>1, <3>2, <3>3, <1>4, <1>7 DEF CommandOK, Locate, disk
    <3> QED
        BY <1>7, <3>1, <3>2, <3>3, <3>4, WithKeeps DEF Locate, Stages
  <2>2. CASE \E h \in Defaults(ref) : With(p, h, "bound")
    <3>1. PICK h \in Defaults(ref) : With(p, h, "bound")
        BY <2>2
    <3>2. h \in Harnesses
        BY DEF Defaults
    <3>3. CommandOK(p)'
        BY <2>0, <3>1, <3>2, <1>4 DEF CommandOK, Kept
    <3> QED
        BY <1>7, <3>1, <3>2, <3>3, WithKeeps DEF Locate, Stages
  <2>3. CASE End(p)
      BY <1>7, <2>3, EndKeeps DEF Locate
  <2> QED
      BY <1>7, <2>1, <2>2, <2>3 DEF Locate
<1>8. CASE Bound(p)
  <2>1. CASE Goes(p, "write")
    <3>1. CommandOK(p)'
        BY <2>1, <1>2, <1>3, <1>8 DEF CommandOK, Bound, Holding, Kept
    <3> QED
        BY <1>2, <1>8, <2>1, <3>1, GoesKeeps DEF Bound, Stages
  <2>2. CASE End(p)
      BY <1>8, <2>2, EndKeeps DEF Bound
  <2> QED
      BY <1>8, <2>1, <2>2 DEF Bound
<1>9. CASE Mint(p)
  <2>1. PICK stage \in {"index", "write"} :
          Goes(p, stage) /\ (stage = "index" => job[p].h \in stored)
      BY <1>9 DEF Mint
  <2>2. CommandOK(p)'
      BY <2>1, <1>2, <1>3, <1>9 DEF CommandOK, Mint, Holding, Kept, disk
  <2> QED
      BY <1>2, <1>9, <2>1, <2>2, GoesKeeps DEF Mint, Stages
<1>10. CASE Write(p)
  <2>1. at'[p] = "index" /\ job'[p] = job[p] /\ job[p].h \in Harnesses
      BY <1>2, <1>3, <1>10 DEF Write, CommandOK, Holding
  <2>2. CommandOK(p)'
      BY <2>1, <1>10 DEF CommandOK, Write
  <2>3. TypeOK'
      BY <2>1, <1>10 DEF FilesOK, TypeOK, Write, Goes, Stages
  <2>4. \A q \in Procs \ {p} : at'[q] = at[q] /\ job'[q] = job[q]
      BY <1>10 DEF FilesOK, TypeOK, Write, Goes
  <2> QED
      BY <1>10, <2>2, <2>3, <2>4, StepKeeps DEF FilesOK, Write, Resolves
<1> DEFINE Next5 == Saved(job[p].cmd, job[p].h)
<1>11. Next5 \in {"tracked", "newest", "move", "done"}
       /\ (Next5 = "tracked" => job[p].cmd \in Adopting)
       /\ (Next5 = "newest" => job[p].cmd \notin Adopting)
    BY DEF Saved, ToCurrent
<1>12. CASE Index(p)
  <2>0. job[p].h \in stored /\ job[p].h \in Harnesses
      BY <1>2, <1>12 DEF Index, CommandOK, Holding, Kept
  <2>1. CASE Goes(p, Next5) /\ saved' = [saved EXCEPT ![IdOf[job[p].h]] = job[p].h]
              /\ torn' = torn \ {IdOf[job[p].h]}
    <3>1. Goes(p, Next5) /\ UNCHANGED disk /\ saved' \in Indexes /\ torn' \subseteq Ids
        BY <1>2, <1>12, <2>0, <2>1 DEF Index, Indexes
    <3>2. CommandOK(p)'
        BY <2>0, <3>1, <1>3, <1>11 DEF CommandOK, disk
    <3>3. Next5 \in Stages
        BY <1>11 DEF Stages
    <3> QED
        BY <3>1, <3>2, <3>3, GoesKeeps
  <2>2. ASSUME NEW ix \in IndexReads, at' = [at EXCEPT ![p] = "repoint"],
               job' = [job EXCEPT ![p].ix = ix], UNCHANGED <<alone, steady, saved, torn>>
        PROVE FilesOK'
    <3>0. ix \in Indexes /\ Resolves(ix)
        BY ReadsResolve
    <3>1. /\ at'[p] = "repoint" /\ job'[p] = [job[p] EXCEPT !.ix = ix]
          /\ \A q \in Procs \ {p} : at'[q] = at[q] /\ job'[q] = job[q]
        BY <2>2 DEF FilesOK, TypeOK
    <3>2. TypeOK'
        BY SMTT(30), <1>12, <2>2, <3>0 DEF Index, FilesOK, TypeOK, Stages, disk
    <3>3. job'[p].h = job[p].h /\ job'[p].ix = ix
        BY <3>1, <1>2 DEF FilesOK, TypeOK
    <3>4. CommandOK(p)'
        BY <2>0, <3>0, <3>1, <3>3, <1>12 DEF CommandOK, Index, disk, Resolves
    <3> QED
        BY <1>12, <3>1, <3>2, <3>4, StepKeeps DEF FilesOK, Index, disk, Resolves
  <2> QED
      BY <1>12, <2>1, <2>2 DEF Index
<1>13. CASE Repoint(p)
  <2>0. job[p].h \in stored /\ job[p].h \in Harnesses /\ Resolves(job[p].ix)
      BY <1>2, <1>13 DEF Repoint, CommandOK, Holding, Kept
  <2>1. index' \in Indexes /\ Resolves(index)'
      BY <1>2, <1>13, <2>0, PointedResolves DEF Repoint, Resolves
  <2>2. Empty \in Indexes
      BY DEF Empty, Indexes
  <2>3. TypeOK'
    <3>1. saved' \in Indexes /\ torn' \subseteq Ids
        BY <1>2, <1>13, <2>0 DEF Repoint, Indexes
    <3> QED
        BY <1>11, <1>13, <2>1, <2>2, <3>1 DEF Repoint, FilesOK, TypeOK, Stages
  <2>4. /\ at'[p] = Next5 /\ job'[p] = [job[p] EXCEPT !.ix = Empty]
        /\ \A q \in Procs \ {p} : at'[q] = at[q] /\ job'[q] = job[q]
      BY <1>13 DEF Repoint, FilesOK, TypeOK
  <2>5. job'[p].h = job[p].h /\ job'[p].cmd = job[p].cmd
      BY <2>4 DEF FilesOK, TypeOK
  <2>6. CommandOK(p)'
      BY <2>0, <2>4, <2>5, <1>11, <1>13 DEF CommandOK, Repoint
  <2> QED
      BY <1>13, <2>1, <2>3, <2>4, <2>6, StepKeeps DEF FilesOK, Repoint
<1>14. CASE Tracked(p)
  <2>1. PICK stage \in {"move", "done"} : Goes(p, stage)
      BY <1>14 DEF Tracked
  <2>2. CommandOK(p)'
      BY <2>1, <1>2, <1>3, <1>14 DEF CommandOK, Tracked, Holding, Kept, disk
  <2> QED
      BY <1>2, <1>14, <2>1, <2>2, GoesKeeps DEF Tracked, Stages
<1>15. CASE Newest(p)
  <2>1. CASE Goes(p, "move")
    <3>1. CommandOK(p)'
        BY <2>1, <1>2, <1>3, <1>15 DEF CommandOK, Newest, Holding, Kept, disk
    <3> QED
        BY <1>2, <1>15, <2>1, <3>1, GoesKeeps DEF Newest, Stages
  <2>2. CASE End(p)
      BY <1>15, <2>2, EndKeeps DEF Newest
  <2> QED
      BY <1>15, <2>1, <2>2 DEF Newest
<1>16. CASE Move(p)
  <2>1. /\ at'[p] = "done" /\ job'[p] = job[p] /\ job[p].h \in stored
        /\ \A q \in Procs \ {p} : at'[q] = at[q] /\ job'[q] = job[q]
      BY <1>2, <1>16 DEF Move, CommandOK, Kept, FilesOK, TypeOK
  <2>2. TypeOK'
    <3>1. steady' \in [Procs -> BOOLEAN]
        BY <1>16, Zenon DEF Move, FilesOK, TypeOK
    <3> QED
        BY <1>2, <1>16, <2>1, <3>1 DEF Move, FilesOK, TypeOK, Stages
  <2>3. CommandOK(p)'
      BY <1>2, <1>16, <2>1 DEF Move, CommandOK
  <2> QED
      BY <1>16, <2>1, <2>2, <2>3, StepKeeps DEF FilesOK, Move, Resolves
<1>17. CASE Return(p) \/ Killed(p)
    BY <1>17, EndKeeps DEF Return, Killed
<1> QED
    BY <1>5, <1>6, <1>7, <1>8, <1>9, <1>10, <1>12, <1>13, <1>14, <1>15, <1>16, <1>17

LEMMA FilesAlways == Spec => []FilesOK
  BY FilesInit, FilesStep, PTL DEF Spec

\* The state is well typed (TypeOK).
THEOREM TypeCorrect == Spec => []TypeOK
<1>1. FilesOK => TypeOK
    BY DEF FilesOK
<1> QED
    BY <1>1, FilesAlways, PTL

\* Whatever commands run beside each other and wherever they are killed, CURRENT and every
\* id resolve, and a run dispatches a stored harness (NamesResolve).
THEOREM Resolving == Spec => []NamesResolve
<1>1. FilesOK => NamesResolve
    BY DEF FilesOK, NamesResolve, Resolves, CommandOK, Kept
<1> QED
    BY <1>1, FilesAlways, PTL

-----------------------------------------------------------------------------
\* A command whose CURRENT has been a choice all along.
SteadyOK(p) == steady[p] =>
  /\ Chosen(current) /\ at[p] # "idle"
  /\ job[p].cmd \in Adopting =>
       at[p] # "move" /\ (job[p].cmd = "plain" => at[p] = "plain" \/ Chosen(job[p].h))
AllSteady == \A p \in Procs : SteadyOK(p)

LEMMA SteadyStep == FilesOK /\ AllSteady /\ [Next]_vars => AllSteady'
<1> SUFFICES ASSUME FilesOK, AllSteady, [Next]_vars PROVE AllSteady'
    OBVIOUS
<1>1. CASE UNCHANGED vars
    BY <1>1 DEF AllSteady, SteadyOK, Chosen, vars, disk
<1> SUFFICES ASSUME Next PROVE AllSteady'
    BY <1>1
<1> PICK p \in Procs :
      \/ BeginPlain(p) \/ BeginLegacy(p) \/ BeginRef(p) \/ BeginImport(p) \/ BeginShip(p)
      \/ PlainReads(p) \/ Locate(p) \/ Bound(p) \/ Mint(p) \/ Write(p) \/ Index(p)
      \/ Repoint(p) \/ Tracked(p) \/ Newest(p) \/ Move(p) \/ Return(p) \/ Killed(p)
    BY DEF Next
<1>2. CommandOK(p) /\ SteadyOK(p)
    BY DEF FilesOK, AllSteady
<1> DEFINE Others == \A q \in Procs \ {p} : /\ steady'[q] => steady[q] /\ Chosen(current')
                                            /\ at'[q] = at[q] /\ job'[q] = job[q]
<1>3. ASSUME Others, SteadyOK(p)' PROVE AllSteady'
    BY <1>3 DEF AllSteady, SteadyOK, Chosen
<1>4. ASSUME NEW stage, Goes(p, stage), UNCHANGED current
      PROVE Others /\ at'[p] = stage /\ job'[p] = job[p] /\ steady'[p] = steady[p]
    BY <1>4 DEF Goes, FilesOK, TypeOK, AllSteady, SteadyOK
<1>5. ASSUME NEW stage, NEW h, With(p, h, stage), UNCHANGED current
      PROVE Others /\ at'[p] = stage /\ job'[p].h = h /\ job'[p].cmd = job[p].cmd
            /\ steady'[p] = steady[p]
    BY <1>5 DEF With, FilesOK, TypeOK, AllSteady, SteadyOK
<1>6. ASSUME End(p), UNCHANGED current PROVE AllSteady'
  <2>1. Others /\ ~steady'[p]
      BY <1>6 DEF End, FilesOK, TypeOK, AllSteady, SteadyOK
  <2> QED
      BY <2>1, <1>3 DEF SteadyOK
<1>7. ASSUME NEW cmd, NEW ref, NEW h, NEW stage, Begin(p, cmd, ref, h, stage),
             stage \in {"plain", "mint", "locate", "bound", "write"},
             cmd = "plain" => stage = "plain"
      PROVE AllSteady'
  <2>1. Others /\ at'[p] = stage /\ job'[p].cmd = cmd /\ steady'[p] = Chosen(current)
        /\ UNCHANGED current
      BY <1>7 DEF Begin, FilesOK, TypeOK, AllSteady, SteadyOK, disk
  <2>2. SteadyOK(p)'
      BY <2>1, <1>7 DEF SteadyOK, Chosen
  <2> QED
      BY <2>1, <2>2, <1>3
<1>8. CASE BeginPlain(p) \/ BeginLegacy(p) \/ BeginRef(p) \/ BeginImport(p) \/ BeginShip(p)
    BY <1>7, <1>8 DEF BeginPlain, BeginLegacy, BeginRef, BeginImport, BeginShip
<1>9. CASE PlainReads(p)
  <2>1. CASE Chosen(current)
    <3>1. With(p, current, "done") /\ UNCHANGED current
        BY <1>9, <2>1 DEF PlainReads, disk
    <3>2. at'[p] = "done" /\ job'[p].h = current
        BY <3>1, <1>5
    <3>3. SteadyOK(p)'
        BY <2>1, <3>1, <3>2 DEF SteadyOK, Chosen
    <3> QED
        BY <3>1, <3>3, <1>3, <1>5
  <2>2. CASE ~Chosen(current)
    <3>1. UNCHANGED current /\ \E h \in Legacy : With(p, h, "mint")
        BY <1>9, <2>2 DEF PlainReads, disk
    <3>2. SteadyOK(p)'
        BY <2>2, <3>1, <1>2, <1>5 DEF SteadyOK
    <3> QED
        BY <3>1, <3>2, <1>3, <1>5
  <2> QED
      BY <2>1, <2>2
<1>10. CASE Locate(p)
  <2>0. job[p].cmd \notin Adopting /\ UNCHANGED current
      BY <1>2, <1>10 DEF Locate, CommandOK, Adopting, disk
  <2>1. CASE End(p)
      BY <2>0, <2>1, <1>6
  <2>2. ASSUME NEW h, With(p, h, "bound") \/ With(p, h, Found(job[p].cmd, h)) PROVE AllSteady'
    <3>1. PICK stage \in {"bound", "newest", "move", "done"} : With(p, h, stage)
        BY <2>2 DEF Found, ToCurrent
    <3>2. SteadyOK(p)'
        BY <2>0, <3>1, <1>2, <1>5, <1>10 DEF SteadyOK, Chosen
    <3> QED
        BY <2>0, <3>1, <3>2, <1>3, <1>5
  <2> QED
      BY <1>10, <2>1, <2>2 DEF Locate
<1>11. CASE Bound(p) \/ Newest(p)
  <2>0. job[p].cmd \notin Adopting /\ UNCHANGED current /\ at[p] # "idle"
      BY <1>2, <1>11 DEF Bound, Newest, CommandOK, disk
  <2>1. CASE End(p)
      BY <2>0, <2>1, <1>6
  <2>2. CASE Goes(p, "write") \/ Goes(p, "move")
    <3>0. at'[p] \in {"write", "move"} /\ job'[p] = job[p] /\ steady'[p] = steady[p]
        BY <2>0, <2>2, <1>4
    <3>1. SteadyOK(p)'
        BY <2>0, <3>0, <1>2 DEF SteadyOK, Chosen
    <3> QED
        BY <2>0, <2>2, <3>1, <1>3, <1>4
  <2> QED
      BY <1>11, <2>1, <2>2 DEF Bound, Newest
<1>12. CASE Mint(p) \/ Write(p)
  <2>1. PICK stage \in {"index", "write"} : Goes(p, stage) /\ UNCHANGED current
      BY <1>12 DEF Mint, Write, disk
  <2>2. SteadyOK(p)'
      BY <2>1, <1>2, <1>4, <1>12 DEF SteadyOK, Chosen, Mint, Write
  <2> QED
      BY <2>1, <2>2, <1>3, <1>4
<1>13. Saved(job[p].cmd, job[p].h) # "idle"
       /\ (job[p].cmd \in Adopting => Saved(job[p].cmd, job[p].h) = "tracked")
    BY DEF Saved, ToCurrent
<1>14. CASE Index(p)
  <2>1. Others /\ UNCHANGED <<current, steady>> /\ at'[p] \in {"repoint", Saved(job[p].cmd, job[p].h)}
        /\ job'[p].h = job[p].h /\ job'[p].cmd = job[p].cmd /\ at[p] = "index"
      BY <1>14 DEF Index, Goes, FilesOK, TypeOK, AllSteady, SteadyOK, disk
  <2>2. SteadyOK(p)'
      BY <2>1, <1>2, <1>13 DEF SteadyOK, Chosen
  <2> QED
      BY <2>1, <2>2, <1>3
<1>15. CASE Repoint(p)
  <2>1. Others /\ UNCHANGED <<current, steady>> /\ at'[p] = Saved(job[p].cmd, job[p].h)
        /\ job'[p].h = job[p].h /\ job'[p].cmd = job[p].cmd /\ at[p] = "repoint"
      BY <1>15 DEF Repoint, FilesOK, TypeOK, AllSteady, SteadyOK
  <2>2. SteadyOK(p)'
      BY <2>1, <1>2, <1>13 DEF SteadyOK, Chosen
  <2> QED
      BY <2>1, <2>2, <1>3
<1>16. CASE Tracked(p)
  <2>1. UNCHANGED current /\ Goes(p, IF ~Chosen(current) /\ current # job[p].h THEN "move" ELSE "done")
      BY <1>16 DEF Tracked, disk
  <2>2. at'[p] \in {"move", "done"} /\ job'[p] = job[p] /\ steady'[p] = steady[p]
        /\ (Chosen(current) => at'[p] = "done")
      BY <2>1, <1>4
  <2>3. SteadyOK(p)'
      BY <2>1, <2>2, <1>2, <1>16 DEF SteadyOK, Tracked, Chosen
  <2> QED
      BY <2>1, <2>3, <1>3, <1>4
<1>17. CASE Move(p)
  <2>1. /\ \A q \in Procs : steady'[q] => steady[q] /\ Chosen(current')
        /\ at'[p] = "done" /\ job' = job /\ \A q \in Procs \ {p} : at'[q] = at[q]
      BY <1>17 DEF Move, FilesOK, TypeOK
  <2>2. SteadyOK(p)'
      BY <2>1, <1>2, <1>17 DEF SteadyOK, Move, Chosen
  <2> QED
      BY <2>1, <2>2, <1>3
<1>18. CASE Return(p) \/ Killed(p)
    BY <1>6, <1>18 DEF Return, Killed, disk
<1> QED
    BY <1>8, <1>9, <1>10, <1>11, <1>12, <1>14, <1>15, <1>16, <1>17, <1>18

\* A run begun while CURRENT is the operator's choice, and that stays one, runs a choice
\* if it is plain, and is never about to move CURRENT (ChoiceStands).
THEOREM ChoicesStand == Spec => []ChoiceStands
<1>1. Init => AllSteady
    BY DEF Init, AllSteady, SteadyOK
<1>2. Spec => []AllSteady
    BY <1>1, SteadyStep, FilesAlways, PTL DEF Spec
<1>3. AllSteady => ChoiceStands
    BY DEF AllSteady, SteadyOK, ChoiceStands
<1> QED
    BY <1>2, <1>3, PTL

-----------------------------------------------------------------------------
\* A reading in which a harness is under its id is one of the index there is.
LEMMA ReadThere ==
  ASSUME FilesOK, NEW h \in Harnesses, NEW ix \in IndexReads, Pointed(ix, h) = ix
  PROVE index[IdOf[h]] = h
<1>1. ix \in Indexes /\ Empty \in Indexes /\ IdOf[h] \in Ids
    BY ReadsResolve DEF Empty, Indexes
<1>2. ix[IdOf[h]] = h
    BY <1>1 DEF Pointed, Indexes
<1>3. ix # Empty
    BY <1>1, <1>2 DEF Empty
<1> QED
    BY <1>2, <1>3 DEF IndexReads

LEMMA KeptStep == FilesOK /\ NamesKept /\ [Next]_vars => NamesKept'
<1> SUFFICES ASSUME FilesOK, NamesKept, [Next]_vars PROVE NamesKept'
    OBVIOUS
<1>1. CASE UNCHANGED <<index, saved, torn>>
    BY <1>1 DEF NamesKept
<1>2. ASSUME NEW p \in Procs, Index(p) PROVE NamesKept'
  <2>0. job[p].h \in Harnesses /\ saved \in Indexes
      BY <1>2 DEF Index, FilesOK, TypeOK, CommandOK, Holding
  <2>1. ASSUME NEW ix \in IndexReads, Pointed(ix, job[p].h) = ix,
               saved' = [saved EXCEPT ![IdOf[job[p].h]] = job[p].h],
               torn' = torn \ {IdOf[job[p].h]}
        PROVE NamesKept'
    <3>1. index[IdOf[job[p].h]] = job[p].h
        BY <2>0, <2>1, ReadThere
    <3> QED
        BY <1>2, <2>0, <2>1, <3>1 DEF Index, NamesKept, disk, Indexes
  <2>2. CASE UNCHANGED <<saved, torn>>
      BY <1>1, <1>2, <2>2 DEF Index, disk
  <2> QED
      BY <1>2, <2>1, <2>2 DEF Index
<1>3. ASSUME NEW p \in Procs, Repoint(p) PROVE NamesKept'
  <2> DEFINE h == job[p].h
             ix == job[p].ix
  <2>1. h \in Harnesses /\ Resolves(ix) /\ saved \in Indexes
      BY <1>3 DEF Repoint, FilesOK, TypeOK, CommandOK, Holding
  <2>2. SUFFICES ASSUME NEW i \in Ids \ torn' PROVE index'[i] = saved'[i]
      BY DEF NamesKept
  <2>3. index' = Pointed(ix, h) /\ saved' = [saved EXCEPT ![IdOf[h]] = h]
        /\ torn' = (torn \cup {j \in Ids : ix[j] # index[j]}) \ {IdOf[h]}
      BY <1>3 DEF Repoint
  <2>4. CASE i = IdOf[h]
      BY <2>1, <2>3, <2>4 DEF Pointed, Indexes
  <2>5. CASE i # IdOf[h]
    <3>1. ix[i] = index[i] /\ index[i] = saved[i]
        BY <2>3, <2>5 DEF NamesKept
    <3>2. ix[i] # h
        BY <2>1, <2>5 DEF Resolves
    <3> QED
        BY <2>1, <2>3, <2>5, <3>1, <3>2 DEF Pointed, Indexes
  <2> QED
      BY <2>4, <2>5
<1> QED
    BY <1>1, <1>2, <1>3 DEF Next, vars, disk, BeginPlain, BeginLegacy, BeginRef, BeginImport,
       BeginShip, Begin, PlainReads, Locate, Bound, Mint, Write, Tracked, Newest, Move, Return, Killed

\* No update of the index is lost but to a pointId that writes what it made of another index:
\* one it had read before the update, or one it could not read (NamesKept).
THEOREM UpdatesKept == Spec => []NamesKept
<1>1. Init => NamesKept
    BY DEF Init, NamesKept
<1> QED
    BY <1>1, KeptStep, FilesAlways, PTL DEF Spec

-----------------------------------------------------------------------------
\* A run that saves, saves what the roles file holds.
LegacyLine(p) ==
  job[p].cmd \in Adopting /\ at[p] \in {"write", "index", "repoint", "tracked", "move"}
    => job[p].h \in Legacy

\* Command p has seen to it that an id names its harness.
Binds(p) == job[p].cmd \in {"import", "ship"} \/ (job[p].cmd \in Adopting /\ job[p].h \in Legacy)

\* A command that has the store to itself.
LoneOK(p) == alone[p] =>
  /\ \A q \in Procs \ {p} : at[q] = "idle"
  /\ at[p] \in {"tracked", "newest", "move", "done"} /\ Binds(p) => index[IdOf[job[p].h]] = job[p].h
  /\ at[p] = "done" /\ job[p].cmd \in Adopting =>
       current = job[p].h \/ (job[p].h \in Legacy /\ Chosen(current))
  /\ at[p] = "done" /\ job[p].cmd \in {"set", "ship"} => current = job[p].h

AllLone == \A p \in Procs : LegacyLine(p) /\ LoneOK(p)

LEMMA LoneStep == FilesOK /\ AllLone /\ [Next]_vars => AllLone'
<1> SUFFICES ASSUME FilesOK, AllLone, [Next]_vars PROVE AllLone'
    OBVIOUS
<1>1. CASE UNCHANGED vars
    BY <1>1 DEF AllLone, LegacyLine, LoneOK, Binds, Chosen, vars, disk
<1> SUFFICES ASSUME Next PROVE AllLone'
    BY <1>1
<1> PICK p \in Procs :
      \/ BeginPlain(p) \/ BeginLegacy(p) \/ BeginRef(p) \/ BeginImport(p) \/ BeginShip(p)
      \/ PlainReads(p) \/ Locate(p) \/ Bound(p) \/ Mint(p) \/ Write(p) \/ Index(p)
      \/ Repoint(p) \/ Tracked(p) \/ Newest(p) \/ Move(p) \/ Return(p) \/ Killed(p)
    BY DEF Next
<1>2. CommandOK(p) /\ LegacyLine(p) /\ LoneOK(p)
    BY DEF FilesOK, AllLone
\* When p has begun, no other command is alone.
<1> DEFINE Others == at[p] # "idle" /\ UNCHANGED alone
                     /\ \A q \in Procs \ {p} : at'[q] = at[q] /\ job'[q] = job[q]
<1>3. ASSUME Others, LegacyLine(p)', LoneOK(p)' PROVE AllLone'
  <2> SUFFICES ASSUME NEW q \in Procs \ {p} PROVE LegacyLine(q)' /\ LoneOK(q)'
      BY <1>3 DEF AllLone
  <2>1. ~alone'[q]
      BY <1>3 DEF AllLone, LoneOK
  <2>2. LegacyLine(q)'
      BY <1>3 DEF AllLone, LegacyLine
  <2> QED
      BY <2>1, <2>2 DEF LoneOK
<1>4. Others => (alone'[p] => \A q \in Procs \ {p} : at'[q] = "idle")
    BY <1>2 DEF LoneOK
<1>5. ASSUME NEW stage, Goes(p, stage), at[p] # "idle"
      PROVE Others /\ at'[p] = stage /\ job'[p] = job[p]
    BY <1>5 DEF Goes, FilesOK, TypeOK
<1>6. ASSUME NEW stage, NEW h, With(p, h, stage), at[p] # "idle"
      PROVE Others /\ at'[p] = stage /\ job'[p].h = h /\ job'[p].cmd = job[p].cmd
    BY <1>6 DEF With, FilesOK, TypeOK
<1>7. ASSUME End(p), at[p] # "idle" PROVE AllLone'
  <2>1. /\ at'[p] = "idle" /\ ~alone'[p]
        /\ \A q \in Procs \ {p} : at'[q] = at[q] /\ job'[q] = job[q] /\ alone'[q] = alone[q]
      BY <1>7 DEF End, FilesOK, TypeOK
  <2>2. \A q \in Procs \ {p} : ~alone'[q]
      BY <1>7, <2>1 DEF AllLone, LoneOK
  <2> QED
      BY <2>1, <2>2 DEF AllLone, LegacyLine, LoneOK
<1>8. ASSUME NEW cmd, NEW ref, NEW h, NEW stage, Begin(p, cmd, ref, h, stage),
             stage \in {"plain", "mint", "locate", "bound", "write"},
             cmd \in Adopting => stage # "write"
      PROVE AllLone'
  <2>1. /\ at'[p] = stage /\ job'[p].cmd = cmd
        /\ \A q \in Procs \ {p} : at'[q] = at[q] /\ job'[q] = job[q] /\ ~alone'[q]
      BY <1>8 DEF Begin, FilesOK, TypeOK
  <2>2. alone'[p] => \A q \in Procs \ {p} : at[q] = "idle"
      BY <1>8 DEF Begin
  <2>3. LegacyLine(p)' /\ LoneOK(p)'
      BY <2>1, <2>2, <1>8 DEF LegacyLine, LoneOK
  <2> QED
      BY <2>1, <2>3 DEF AllLone, LegacyLine, LoneOK
<1>9. CASE BeginPlain(p) \/ BeginLegacy(p) \/ BeginRef(p) \/ BeginImport(p) \/ BeginShip(p)
    BY <1>8, <1>9 DEF BeginPlain, BeginLegacy, BeginRef, BeginImport, BeginShip, Adopting
<1>10. CASE PlainReads(p)
  <2>1. CASE Chosen(current)
    <3>1. /\ Others /\ at'[p] = "done" /\ job'[p].h = current /\ job'[p].cmd = job[p].cmd
          /\ UNCHANGED <<index, current>>
        BY <1>6, <1>10, <2>1 DEF PlainReads, disk
    <3>2. ~Binds(p)' /\ job[p].cmd \in Adopting
        BY <1>2, <1>10, <2>1, <3>1 DEF PlainReads, CommandOK, Binds, Chosen, Adopting
    <3>3. LegacyLine(p)' /\ LoneOK(p)'
        BY <3>1, <3>2, <1>4 DEF LegacyLine, LoneOK, Adopting
    <3> QED
        BY <3>1, <3>3, <1>3
  <2>2. CASE ~Chosen(current)
    <3>1. Others /\ at'[p] = "mint"
        BY <1>6, <1>10, <2>2 DEF PlainReads
    <3>2. LegacyLine(p)' /\ LoneOK(p)'
        BY <3>1, <1>4 DEF LegacyLine, LoneOK
    <3> QED
        BY <3>1, <3>2, <1>3
  <2> QED
      BY <2>1, <2>2
<1>11. CASE Locate(p)
  <2>0. job[p].cmd \in {"use", "set"} /\ at[p] # "idle"
      BY <1>2, <1>11 DEF Locate, CommandOK
  <2>1. CASE End(p)
      BY <2>0, <2>1, <1>7
  <2>2. ASSUME NEW h \in Defaults(job[p].ref), With(p, h, "bound") PROVE AllLone'
    <3>1. Others /\ at'[p] = "bound"
        BY <2>0, <2>2, <1>6
    <3>2. LegacyLine(p)' /\ LoneOK(p)'
        BY <3>1, <1>4 DEF LegacyLine, LoneOK
    <3> QED
        BY <3>1, <3>2, <1>3
  <2>3. ASSUME NEW h, With(p, h, Found(job[p].cmd, h)) PROVE AllLone'
    <3>1. Others /\ at'[p] = Found(job[p].cmd, h) /\ job'[p].cmd = job[p].cmd
        BY <2>0, <2>3, <1>6
    <3>2. LegacyLine(p)' /\ LoneOK(p)'
        BY <2>0, <3>1, <1>4 DEF LegacyLine, LoneOK, Binds, Adopting, Found, ToCurrent
    <3> QED
        BY <3>1, <3>2, <1>3
  <2> QED
      BY <1>11, <2>1, <2>2, <2>3 DEF Locate
<1>12. CASE Bound(p)
  <2>0. job[p].cmd \notin Adopting /\ at[p] # "idle"
      BY <1>2, <1>12 DEF Bound, CommandOK
  <2>1. CASE End(p)
      BY <2>0, <2>1, <1>7
  <2>2. CASE Goes(p, "write")
    <3>1. Others /\ at'[p] = "write" /\ job'[p] = job[p]
        BY <2>0, <2>2, <1>5
    <3>2. LegacyLine(p)' /\ LoneOK(p)'
        BY <2>0, <3>1, <1>4 DEF LegacyLine, LoneOK
    <3> QED
        BY <3>1, <3>2, <1>3
  <2> QED
      BY <1>12, <2>1, <2>2 DEF Bound
<1>13. CASE Mint(p) \/ Write(p)
  <2>1. PICK stage \in {"index", "write"} : Goes(p, stage) /\ at[p] # "idle"
      BY <1>13 DEF Mint, Write
  <2>2. Others /\ at'[p] = stage /\ job'[p] = job[p]
      BY <2>1, <1>5
  <2>3. job[p].cmd \in Adopting => job[p].h \in Legacy
      BY <1>2, <1>13 DEF Mint, Write, CommandOK, LegacyLine
  <2>4. LegacyLine(p)' /\ LoneOK(p)'
      BY <2>2, <2>3, <1>4 DEF LegacyLine, LoneOK
  <2> QED
      BY <2>2, <2>4, <1>3
\* Where a save leaves a command: its harness is under its id.
<1>14. ASSUME Others, at'[p] = Saved(job[p].cmd, job[p].h), job'[p].cmd = job[p].cmd,
              job'[p].h = job[p].h, at[p] \in {"index", "repoint"},
              alone[p] => index'[IdOf[job[p].h]] = job[p].h
       PROVE AllLone'
  <2>1. job[p].cmd \in Adopting => job[p].h \in Legacy
      BY <1>2, <1>14 DEF LegacyLine
  <2>2. /\ at'[p] \in {"tracked", "newest", "move", "done"}
        /\ at'[p] = "done" => job[p].cmd \notin Adopting \cup {"set", "ship"}
      BY <1>14 DEF Saved, ToCurrent
  <2>3. LegacyLine(p)' /\ LoneOK(p)'
      BY <2>1, <2>2, <1>4, <1>14 DEF LegacyLine, LoneOK
  <2> QED
      BY <2>3, <1>3, <1>14
<1>15. CASE Index(p)
  <2>0. at[p] = "index" /\ job[p].h \in Harnesses
      BY <1>2, <1>15 DEF Index, CommandOK, Holding
  <2>1. ASSUME NEW ix \in IndexReads, Pointed(ix, job[p].h) = ix,
               Goes(p, Saved(job[p].cmd, job[p].h))
        PROVE AllLone'
    <3>1. index[IdOf[job[p].h]] = job[p].h /\ UNCHANGED index
        BY <1>15, <2>0, <2>1, ReadThere DEF Index, disk
    <3> QED
        BY <2>0, <2>1, <3>1, <1>5, <1>14
  <2>2. ASSUME NEW ix \in IndexReads, at' = [at EXCEPT ![p] = "repoint"],
               job' = [job EXCEPT ![p].ix = ix], UNCHANGED alone
        PROVE AllLone'
    <3>1. /\ Others /\ at'[p] = "repoint"
          /\ job'[p].h = job[p].h /\ job'[p].cmd = job[p].cmd
        BY <2>0, <2>2 DEF FilesOK, TypeOK
    <3>2. LegacyLine(p)' /\ LoneOK(p)'
        BY <2>0, <3>1, <1>2, <1>4 DEF LegacyLine, LoneOK
    <3> QED
        BY <3>1, <3>2, <1>3
  <2> QED
      BY <1>15, <2>1, <2>2 DEF Index
<1>16. CASE Repoint(p)
  <2>1. /\ Others /\ at'[p] = Saved(job[p].cmd, job[p].h) /\ at[p] = "repoint"
        /\ job'[p].h = job[p].h /\ job'[p].cmd = job[p].cmd
      BY <1>16 DEF Repoint, FilesOK, TypeOK
  <2>2. index'[IdOf[job[p].h]] = job[p].h
      BY <1>2, <1>16 DEF Repoint, Pointed, CommandOK, Holding
  <2> QED
      BY <2>1, <2>2, <1>14
<1>17. CASE Tracked(p)
  <2>1. Goes(p, IF ~Chosen(current) /\ current # job[p].h THEN "move" ELSE "done")
        /\ at[p] = "tracked" /\ UNCHANGED <<index, current>>
      BY <1>17 DEF Tracked, disk
  <2>2. Others /\ job'[p] = job[p] /\ at'[p] \in {"move", "done"}
        /\ (at'[p] = "done" => Chosen(current) \/ current = job[p].h)
      BY <2>1, <1>5
  <2>3. job[p].cmd \in Adopting /\ job[p].h \in Legacy
      BY <2>1, <1>2 DEF CommandOK, LegacyLine
  <2>4. LegacyLine(p)' /\ LoneOK(p)'
      BY <2>1, <2>2, <2>3, <1>2, <1>4 DEF LegacyLine, LoneOK, Binds, Adopting, Chosen
  <2> QED
      BY <2>2, <2>4, <1>3
<1>18. CASE Newest(p)
  <2>0. at[p] = "newest" /\ job[p].cmd \notin Adopting /\ UNCHANGED index
      BY <1>2, <1>18 DEF Newest, CommandOK, disk
  <2>1. CASE End(p)
      BY <2>0, <2>1, <1>7
  <2>2. CASE Goes(p, "move")
    <3>1. Others /\ at'[p] = "move" /\ job'[p] = job[p]
        BY <2>0, <2>2, <1>5
    <3>2. LegacyLine(p)' /\ LoneOK(p)'
        BY <2>0, <3>1, <1>2, <1>4 DEF LegacyLine, LoneOK, Binds
    <3> QED
        BY <3>1, <3>2, <1>3
  <2> QED
      BY <1>18, <2>1, <2>2 DEF Newest
<1>19. CASE Move(p)
  <2>1. /\ Others /\ at[p] = "move" /\ at'[p] = "done" /\ job'[p] = job[p]
        /\ UNCHANGED index /\ current' = job[p].h
      BY <1>19 DEF Move, FilesOK, TypeOK
  <2>2. LegacyLine(p)' /\ LoneOK(p)'
      BY <2>1, <1>2, <1>4 DEF LegacyLine, LoneOK, Binds
  <2> QED
      BY <2>1, <2>2, <1>3
<1>20. CASE Return(p) \/ Killed(p)
    BY <1>7, <1>20 DEF Return, Killed
<1> QED
    BY <1>9, <1>10, <1>11, <1>12, <1>13, <1>15, <1>16, <1>17, <1>18, <1>19, <1>20

\* Whatever killed commands left behind, the next command that runs by itself does what it
\* is for (LoneCommandTakesEffect).
THEOREM Repairing == Spec => []LoneCommandTakesEffect
<1>1. Init => AllLone
    BY DEF Init, AllLone, LegacyLine, LoneOK
<1>2. Spec => []AllLone
    BY <1>1, LoneStep, FilesAlways, PTL DEF Spec
<1>3. AllLone => LoneCommandTakesEffect
  <2> SUFFICES ASSUME AllLone, NEW p \in Procs, at[p] = "done", alone[p]
               PROVE LET h == job[p].h c == job[p].cmd IN
                     /\ c \in Adopting /\ h \in Legacy =>
                          index[LegacyId] = h /\ (Chosen(current) \/ current = h)
                     /\ c = "plain" /\ h \notin Legacy => current = h
                     /\ c \in {"set", "ship"} => current = h
                     /\ c \in {"import", "ship"} => index[IdOf[h]] = h
      BY DEF LoneCommandTakesEffect
  <2>1. LoneOK(p)
      BY DEF AllLone
  <2>2. job[p].h \in Legacy => IdOf[job[p].h] = LegacyId
      BY DEF Legacy
  <2> QED
      BY <2>1, <2>2 DEF LoneOK, Binds, Adopting
<1> QED
    BY <1>2, <1>3, PTL
=============================================================================

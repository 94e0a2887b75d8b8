---------------------------- MODULE HarnessStore ----------------------------
(***************************************************************************)
(* harness-config's HarnessStore as the commands of several maf processes  *)
(* use it at once: version files named by the sha of their content, an     *)
(* index from ids to shas, and CURRENT.  Each file is replaced whole, by a *)
(* rename; what is not atomic is a command, which reads and writes several *)
(* of them, and may be killed between any two.                             *)
(*                                                                         *)
(* A harness is its sha, and the sha covers the id, so IdOf is a function. *)
(* What a roles file mints is any of the legacy harnesses: it is edited at *)
(* any time, and --roles names another.  Files edited by hand are left     *)
(* out: a version file or a CURRENT that is damaged or cannot be read      *)
(* fails the command, like a kill.  An index in that state does not: it is *)
(* taken to be empty, and so may any reading of it be here.                *)
(***************************************************************************)
CONSTANTS
  Procs,       \* invocations of maf over one store
  Harnesses,   \* what may ever be minted or imported
  Ids,
  IdOf,        \* the id in each harness
  LegacyId,    \* LEGACY_DEFAULT_ID
  Committed,   \* the default-<sha>.json files beside the store
  Files,       \* harness files an operator may import
  Evolved      \* candidates an evolve may ship

Legacy == {h \in Harnesses : IdOf[h] = LegacyId}
None == "none"

ASSUME IdsAssumption ==
  /\ IdOf \in [Harnesses -> Ids]
  /\ LegacyId \in Ids
  /\ None \notin Harnesses
ASSUME FilesAssumption ==
  /\ Committed \subseteq Files /\ Files \subseteq Harnesses
  /\ Evolved \subseteq Harnesses \ Legacy

VARIABLES
  stored,    \* the version files
  index,     \* index.json
  current,   \* CURRENT
  at,        \* the file a command touches next
  job,       \* its command, its harness, and the index it has read
  alone,     \* history: no other command has run beside this one
  steady,    \* history: all along, CURRENT has been an operator's choice
  saved,     \* history: the harness last saved under each id
  torn       \* history: ids whose entry a write replaced by that of another index

disk == <<stored, index, current>>
vars == <<stored, index, current, at, job, alone, steady, saved, torn>>

Indexes == [Ids -> Harnesses \cup {None}]
Adopting == {"plain", "legacy"}
Commands == Adopting \cup {"use", "set", "import", "ship"}
Stages == {"idle", "plain", "mint", "locate", "bound", "write", "index", "repoint",
           "tracked", "newest", "move", "done"}
Refs == Harnesses \cup Ids

TypeOK ==
  /\ stored \subseteq Harnesses
  /\ index \in Indexes
  /\ current \in Harnesses \cup {None}
  /\ at \in [Procs -> Stages]
  /\ job \in [Procs -> [cmd : Commands, ref : Refs \cup {None},
                        h : Harnesses \cup {None}, ix : Indexes]]
  /\ alone \in [Procs -> BOOLEAN]
  /\ steady \in [Procs -> BOOLEAN]
  /\ saved \in Indexes
  /\ torn \subseteq Ids

Empty == [i \in Ids |-> None]
Init ==
  /\ stored = {} /\ index = Empty /\ current = None
  /\ at = [p \in Procs |-> "idle"]
  /\ job = [p \in Procs |-> [cmd |-> "plain", ref |-> None, h |-> None, ix |-> Empty]]
  /\ alone = [p \in Procs |-> FALSE]
  /\ steady = [p \in Procs |-> FALSE]
  /\ saved = Empty /\ torn = {}

\* CURRENT is the operator's, and not a follower of the roles file.
Chosen(c) == c # None /\ c \notin Legacy

\* Command p ends, and forgets what it was about.
Ended == [cmd |-> "plain", ref |-> None, h |-> None, ix |-> Empty]
End(p) == /\ at' = [at EXCEPT ![p] = "idle"]
          /\ job' = [job EXCEPT ![p] = Ended]
          /\ alone' = [alone EXCEPT ![p] = FALSE]
          /\ steady' = [steady EXCEPT ![p] = FALSE]

Goes(p, stage) == /\ at' = [at EXCEPT ![p] = stage]
                  /\ UNCHANGED <<job, alone, steady>>
With(p, h, stage) == /\ at' = [at EXCEPT ![p] = stage]
                     /\ job' = [job EXCEPT ![p].h = h, ![p].ref = None]
                     /\ UNCHANGED <<alone, steady>>

\* Where a command goes on when the store holds its harness, or has just saved it.
\* setCurrent asks the index about a legacy-default snapshot first.
ToCurrent(h) == IF h \in Legacy THEN "newest" ELSE "move"
Found(c, h) == IF c = "set" THEN ToCurrent(h) ELSE "done"
Saved(c, h) ==
  IF c \in Adopting THEN "tracked" ELSE IF c \in {"set", "ship"} THEN ToCurrent(h) ELSE "done"

\* A command begins: a plain run; a run of the roles file; a run or set-current of an id
\* or a sha; an import; evolve, with a candidate its gate approved.
Begin(p, cmd, ref, h, stage) ==
  /\ at[p] = "idle"
  /\ at' = [at EXCEPT ![p] = stage]
  /\ job' = [job EXCEPT ![p] = [cmd |-> cmd, ref |-> ref, h |-> h, ix |-> Empty]]
  /\ alone' = [q \in Procs |-> q = p /\ \A r \in Procs : at[r] = "idle"]
  /\ steady' = [steady EXCEPT ![p] = Chosen(current)]
  /\ UNCHANGED <<disk, saved, torn>>

BeginPlain(p) == Begin(p, "plain", None, None, "plain")
BeginLegacy(p) == \E h \in Legacy : Begin(p, "legacy", None, h, "mint")
BeginRef(p) ==
  \/ \E r \in Refs \ {LegacyId} : Begin(p, "use", r, None, "locate")
  \/ \E r \in Refs : Begin(p, "set", r, None, "locate")
BeginImport(p) == \E h \in Files \ Legacy : Begin(p, "import", None, h, "bound")
BeginShip(p) == \E h \in Evolved : Begin(p, "ship", None, h, "write")

\* A plain run reads CURRENT.  One the operator chose is what runs; else the roles file is
\* minted, as whatever it holds when it is read.
PlainReads(p) ==
  /\ at[p] = "plain"
  /\ IF Chosen(current) THEN With(p, current, "done")
     ELSE \E h \in Legacy : With(p, h, "mint")
  /\ UNCHANGED <<disk, saved, torn>>

\* readIndex: the index, or nothing when the file cannot be read or parsed.
IndexReads == {index, Empty}

\* What the store has under a ref, by an index read, and the committed defaults that answer
\* to it.
InStore(ref, ix) ==
  IF ref \in Harnesses THEN {ref} \cap stored ELSE {ix[ref]} \ {None}
Defaults(ref) == {h \in Committed : ref \in {h, IdOf[h]}}

\* locateStoredHarness: the store first, then the one committed default, which is imported.
Locate(p) ==
  LET ref == job[p].ref IN
  /\ at[p] = "locate"
  /\ \E ix \in IndexReads :
       \/ \E h \in InStore(ref, ix) : With(p, h, Found(job[p].cmd, h))
       \/ /\ InStore(ref, ix) = {}
          /\ \E h \in Defaults(ref) : Defaults(ref) = {h} /\ With(p, h, "bound")
       \/ /\ InStore(ref, ix) = {}
          /\ ~\E h \in Defaults(ref) : Defaults(ref) = {h}
          /\ End(p)
  /\ UNCHANGED <<disk, saved, torn>>

\* importHarness refuses an id that already names other content, as far as it can read.
Bound(p) ==
  /\ at[p] = "bound"
  /\ \E ix \in IndexReads :
       IF ix[IdOf[job[p].h]] \in {None, job[p].h} THEN Goes(p, "write") ELSE End(p)
  /\ UNCHANGED <<disk, saved, torn>>

\* Mutant of Mint: what is stored is taken to be what legacy-default names.
MintSkipsIndex(p) ==
  /\ at[p] = "mint"
  /\ Goes(p, IF job[p].h \in stored THEN "tracked" ELSE "write")
  /\ UNCHANGED <<disk, saved, torn>>

\* Mutant of Mint: the id moves to a version file that was never written.
MintWithoutSave(p) == at[p] = "mint" /\ Goes(p, "index") /\ UNCHANGED <<disk, saved, torn>>

\* adoptLegacy looks for the version file of what it minted.
Mint(p) ==
  /\ at[p] = "mint"
  /\ Goes(p, IF job[p].h \in stored THEN "index" ELSE "write")
  /\ UNCHANGED <<disk, saved, torn>>

\* save renames the version file into place.
Write(p) ==
  /\ at[p] = "write"
  /\ stored' = stored \cup {job[p].h}
  /\ Goes(p, "index")
  /\ UNCHANGED <<index, current, saved, torn>>

\* Mutant of Pointed: the index is written anew.
PointedAlone(ix, h) == [i \in Ids |-> IF i = IdOf[h] THEN h ELSE None]

\* The index in which h is under its id and under no other.
Pointed(ix, h) ==
  [i \in Ids |-> IF i = IdOf[h] THEN h ELSE IF ix[i] = h THEN None ELSE ix[i]]

\* pointId reads the index; one that needs no change is not written.
Index(p) ==
  LET h == job[p].h IN
  /\ at[p] = "index"
  /\ \E ix \in IndexReads :
       \/ /\ Pointed(ix, h) = ix
          /\ Goes(p, Saved(job[p].cmd, h))
          /\ saved' = [saved EXCEPT ![IdOf[h]] = h]
          /\ torn' = torn \ {IdOf[h]}
       \/ /\ Pointed(ix, h) # ix
          /\ at' = [at EXCEPT ![p] = "repoint"]
          /\ job' = [job EXCEPT ![p].ix = ix]
          /\ UNCHANGED <<alone, steady, saved, torn>>
  /\ UNCHANGED disk

\* pointId renames what it made of the index it read over the index there is.
Repoint(p) ==
  LET h == job[p].h ix == job[p].ix IN
  /\ at[p] = "repoint"
  /\ index' = Pointed(ix, h)
  /\ at' = [at EXCEPT ![p] = Saved(job[p].cmd, h)]
  /\ job' = [job EXCEPT ![p].ix = Empty]
  /\ saved' = [saved EXCEPT ![IdOf[h]] = h]
  /\ torn' = (torn \cup {i \in Ids : ix[i] # index[i]}) \ {IdOf[h]}
  /\ UNCHANGED <<stored, current, alone, steady>>

\* adoptLegacy reads CURRENT: one that is absent or follows the roles file is to move.
Tracked(p) ==
  /\ at[p] = "tracked"
  /\ Goes(p, IF ~Chosen(current) /\ current # job[p].h THEN "move" ELSE "done")
  /\ UNCHANGED <<disk, saved, torn>>

\* setCurrent refuses a legacy-default snapshot that is not the newest.
Newest(p) ==
  /\ at[p] = "newest"
  /\ \E ix \in IndexReads :
       IF ix[LegacyId] = job[p].h THEN Goes(p, "move") ELSE End(p)
  /\ UNCHANGED <<disk, saved, torn>>

\* writeCurrent.
Move(p) ==
  /\ at[p] = "move"
  /\ current' = job[p].h
  /\ at' = [at EXCEPT ![p] = "done"]
  /\ steady' = [q \in Procs |-> steady[q] /\ Chosen(job[p].h)]
  /\ UNCHANGED <<stored, index, job, alone, saved, torn>>

\* The command returns, or is killed; a temporary file it leaves is never read.
Return(p) == at[p] = "done" /\ End(p) /\ UNCHANGED <<disk, saved, torn>>
Killed(p) == at[p] \notin {"idle", "done"} /\ End(p) /\ UNCHANGED <<disk, saved, torn>>

Next == \E p \in Procs :
  \/ BeginPlain(p) \/ BeginLegacy(p) \/ BeginRef(p) \/ BeginImport(p) \/ BeginShip(p)
  \/ PlainReads(p) \/ Locate(p) \/ Bound(p) \/ Mint(p) \/ Write(p) \/ Index(p)
  \/ Repoint(p) \/ Tracked(p) \/ Newest(p) \/ Move(p) \/ Return(p) \/ Killed(p)

Spec == Init /\ [][Next]_vars

(***************************************************************************)
(* Properties                                                              *)
(***************************************************************************)

\* Whenever any command is killed, CURRENT and every id of the index name a version file
\* that is there, the id's own, and so does what a run is about to dispatch and attest
\* (save writes the file before pointId the index and setCurrent CURRENT).
NamesResolve ==
  /\ current # None => current \in stored
  /\ \A i \in Ids : index[i] # None => index[i] \in stored /\ IdOf[index[i]] = i
  /\ \A p \in Procs : at[p] = "done" => job[p].h \in stored

\* A run begun while CURRENT is the operator's choice, and that stays one, runs a choice if
\* it is plain, and never is about to move CURRENT (adoptLegacy and resolveHarnessRef).
ChoiceStands == \A p \in Procs :
  steady[p] /\ job[p].cmd \in Adopting =>
    /\ at[p] # "move"
    /\ job[p].cmd = "plain" => at[p] = "plain" \/ Chosen(job[p].h)

\* Whatever killed commands and races left behind, a command that runs by itself does what
\* it is for: a run of the roles file leaves legacy-default, and CURRENT unless chosen, at
\* what it ran; set-current and a ship move CURRENT; an import and a ship bind their id.
LoneCommandTakesEffect == \A p \in Procs :
  at[p] = "done" /\ alone[p] =>
    LET h == job[p].h c == job[p].cmd IN
    /\ c \in Adopting /\ h \in Legacy =>
         index[LegacyId] = h /\ (Chosen(current) \/ current = h)
    /\ c = "plain" /\ h \notin Legacy => current = h
    /\ c \in {"set", "ship"} => current = h
    /\ c \in {"import", "ship"} => index[IdOf[h]] = h

\* An id names what was last saved under it, kills included, but for two ways in which a
\* pointId may undo another's save: it had read the index before the other wrote it, and
\* puts the older entry back; or it could not read the index, and writes one of its id alone.
NamesKept == \A i \in Ids \ torn : index[i] = saved[i]
=============================================================================

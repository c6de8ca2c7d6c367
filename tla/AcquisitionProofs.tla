-------------------------- MODULE AcquisitionProofs --------------------------
(* Proofs about Acquisition, for every set of processes, models, releases,   *)
(* versions and ZIPs, and any number of kills, faults and removals.          *)
EXTENDS Acquisition, TLAPS

-----------------------------------------------------------------------------
(* The strengthening that makes TypeOK inductive: what the locals of a       *)
(* running command hold at each of its steps.                                *)

DigestSteps == {"verified", "place", "blob", "artifact", "rc_blob", "rc_artifact"}

RowKnown(r) == r \in Releases /\ state[r] # None /\ full[r] # None

JobTyped ==
    \A p \in Procs :
        /\ pc[p] # "idle" => rel[p] \in Releases
        /\ pc[p] \in ResolveSteps => ver[p] \in Versions
        /\ pc[p] \in PC \ {"idle", "exit", "upsert"} => RowKnown(rel[p])
        /\ pc[p] \in DigestSteps => sha[p] \in Zips
        /\ pc[p] \in {"blob", "artifact"} => path[p] \in Releases

(* A row has a state exactly when it has a full version.                     *)
RowsComplete == \A r \in Releases : state[r] = None <=> full[r] = None

(* Only the holder of the process lock is inside a command.                  *)
Locked == \A p \in Procs : pc[p] # "idle" => holder = p

TypeInv == TypeOK /\ JobTyped /\ RowsComplete /\ Locked

(* Init establishes the typing invariant.                                    *)
LEMMA InitTyped == Init => TypeInv
<1> SUFFICES ASSUME Init PROVE TypeInv
  OBVIOUS
<1>1. TypeOK
  BY DEF Init, TypeOK, PC, Commands, Contents
<1>2. JobTyped /\ RowsComplete /\ Locked
  BY DEF Init, JobTyped, RowsComplete, Locked, PC, ResolveSteps, DigestSteps
<1> QED
  BY <1>1, <1>2 DEF TypeInv

(* A command takes the lock.                                                 *)
LEMMA BeginTyped ==
  ASSUME TypeInv, NEW p \in Procs, BeginSome(p)
  PROVE  TypeInv'
<1> PICK c \in Commands, r \in Releases, v \in Versions \cup {None},
         l \in {"upsert", "lookup", "x_start"} :
       /\ Begin(p, c, r, v, l)
       /\ l = "upsert" => v \in Versions
       /\ l # "upsert" => state[r] # None
  BY NoneIsFresh DEF BeginSome, BeginResolving, BeginDownloadById, BeginExtract, Commands
<1> USE DEF TypeInv
<1>1. TypeOK'
  BY DEF TypeOK, Begin, Goto, At, db, files, PC, ResolveSteps, ExtractSteps
<1>2. JobTyped'
  BY DEF TypeOK, JobTyped, RowsComplete, RowKnown, Begin, Goto, At, db, files, PC,
         ResolveSteps, DigestSteps
<1>3. RowsComplete' /\ Locked'
  BY NoneIsFresh DEF TypeOK, RowsComplete, Locked, Begin, Goto, At, db, files
<1> QED
  BY <1>1, <1>2, <1>3

(* set_state leaves a known release with a state, at a step that has what    *)
(* the step before it had.                                                   *)
LEMMA SetStateTyped ==
  ASSUME TypeInv, NEW p \in Procs, pc[p] \in PC \ {"idle", "exit", "upsert"},
         NEW s \in ReleaseState, NEW l \in PC, NEW m \in PC, SetState(p, s, l, m),
         {l, m} \cap (ResolveSteps \cup {"idle", "blob", "artifact"}) = {},
         {l, m} \cap DigestSteps # {} => pc[p] \in DigestSteps,
         UNCHANGED <<full, artifact, newest, blob, rows, files, holder, local, removed>>
  PROVE  TypeInv'
<1> USE DEF TypeInv, SetState, Goto, local, files
<1>1. rel[p] \in Releases /\ state[rel[p]] # None /\ full[rel[p]] # None
  BY DEF JobTyped, RowKnown
<1>a. /\ state' \in [Releases -> ReleaseState \cup {None}]
      /\ \A r \in Releases : state[r] # None => state'[r] # None
  BY <1>1, NoneIsFresh, SMTT(30) DEF TypeOK
<1>b. PICK g \in {l, m} : pc' = [pc EXCEPT ![p] = g]
  OBVIOUS
<1>2. TypeOK'
  BY <1>a, <1>b DEF TypeOK
<1>3. JobTyped'
  <2>1. \A r : RowKnown(r) => RowKnown(r)'
    BY <1>a DEF RowKnown
  <2>2. pc' \in [Procs -> PC] /\ pc'[p] = g /\ \A q \in Procs \ {p} : pc'[q] = pc[q]
    BY <1>b DEF TypeOK
  <2>3. g \notin ResolveSteps /\ g \notin {"idle", "blob", "artifact"}
        /\ (g \in DigestSteps => pc[p] \in DigestSteps)
    OBVIOUS
  <2>4. RowKnown(rel[p]) /\ rel[p] \in Releases
    BY <1>1 DEF RowKnown
  <2> QED
    BY <2>1, <2>2, <2>3, <2>4 DEF JobTyped
<1>4. RowsComplete'
  BY <1>1, NoneIsFresh DEF TypeOK, RowsComplete
<1>5. Locked'
  BY DEF TypeOK, Locked
<1> QED
  BY <1>2, <1>3, <1>4, <1>5

(* A step of the walk moves on to the next if, or raises, and leaves the     *)
(* state or makes it one that is not EXTRACTED.                              *)
WalkPoints == WalkSteps \cup {"done", "raise"}

LEMMA WalkIs ==
  ASSUME NEW p \in Procs, ReconcileWalk(p)
  PROVE  /\ pc[p] \in WalkSteps
         /\ \E s \in ReleaseState \ {"EXTRACTED"}, l \in WalkPoints :
                /\ pc' = [pc EXCEPT ![p] = l]
                /\ \/ UNCHANGED state
                   \/ state[rel[p]] # "EXTRACTED" /\ state' = [state EXCEPT ![rel[p]] = s]
         /\ UNCHANGED <<full, artifact, newest, blob, rows, files, holder, local, removed>>
<1> DEFINE w == Walk[pc[p]]
<1>1. /\ pc[p] \in WalkSteps
      /\ IF state[rel[p]] \in w.from
         THEN SetState(p, w.to, w.next, "raise")
         ELSE UNCHANGED state /\ Goto(p, w.next)
      /\ UNCHANGED <<full, artifact, newest, blob, rows, files, holder, local, removed>>
  BY DEF ReconcileWalk
<1>2. /\ w.to \in ReleaseState \ {"EXTRACTED"} /\ w.next \in WalkPoints
      /\ "EXTRACTED" \notin w.from
  BY <1>1 DEF Walk, WalkSteps, WalkPoints, ReleaseState
<1>3. "raise" \in WalkPoints
  BY DEF WalkPoints
<1> HIDE DEF w
<1> QED
  BY <1>1, <1>2, <1>3 DEF SetState, Goto

(* Every step of a running command keeps the typing invariant.               *)
LEMMA StepTyped ==
  ASSUME TypeInv, NEW p \in Procs, Step(p)
  PROVE  TypeInv'
<1> USE DEF TypeInv, Goto, At, local, db, files, PC, ResolveSteps, ClaimSteps, TrySteps,
        HandlerSteps, ReconcileSteps, WalkSteps, ExtractSteps, DigestSteps
<1>1. CASE Upsert(p)
  BY <1>1, NoneIsFresh
  DEF Upsert, TypeOK, JobTyped, RowsComplete, Locked, RowKnown, Contents, ReleaseState,
      Commands
<1>2. CASE SetResolvedVersion(p)
  <2>1. TypeOK'
    BY <1>2 DEF SetResolvedVersion, TypeOK, JobTyped, ReleaseState
  <2>2. JobTyped'
    BY <1>2, NoneIsFresh DEF SetResolvedVersion, TypeOK, JobTyped, RowKnown, ReleaseState
  <2>3. RowsComplete'
    BY <1>2, NoneIsFresh DEF SetResolvedVersion, TypeOK, JobTyped, RowKnown, RowsComplete, ReleaseState
  <2>4. Locked'
    BY <1>2 DEF SetResolvedVersion, TypeOK, Locked
  <2> QED
    BY <2>1, <2>2, <2>3, <2>4
<1>3. CASE ReturnCatalogued(p)
  BY <1>3, NoneIsFresh, SMTT(60)
  DEF ReturnCatalogued, Verifies, TypeOK, JobTyped, RowsComplete, Locked, RowKnown, Contents, ReleaseState,
      Commands
<1>4. CASE FindFinal(p)
  <2>0. rel[p] \in Releases /\ RowKnown(rel[p])
    BY <1>4 DEF FindFinal, JobTyped
  <2>1. TypeOK'
    BY <1>4, <2>0, ZenonT(60) DEF FindFinal, Verifies, TypeOK, Contents, RowKnown
  <2>2. JobTyped'
    BY <1>4, <2>0, NoneIsFresh DEF FindFinal, Verifies, TypeOK, JobTyped, RowKnown
  <2>3. RowsComplete' /\ Locked'
    BY <1>4, <2>0 DEF FindFinal, Verifies, TypeOK, RowsComplete, Locked
  <2> QED
    BY <2>1, <2>2, <2>3
<1>5. CASE StartFresh(p)
  BY <1>5, NoneIsFresh
  DEF StartFresh, TypeOK, JobTyped, RowsComplete, Locked, RowKnown, Contents, ReleaseState,
      Commands
<1>6. CASE Queue(p)
  <2>1. CASE state[rel[p]] \in {"QUEUED", "FAILED"}
    <3>1. UNCHANGED state /\ pc' = [pc EXCEPT ![p] = "claim"] /\ pc[p] = "queue"
      BY <1>6, <2>1 DEF Queue
    <3> QED
      BY <1>6, <3>1 DEF Queue, TypeOK, JobTyped, RowsComplete, Locked, RowKnown
  <2>2. CASE state[rel[p]] \notin {"QUEUED", "FAILED"}
    <3>1. SetState(p, "QUEUED", "claim", "raise")
      BY <1>6, <2>2 DEF Queue
    <3> QED
      BY <1>6, <3>1, SetStateTyped DEF Queue, ReleaseState
  <2> QED
    BY <2>1, <2>2
<1>7. CASE Claim(p)
  BY <1>7, SetStateTyped DEF Claim, ReleaseState
<1>8. CASE Clean(p)
  BY <1>8, NoneIsFresh
  DEF Clean, TypeOK, JobTyped, RowsComplete, Locked, RowKnown, Contents, ReleaseState,
      Commands
<1>9. CASE FetchBegin(p)
  BY <1>9, NoneIsFresh
  DEF FetchBegin, TypeOK, JobTyped, RowsComplete, Locked, RowKnown, Contents, ReleaseState,
      Commands
<1>10. CASE FetchEnd(p)
  <2>0. rel[p] \in Releases /\ RowKnown(rel[p])
    BY <1>10 DEF FetchEnd, JobTyped
  <2>a. Served[rel[p]][full[rel[p]]] \in Zips
    BY <2>0, ServedType DEF TypeOK, RowKnown
  <2>1. TypeOK'
    BY <1>10, <2>0, <2>a DEF FetchEnd, TypeOK, Contents
  <2>2. JobTyped'
    BY <1>10, <2>0, NoneIsFresh DEF FetchEnd, TypeOK, JobTyped, RowKnown
  <2>3. RowsComplete' /\ Locked'
    BY <1>10, <2>0 DEF FetchEnd, TypeOK, RowsComplete, Locked
  <2> QED
    BY <2>1, <2>2, <2>3
<1>11. CASE FetchBad(p)
  BY <1>11, NoneIsFresh
  DEF FetchBad, TypeOK, JobTyped, RowsComplete, Locked, RowKnown, Contents, ReleaseState,
      Commands
<1>12. CASE SetDownloaded(p)
  BY <1>12, SetStateTyped DEF SetDownloaded, ReleaseState
<1>13. CASE Verify(p)
  <2>0. rel[p] \in Releases /\ RowKnown(rel[p])
    BY <1>13 DEF Verify, JobTyped
  <2>1. TypeOK'
    BY <1>13, <2>0, ZenonT(60) DEF Verify, Verifies, TypeOK, Contents, RowKnown
  <2>2. JobTyped'
    BY <1>13, <2>0 DEF Verify, Verifies, TypeOK, JobTyped, RowKnown
  <2>3. RowsComplete' /\ Locked'
    BY <1>13, <2>0 DEF Verify, Verifies, TypeOK, RowsComplete, Locked
  <2> QED
    BY <2>1, <2>2, <2>3
<1>14. CASE SetVerified(p)
  BY <1>14, SetStateTyped DEF SetVerified, ReleaseState
<1>15. CASE Deduplicate(p)
  BY <1>15, NoneIsFresh
  DEF Deduplicate, BlobOnDisk, TypeOK, JobTyped, RowsComplete, Locked, RowKnown, Contents, ReleaseState,
      Commands
<1>16. CASE Place(p)
  BY <1>16, NoneIsFresh
  DEF Place, TypeOK, JobTyped, RowsComplete, Locked, RowKnown, Contents, ReleaseState,
      Commands
<1>17. CASE RecordBlob(p)
  <2>0. rel[p] \in Releases /\ RowKnown(rel[p])
    BY <1>17 DEF RecordBlob, JobTyped
  <2>1. TypeOK'
    BY <1>17, <2>0 DEF RecordBlob, InsertBlob, TypeOK, Contents, RowKnown
  <2>2. JobTyped'
    BY <1>17, <2>0 DEF RecordBlob, TypeOK, JobTyped, RowKnown
  <2>3. RowsComplete' /\ Locked'
    BY <1>17, <2>0 DEF RecordBlob, InsertBlob, TypeOK, RowsComplete, Locked
  <2> QED
    BY <2>1, <2>2, <2>3
<1>18. CASE RecordArtifact(p)
  BY <1>18, NoneIsFresh
  DEF RecordArtifact, PutArtifact, TypeOK, JobTyped, RowsComplete, Locked, RowKnown, Contents, ReleaseState,
      Commands
<1>19. CASE SetDecrypted(p)
  BY <1>19, SetStateTyped DEF SetDecrypted, ReleaseState
<1>20. CASE Undo(p)
  BY <1>20, NoneIsFresh
  DEF Undo, TypeOK, JobTyped, RowsComplete, Locked, RowKnown, Contents, ReleaseState,
      Commands
<1>21. CASE MarkFailed(p)
  BY <1>21, SetStateTyped DEF MarkFailed, ReleaseState
<1>22. CASE ReconcileBlob(p)
  BY <1>22, NoneIsFresh
  DEF ReconcileBlob, InsertBlob, TypeOK, JobTyped, RowsComplete, Locked, RowKnown, Contents, ReleaseState,
      Commands
<1>23. CASE ReconcileArtifact(p)
  BY <1>23, NoneIsFresh
  DEF ReconcileArtifact, PutArtifact, TypeOK, JobTyped, RowsComplete, Locked, RowKnown, Contents, ReleaseState,
      Commands
<1>24. CASE ReconcileWalk(p)
  <2>1. PICK s \in ReleaseState, l \in WalkPoints :
            /\ pc' = [pc EXCEPT ![p] = l]
            /\ state' = state \/ state' = [state EXCEPT ![rel[p]] = s]
    BY <1>24, WalkIs
  <2>2. /\ UNCHANGED <<full, artifact, newest, blob, rows, files, holder, local, removed>>
        /\ pc[p] \in WalkSteps
    BY <1>24, WalkIs
  <2>3. RowKnown(rel[p]) /\ pc' \in [Procs -> PC] /\ s # None
    BY <2>1, <2>2, NoneIsFresh DEF TypeOK, JobTyped, WalkSteps, WalkPoints
  <2>4. TypeOK'
    BY <2>1, <2>2, <2>3 DEF TypeOK
  <2>5. RowsComplete' /\ \A r : RowKnown(r) => RowKnown(r)'
    BY <2>1, <2>2, <2>3 DEF TypeOK, RowsComplete, RowKnown
  <2>6. JobTyped'
    BY <2>1, <2>2, <2>3, <2>5 DEF TypeOK, JobTyped, WalkSteps, WalkPoints
  <2>7. Locked'
    BY <2>1, <2>2 DEF TypeOK, Locked, WalkSteps
  <2> QED
    BY <2>4, <2>5, <2>6, <2>7
<1>26. CASE AfterDownload(p)
  BY <1>26, NoneIsFresh
  DEF AfterDownload, TypeOK, JobTyped, RowsComplete, Locked, RowKnown, Contents, ReleaseState,
      Commands
<1>27. CASE ExtractStart(p)
  BY <1>27, NoneIsFresh, SMTT(30)
  DEF ExtractStart, TypeOK, JobTyped, RowsComplete, Locked, RowKnown, Contents, ReleaseState,
      Commands
<1>28. CASE Unpack(p)
  <2>0. rel[p] \in Releases /\ RowKnown(rel[p])
    BY <1>28 DEF Unpack, JobTyped
  <2>1. TypeOK'
    BY <1>28, <2>0, ZenonT(60) DEF Unpack, Verifies, TypeOK, Contents, RowKnown
  <2>2. JobTyped'
    BY <1>28, <2>0 DEF Unpack, Verifies, TypeOK, JobTyped, RowKnown
  <2>3. RowsComplete' /\ Locked'
    BY <1>28, <2>0 DEF Unpack, Verifies, TypeOK, RowsComplete, Locked
  <2> QED
    BY <2>1, <2>2, <2>3
<1>29. CASE RecordManifest(p)
  <2>1. TypeOK'
    BY <1>29 DEF RecordManifest, RecordExtraction, TypeOK, JobTyped
  <2> QED
    BY <1>29, <2>1 DEF RecordManifest, RecordExtraction, TypeOK, JobTyped, RowsComplete, Locked, RowKnown
<1>30. CASE RecordFiles(p)
  <2>1. TypeOK'
    BY <1>30 DEF RecordFiles, RecordExtraction, TypeOK, JobTyped
  <2> QED
    BY <1>30, <2>1 DEF RecordFiles, RecordExtraction, TypeOK, JobTyped, RowsComplete, Locked, RowKnown
<1>31. CASE SetExtracted(p)
  <2>1. PICK l \in {"x_append", "exit"} : SetState(p, "EXTRACTED", l, "raise")
    BY <1>31 DEF SetExtracted
  <2> QED
    BY <1>31, <2>1, SetStateTyped DEF SetExtracted, ReleaseState
<1>32. CASE AppendEntry(p)
  <2>0. rel[p] \in Releases /\ RowKnown(rel[p])
    BY <1>32 DEF AppendEntry, JobTyped
  <2>1. TypeOK'
    BY <1>32, <2>0, ModelOfType DEF AppendEntry, TypeOK, Contents, RowKnown
  <2>2. JobTyped'
    BY <1>32, <2>0 DEF AppendEntry, TypeOK, JobTyped, RowKnown
  <2>3. RowsComplete' /\ Locked'
    BY <1>32, <2>0 DEF AppendEntry, TypeOK, RowsComplete, Locked
  <2> QED
    BY <2>1, <2>2, <2>3
<1>33. CASE Release(p)
  <2>1. TypeOK'
    BY <1>33 DEF Release, TypeOK, JobTyped, Commands
  <2>2. JobTyped'
    BY <1>33, NoneIsFresh DEF Release, TypeOK, JobTyped, RowKnown, Commands
  <2>3. RowsComplete'
    BY <1>33, NoneIsFresh DEF Release, TypeOK, JobTyped, RowKnown, RowsComplete, Commands
  <2>4. Locked'
    BY <1>33 DEF Release, TypeOK, Locked
  <2> QED
    BY <2>1, <2>2, <2>3, <2>4
<1> QED
  BY <1>1, <1>2, <1>3, <1>4, <1>5, <1>6, <1>7, <1>8, <1>9, <1>10, <1>11, <1>12, <1>13, <1>14, <1>15, <1>16, <1>17, <1>18, <1>19, <1>20, <1>21, <1>22, <1>23, <1>24, <1>26, <1>27, <1>28, <1>29, <1>30, <1>31, <1>32, <1>33
  DEF Step, Resolving, Downloading, Reconciling, Extracting

(* So do faults, kills and removals.                                         *)
LEMMA EnvironmentTyped ==
  ASSUME TypeInv,
         \/ \E p \in Procs : Fault(p) \/ Crash(p)
         \/ \E r \in Releases : RemoveZip(r)
  PROVE  TypeInv'
<1> USE DEF TypeInv, Goto, local, db, files, procs, PC, ResolveSteps, ClaimSteps, TrySteps,
        HandlerSteps, ReconcileSteps, WalkSteps, ExtractSteps, DigestSteps
<1>1. ASSUME NEW p \in Procs, Fault(p) PROVE TypeInv'
  <2>1. OnFault(pc[p]) \in {"undo", "exit", "raise"}
    BY DEF OnFault
  <2>2. OnFault(pc[p]) = "exit" \/ pc[p] \notin {"idle", "exit", "upsert"}
    BY <1>1 DEF OnFault, Fault
  <2> QED
    BY <1>1, <2>1, <2>2 DEF Fault, TypeOK, JobTyped, RowsComplete, Locked, RowKnown
<1>2. ASSUME NEW p \in Procs, Crash(p) PROVE TypeInv'
  BY <1>2, ZenonT(60) DEF Crash, TypeOK, JobTyped, RowsComplete, Locked, RowKnown, Commands
<1>3. ASSUME NEW r \in Releases, RemoveZip(r) PROVE TypeInv'
  BY <1>3 DEF RemoveZip, TypeOK, JobTyped, RowsComplete, Locked, RowKnown, Contents
<1> QED
  BY <1>1, <1>2, <1>3

(* Hence the typing invariant is inductive.                                  *)
LEMMA NextTyped == TypeInv /\ [Next]_vars => TypeInv'
<1> SUFFICES ASSUME TypeInv, [Next]_vars PROVE TypeInv'
  OBVIOUS
<1>1. CASE UNCHANGED vars
  BY <1>1 DEF vars, db, files, procs, TypeInv, TypeOK, JobTyped, RowsComplete, Locked, RowKnown
<1>2. CASE Next
  BY <1>2, BeginTyped, StepTyped, EnvironmentTyped DEF Next
<1> QED
  BY <1>1, <1>2

(* Type correctness: whatever is killed, fails or is deleted, every row,     *)
(* file and local keeps its type.                                            *)
THEOREM TypeCorrect == Spec => []TypeOK
<1>1. TypeInv => TypeOK
  BY DEF TypeInv
<1> QED
  BY InitTyped, NextTyped, <1>1, PTL DEF Spec

(* Mutual exclusion: two processes are never both inside a mutating command. *)
THEOREM MutualExclusion == Spec => []RunsDoNotOverlap
<1>1. TypeInv => RunsDoNotOverlap
  BY DEF TypeInv, Locked, RunsDoNotOverlap
<1> QED
  BY InitTyped, NextTyped, <1>1, PTL DEF Spec

-----------------------------------------------------------------------------
(* The inductive invariant of the safety properties: what is true of the     *)
(* rows and files at any moment, and what a running command may rely on at   *)
(* each of its steps.                                                        *)

FreshSteps   == ClaimSteps \cup {"fetch", "fetching", "downloaded", "verify", "verified", "place"}
UnheldSteps  == FreshSteps \cup {"blob", "artifact", "rc_blob", "rc_artifact"}
AcquireSteps == UnheldSteps \cup ResolveSteps \cup {"lookup"}
UnpackedSteps == {"x_manifest", "x_files", "x_state", "x_append"}

(* The newest row of a release is one of its rows.                           *)
NewestRow ==
    \A r \in Releases :
        /\ newest[r] = None => \A q \in Releases : artifact[r][q] = None
        /\ newest[r] # None => artifact[r][newest[r]] # None

Data ==
    /\ OneVerifiedReleasePerModel
    /\ NewestRow
    /\ OnlyVerifiedZips
    /\ RecordedDigestsOnDisk
    /\ ExtractionComplete

(* From its selection to its row, nobody else of the model gets a row.       *)
JobExclusive(p) == pc[p] \in AcquireSteps => ~ModelHeldByOther(rel[p])

(* Where the ZIP of the release is.                                          *)
JobDisk(p) ==
    /\ pc[p] \in FreshSteps => zip[rel[p]] = None
    /\ pc[p] \in {"verified", "place"} => partial[rel[p]] = sha[p]
    /\ pc[p] = "blob" => path[p] = rel[p]
    /\ ~removed =>
        /\ pc[p] \in {"blob", "rc_blob", "rc_artifact"} => zip[rel[p]] = sha[p]
        /\ pc[p] = "artifact" => zip[path[p]] = sha[p]
        /\ pc[p] \in UnheldSteps => newest[rel[p]] = None
    /\ pc[p] \in ClaimSteps \cup {"fetch"} => ~CataloguedFileExists(rel[p])

(* How far the extraction has come.                                          *)
JobExtract(p) ==
    /\ pc[p] = "x_unpack" => HasArtifact(rel[p])
    /\ pc[p] \in UnpackedSteps =>
        /\ HasArtifact(rel[p])
        /\ manifest[rel[p]] # None
        /\ ~removed => manifest[rel[p]] = artifact[rel[p]][newest[rel[p]]]
    /\ pc[p] \in {"x_files", "x_state", "x_append"} => "manifest" \in rows[rel[p]]
    /\ pc[p] \in {"x_state", "x_append"} => "extracted_file" \in rows[rel[p]]
    /\ pc[p] = "x_append" => state[rel[p]] = "EXTRACTED"

Job(p) == JobExclusive(p) /\ JobDisk(p) /\ JobExtract(p)

SafetyInv == TypeInv /\ Data /\ \A p \in Procs : Job(p)

(* Init establishes it.                                                      *)
LEMMA InitSafe == Init => SafetyInv
<1> SUFFICES ASSUME Init PROVE SafetyInv
  OBVIOUS
<1>1. Data
  BY NoneIsFresh, BadIsFresh
  DEF Init, Data, OneVerifiedReleasePerModel, NewestRow, OnlyVerifiedZips,
      RecordedDigestsOnDisk, ExtractionComplete, HasArtifact, ReleaseState
<1>2. ASSUME NEW p \in Procs PROVE Job(p)
  BY DEF Init, Job, JobExclusive, JobDisk, JobExtract, UnheldSteps, FreshSteps, AcquireSteps,
         ResolveSteps, ClaimSteps, UnpackedSteps
<1> QED
  BY InitTyped, <1>1, <1>2 DEF SafetyInv

(* Which steps write which table or file; the other processes are idle.      *)
LEMMA StepFrame ==
  ASSUME NEW p \in Procs, Step(p)
  PROVE  /\ UNCHANGED removed
         /\ RecordArtifact(p) \/ ReconcileArtifact(p) \/ UNCHANGED <<artifact, newest>>
         /\ RecordBlob(p) \/ ReconcileBlob(p) \/ UNCHANGED blob
         /\ Place(p) \/ UNCHANGED zip
         /\ Unpack(p) \/ UNCHANGED manifest
         /\ RecordManifest(p) \/ RecordFiles(p) \/ UNCHANGED rows
         /\ AppendEntry(p) \/ UNCHANGED catalog
         /\ pc[p] # "idle"
<1> USE DEF Step, Resolving, Downloading, Reconciling, Extracting
<1>1. CASE Resolving(p)
  BY <1>1 DEF Upsert, SetResolvedVersion, files, At
<1>2. CASE Downloading(p)
  BY <1>2 DEF ReturnCatalogued, FindFinal, StartFresh, Queue, Claim, Clean, FetchBegin,
         FetchEnd, FetchBad, SetDownloaded, Verify, SetVerified, Deduplicate, Place, RecordBlob,
         RecordArtifact, SetDecrypted, Undo, MarkFailed, db, files, At
<1>3. CASE Reconciling(p)
  BY <1>3 DEF ReconcileBlob, ReconcileArtifact, ReconcileWalk, WalkSteps, db, files, At
<1>4. CASE Extracting(p)
  BY <1>4 DEF AfterDownload, ExtractStart, Unpack, RecordManifest, RecordFiles,
         RecordExtraction, SetExtracted, AppendEntry, db, files, At
<1>5. CASE Release(p)
  BY <1>5 DEF Release, db, files
<1> QED
  BY <1>1, <1>2, <1>3, <1>4, <1>5

(* A step moves its own process only.                                        *)
LEMMA StepMovesOne ==
  ASSUME TypeInv, NEW p \in Procs, Step(p), NEW q \in Procs \ {p}
  PROVE  pc'[q] = "idle"
<1>1. pc[q] = "idle"
  BY StepFrame DEF TypeInv, Locked
<1>2. pc'[q] = pc[q]
  BY DEF TypeInv, TypeOK, Step, Resolving, Downloading, Reconciling, Extracting, Goto, SetState,
      Upsert, SetResolvedVersion, ReturnCatalogued, FindFinal, StartFresh, Queue, Claim, Clean,
      FetchBegin, FetchEnd, FetchBad, SetDownloaded, Verify, SetVerified, Deduplicate, Place,
      RecordBlob, RecordArtifact, SetDecrypted, Undo, MarkFailed, ReconcileBlob,
      ReconcileArtifact, ReconcileWalk, AfterDownload, ExtractStart, Unpack,
      RecordManifest, RecordFiles, RecordExtraction, SetExtracted, AppendEntry, Release
<1> QED
  BY <1>1, <1>2

(* An idle process relies on nothing.                                        *)
LEMMA IdleJob == ASSUME NEW p \in Procs, pc[p] = "idle" PROVE Job(p)
  BY DEF Job, JobExclusive, JobDisk, JobExtract, AcquireSteps, UnheldSteps, FreshSteps,
         ClaimSteps, ResolveSteps, UnpackedSteps

(* From the selection of a model to the row of its release, the others of    *)
(* the model have no row.                                                    *)
LEMMA StepExclusive ==
  ASSUME SafetyInv, NEW p \in Procs, Step(p)
  PROVE  JobExclusive(p)'
<1> USE DEF SafetyInv, Job, JobExclusive, ModelHeldByOther, HasArtifact, AcquireSteps, UnheldSteps, FreshSteps, ClaimSteps, ResolveSteps, TypeInv, TypeOK, Goto, At, local, db, files
<1>1. CASE Upsert(p)
  BY <1>1 DEF Upsert, JobTyped
<1>2. CASE SetResolvedVersion(p)
  BY <1>2 DEF SetResolvedVersion, JobTyped
<1>3. CASE ReturnCatalogued(p)
  BY <1>3 DEF ReturnCatalogued, JobTyped
<1>4. CASE FindFinal(p)
  BY <1>4 DEF FindFinal, JobTyped
<1>5. CASE StartFresh(p)
  BY <1>5 DEF StartFresh, JobTyped
<1>6. CASE Queue(p)
  BY <1>6 DEF Queue, SetState, JobTyped
<1>7. CASE Claim(p)
  BY <1>7 DEF Claim, SetState, JobTyped
<1>8. CASE Clean(p)
  BY <1>8 DEF Clean, JobTyped
<1>9. CASE FetchBegin(p)
  BY <1>9 DEF FetchBegin, JobTyped
<1>10. CASE FetchEnd(p)
  BY <1>10 DEF FetchEnd, JobTyped
<1>11. CASE FetchBad(p)
  BY <1>11 DEF FetchBad, JobTyped
<1>12. CASE SetDownloaded(p)
  BY <1>12 DEF SetDownloaded, SetState, JobTyped
<1>13. CASE Verify(p)
  BY <1>13 DEF Verify, JobTyped
<1>14. CASE SetVerified(p)
  BY <1>14 DEF SetVerified, SetState, JobTyped
<1>15. CASE Deduplicate(p)
  BY <1>15 DEF Deduplicate, JobTyped
<1>16. CASE Place(p)
  BY <1>16 DEF Place, JobTyped
<1>17. CASE RecordBlob(p)
  BY <1>17 DEF RecordBlob, JobTyped
<1>18. CASE RecordArtifact(p)
  BY <1>18 DEF RecordArtifact, JobTyped
<1>19. CASE SetDecrypted(p)
  BY <1>19 DEF SetDecrypted, SetState, JobTyped
<1>20. CASE Undo(p)
  BY <1>20 DEF Undo, JobTyped
<1>21. CASE MarkFailed(p)
  BY <1>21 DEF MarkFailed, SetState, JobTyped
<1>22. CASE ReconcileBlob(p)
  BY <1>22 DEF ReconcileBlob, JobTyped
<1>23. CASE ReconcileArtifact(p)
  BY <1>23 DEF ReconcileArtifact, JobTyped
<1>24. CASE ReconcileWalk(p)
  BY <1>24, WalkIs, SMTT(30) DEF WalkSteps, WalkPoints, JobTyped
<1>26. CASE AfterDownload(p)
  BY <1>26 DEF AfterDownload, JobTyped
<1>27. CASE ExtractStart(p)
  BY <1>27 DEF ExtractStart, JobTyped
<1>28. CASE Unpack(p)
  BY <1>28 DEF Unpack, JobTyped
<1>29. CASE RecordManifest(p)
  BY <1>29 DEF RecordManifest, RecordExtraction, JobTyped
<1>30. CASE RecordFiles(p)
  BY <1>30 DEF RecordFiles, RecordExtraction, JobTyped
<1>31. CASE SetExtracted(p)
  BY <1>31 DEF SetExtracted, SetState, JobTyped
<1>32. CASE AppendEntry(p)
  BY <1>32 DEF AppendEntry, JobTyped
<1>33. CASE Release(p)
  BY <1>33 DEF Release, JobTyped
<1> QED
  BY <1>1, <1>2, <1>3, <1>4, <1>5, <1>6, <1>7, <1>8, <1>9, <1>10, <1>11, <1>12, <1>13, <1>14, <1>15, <1>16, <1>17, <1>18, <1>19, <1>20, <1>21, <1>22, <1>23, <1>24, <1>26, <1>27, <1>28, <1>29, <1>30, <1>31, <1>32, <1>33
  DEF Step, Resolving, Downloading, Reconciling, Extracting

(* What download_release relies on about the files and rows of its release.  *)
LEMMA StepDisk ==
  ASSUME SafetyInv, NEW p \in Procs, Step(p)
  PROVE  JobDisk(p)'
<1> USE DEF SafetyInv, Job, JobDisk, UnheldSteps, FreshSteps, ClaimSteps, CataloguedFileExists, HasArtifact, TypeInv, TypeOK, Goto, At, local, db, files
<1>1. CASE Upsert(p)
  BY <1>1 DEF Upsert, JobTyped
<1>2. CASE SetResolvedVersion(p)
  BY <1>2 DEF SetResolvedVersion, JobTyped
<1>3. CASE ReturnCatalogued(p)
  BY <1>3 DEF ReturnCatalogued, JobTyped
<1>4. CASE FindFinal(p)
  BY <1>4, NoneIsFresh DEF FindFinal, Verifies, Data, RecordedDigestsOnDisk, NewestRow,
     JobTyped
<1>5. CASE StartFresh(p)
  BY <1>5, NoneIsFresh DEF StartFresh, Data, RecordedDigestsOnDisk, NewestRow, JobTyped
<1>6. CASE Queue(p)
  BY <1>6 DEF Queue, SetState, JobTyped
<1>7. CASE Claim(p)
  BY <1>7 DEF Claim, SetState, JobTyped
<1>8. CASE Clean(p)
  BY <1>8 DEF Clean, JobTyped
<1>9. CASE FetchBegin(p)
  BY <1>9 DEF FetchBegin, JobTyped
<1>10. CASE FetchEnd(p)
  BY <1>10 DEF FetchEnd, JobTyped
<1>11. CASE FetchBad(p)
  BY <1>11 DEF FetchBad, JobTyped
<1>12. CASE SetDownloaded(p)
  BY <1>12 DEF SetDownloaded, SetState, JobTyped
<1>13. CASE Verify(p)
  BY <1>13 DEF Verify, Verifies, JobTyped
<1>14. CASE SetVerified(p)
  BY <1>14 DEF SetVerified, SetState, JobTyped
<1>15. CASE Deduplicate(p)
  <2>1. sha[p] \in Zips /\ rel[p] \in Releases /\ pc[p] = "place"
    BY <1>15 DEF Deduplicate, JobTyped, PC, TrySteps, DigestSteps, RowKnown
  <2>2. blob[sha[p]] # None /\ (~removed => zip[blob[sha[p]]] = sha[p])
    BY <1>15, <2>1 DEF Deduplicate, BlobOnDisk, Data, RecordedDigestsOnDisk
  <2>3. pc'[p] = "artifact" /\ path'[p] = blob[sha[p]] /\ UNCHANGED <<rel, sha, zip, newest, removed>>
    BY <1>15, <2>1 DEF Deduplicate
  <2> QED
    BY <2>1, <2>2, <2>3
<1>16. CASE Place(p)
  BY <1>16 DEF Place, BlobOnDisk, JobTyped
<1>17. CASE RecordBlob(p)
  BY <1>17 DEF RecordBlob, JobTyped
<1>18. CASE RecordArtifact(p)
  BY <1>18 DEF RecordArtifact, JobTyped
<1>19. CASE SetDecrypted(p)
  BY <1>19 DEF SetDecrypted, SetState, JobTyped
<1>20. CASE Undo(p)
  BY <1>20 DEF Undo, JobTyped
<1>21. CASE MarkFailed(p)
  BY <1>21 DEF MarkFailed, SetState, JobTyped
<1>22. CASE ReconcileBlob(p)
  BY <1>22 DEF ReconcileBlob, JobTyped
<1>23. CASE ReconcileArtifact(p)
  BY <1>23 DEF ReconcileArtifact, JobTyped
<1>24. CASE ReconcileWalk(p)
  BY <1>24, WalkIs DEF WalkSteps, WalkPoints, JobTyped
<1>26. CASE AfterDownload(p)
  BY <1>26 DEF AfterDownload, JobTyped
<1>27. CASE ExtractStart(p)
  BY <1>27 DEF ExtractStart, JobTyped
<1>28. CASE Unpack(p)
  BY <1>28 DEF Unpack, JobTyped
<1>29. CASE RecordManifest(p)
  BY <1>29 DEF RecordManifest, RecordExtraction, JobTyped
<1>30. CASE RecordFiles(p)
  BY <1>30 DEF RecordFiles, RecordExtraction, JobTyped
<1>31. CASE SetExtracted(p)
  BY <1>31 DEF SetExtracted, SetState, JobTyped
<1>32. CASE AppendEntry(p)
  BY <1>32 DEF AppendEntry, JobTyped
<1>33. CASE Release(p)
  BY <1>33 DEF Release, JobTyped
<1> QED
  BY <1>1, <1>2, <1>3, <1>4, <1>5, <1>6, <1>7, <1>8, <1>9, <1>10, <1>11, <1>12, <1>13, <1>14, <1>15, <1>16, <1>17, <1>18, <1>19, <1>20, <1>21, <1>22, <1>23, <1>24, <1>26, <1>27, <1>28, <1>29, <1>30, <1>31, <1>32, <1>33
  DEF Step, Resolving, Downloading, Reconciling, Extracting

(* What extract_release relies on.                                           *)
LEMMA StepExtract ==
  ASSUME SafetyInv, NEW p \in Procs, Step(p)
  PROVE  JobExtract(p)'
<1> USE DEF SafetyInv, Job, JobExtract, UnpackedSteps, HasArtifact, TypeInv, TypeOK, Goto, At, local, db, files
<1>1. CASE Upsert(p)
  BY <1>1 DEF Upsert, JobTyped
<1>2. CASE SetResolvedVersion(p)
  BY <1>2 DEF SetResolvedVersion, JobTyped
<1>3. CASE ReturnCatalogued(p)
  BY <1>3 DEF ReturnCatalogued, JobTyped
<1>4. CASE FindFinal(p)
  BY <1>4 DEF FindFinal, JobTyped
<1>5. CASE StartFresh(p)
  BY <1>5 DEF StartFresh, JobTyped
<1>6. CASE Queue(p)
  BY <1>6 DEF Queue, SetState, JobTyped
<1>7. CASE Claim(p)
  BY <1>7 DEF Claim, SetState, JobTyped
<1>8. CASE Clean(p)
  BY <1>8 DEF Clean, JobTyped
<1>9. CASE FetchBegin(p)
  BY <1>9 DEF FetchBegin, JobTyped
<1>10. CASE FetchEnd(p)
  BY <1>10 DEF FetchEnd, JobTyped
<1>11. CASE FetchBad(p)
  BY <1>11 DEF FetchBad, JobTyped
<1>12. CASE SetDownloaded(p)
  BY <1>12 DEF SetDownloaded, SetState, JobTyped
<1>13. CASE Verify(p)
  BY <1>13 DEF Verify, JobTyped
<1>14. CASE SetVerified(p)
  BY <1>14 DEF SetVerified, SetState, JobTyped
<1>15. CASE Deduplicate(p)
  BY <1>15 DEF Deduplicate, JobTyped
<1>16. CASE Place(p)
  BY <1>16 DEF Place, JobTyped
<1>17. CASE RecordBlob(p)
  BY <1>17 DEF RecordBlob, JobTyped
<1>18. CASE RecordArtifact(p)
  BY <1>18 DEF RecordArtifact, JobTyped
<1>19. CASE SetDecrypted(p)
  BY <1>19 DEF SetDecrypted, SetState, JobTyped
<1>20. CASE Undo(p)
  BY <1>20 DEF Undo, JobTyped
<1>21. CASE MarkFailed(p)
  BY <1>21 DEF MarkFailed, SetState, JobTyped
<1>22. CASE ReconcileBlob(p)
  BY <1>22 DEF ReconcileBlob, JobTyped
<1>23. CASE ReconcileArtifact(p)
  BY <1>23 DEF ReconcileArtifact, JobTyped
<1>24. CASE ReconcileWalk(p)
  BY <1>24, WalkIs DEF WalkSteps, WalkPoints, JobTyped
<1>26. CASE AfterDownload(p)
  BY <1>26 DEF AfterDownload, JobTyped
<1>27. CASE ExtractStart(p)
  BY <1>27 DEF ExtractStart, JobTyped
<1>28. CASE Unpack(p)
  BY <1>28, NoneIsFresh DEF Unpack, Verifies, Data, RecordedDigestsOnDisk, NewestRow,
     JobTyped
<1>29. CASE RecordManifest(p)
  BY <1>29 DEF RecordManifest, RecordExtraction, JobTyped
<1>30. CASE RecordFiles(p)
  BY <1>30 DEF RecordFiles, RecordExtraction, JobTyped
<1>31. CASE SetExtracted(p)
  BY <1>31 DEF SetExtracted, SetState, JobTyped
<1>32. CASE AppendEntry(p)
  BY <1>32 DEF AppendEntry, JobTyped
<1>33. CASE Release(p)
  BY <1>33 DEF Release, JobTyped
<1> QED
  BY <1>1, <1>2, <1>3, <1>4, <1>5, <1>6, <1>7, <1>8, <1>9, <1>10, <1>11, <1>12, <1>13, <1>14, <1>15, <1>16, <1>17, <1>18, <1>19, <1>20, <1>21, <1>22, <1>23, <1>24, <1>26, <1>27, <1>28, <1>29, <1>30, <1>31, <1>32, <1>33
  DEF Step, Resolving, Downloading, Reconciling, Extracting

(* A row is written for a release whose model has no other one, with a       *)
(* digest that is on disk unless files were deleted.                         *)
LEMMA PutKeepsData ==
  ASSUME SafetyInv, NEW r \in Releases, NEW q \in Releases, NEW d \in Zips,
         PutArtifact(r, q, d), UNCHANGED <<state, blob, rows, zip, manifest, removed>>,
         ~ModelHeldByOther(r),
         ~removed => newest[r] = None /\ zip[q] = d
  PROVE  Data'
<1> USE DEF SafetyInv, TypeInv, TypeOK, PutArtifact, Data
<1>1. /\ newest' \in [Releases -> Releases \cup {None}]
      /\ \A s \in Releases \ {r} : newest'[s] = newest[s] /\ artifact'[s] = artifact[s]
      /\ artifact'[r][q] = d
      /\ \A t \in Releases \ {q} : artifact'[r][t] = artifact[r][t]
      /\ newest'[r] = IF artifact[r][q] = None THEN q ELSE newest[r]
  OBVIOUS
<1>2. newest'[r] # None
  BY <1>1, NoneIsFresh DEF NewestRow
<1>3. OneVerifiedReleasePerModel'
  BY <1>1 DEF OneVerifiedReleasePerModel, ModelHeldByOther, HasArtifact
<1>4. NewestRow'
  BY <1>1, <1>2, NoneIsFresh DEF NewestRow
<1>5. OnlyVerifiedZips'
  BY DEF OnlyVerifiedZips
<1>6. RecordedDigestsOnDisk'
  BY <1>1 DEF RecordedDigestsOnDisk
<1>7. ExtractionComplete'
  BY <1>1, <1>2 DEF ExtractionComplete, HasArtifact
<1> QED
  BY <1>3, <1>4, <1>5, <1>6, <1>7

(* A running command keeps the rows and files consistent.                    *)
LEMMA StepData ==
  ASSUME SafetyInv, NEW p \in Procs, Step(p)
  PROVE  Data'
<1> USE DEF SafetyInv
<1>r. ASSUME pc[p] \in UnheldSteps \cup UnpackedSteps \cup {"x_unpack"}
      PROVE  rel[p] \in Releases
  BY StepFrame DEF TypeInv, JobTyped
<1>1. CASE RecordArtifact(p)
  <2>1. pc[p] = "artifact" /\ PutArtifact(rel[p], path[p], sha[p])
    BY <1>1 DEF RecordArtifact, At
  <2>2. rel[p] \in Releases /\ path[p] \in Releases /\ sha[p] \in Zips
    BY <2>1, <1>r DEF TypeInv, JobTyped, DigestSteps, UnheldSteps
  <2>3. ~ModelHeldByOther(rel[p]) /\ (~removed => newest[rel[p]] = None /\ zip[path[p]] = sha[p])
    BY <2>1 DEF Job, JobExclusive, JobDisk, AcquireSteps, UnheldSteps
  <2> QED
    BY <1>1, <2>1, <2>2, <2>3, PutKeepsData DEF RecordArtifact, files
<1>2. CASE ReconcileArtifact(p)
  <2>1. pc[p] = "rc_artifact" /\ PutArtifact(rel[p], rel[p], sha[p])
    BY <1>2 DEF ReconcileArtifact, At
  <2>2. rel[p] \in Releases /\ sha[p] \in Zips
    BY <2>1, <1>r DEF TypeInv, JobTyped, DigestSteps, UnheldSteps
  <2>3. ~ModelHeldByOther(rel[p]) /\ (~removed => newest[rel[p]] = None /\ zip[rel[p]] = sha[p])
    BY <2>1 DEF Job, JobExclusive, JobDisk, AcquireSteps, UnheldSteps
  <2> QED
    BY <1>2, <2>1, <2>2, <2>3, PutKeepsData DEF ReconcileArtifact, files
<1>3. CASE Place(p)
  <2>1. /\ pc[p] = "place" /\ zip' = [zip EXCEPT ![rel[p]] = sha[p]]
        /\ UNCHANGED <<artifact, newest, blob, rows, state, manifest, removed>>
    BY <1>3 DEF Place, At, db, Job, JobDisk
  <2>2. rel[p] \in Releases /\ sha[p] \in Zips /\ zip[rel[p]] = None
    BY <2>1, <1>r DEF TypeInv, JobTyped, DigestSteps, UnheldSteps, FreshSteps, Job, JobDisk
  <2>3. zip' \in [Releases -> Contents] /\ zip'[rel[p]] = sha[p]
        /\ \A r \in Releases \ {rel[p]} : zip'[r] = zip[r]
    BY <2>1, <2>2 DEF TypeInv, TypeOK, Contents
  <2>4. OnlyVerifiedZips'
    BY <2>2, <2>3, BadIsFresh DEF Data, OnlyVerifiedZips
  <2>5. RecordedDigestsOnDisk'
    BY <2>1, <2>2, <2>3, NoneIsFresh DEF Data, RecordedDigestsOnDisk, TypeInv, TypeOK
  <2> QED
    BY <2>1, <2>4, <2>5
    DEF Data, OneVerifiedReleasePerModel, NewestRow, ExtractionComplete, HasArtifact
<1>4. CASE RecordBlob(p) \/ ReconcileBlob(p)
  <2>1. /\ pc[p] \in {"blob", "rc_blob"} /\ InsertBlob(sha[p], rel[p])
        /\ UNCHANGED <<artifact, newest, zip, rows, state, manifest, removed>>
    BY <1>4 DEF RecordBlob, ReconcileBlob, At, files
  <2>2. rel[p] \in Releases /\ sha[p] \in Zips /\ (~removed => zip[rel[p]] = sha[p])
    BY <2>1, <1>r DEF TypeInv, JobTyped, DigestSteps, UnheldSteps, Job, JobDisk
  <2>3. RecordedDigestsOnDisk'
    BY <2>1, <2>2 DEF Data, RecordedDigestsOnDisk, InsertBlob, TypeInv, TypeOK
  <2> QED
    BY <2>1, <2>3
    DEF Data, OneVerifiedReleasePerModel, NewestRow, ExtractionComplete, HasArtifact,
        OnlyVerifiedZips
<1>5. CASE Unpack(p)
  <2>1. pc[p] = "x_unpack" /\ UNCHANGED <<artifact, newest, blob, zip, rows, state, removed>>
    BY <1>5 DEF Unpack, At, db
  <2>2. rel[p] \in Releases /\ newest[rel[p]] \in Releases
        /\ artifact[rel[p]][newest[rel[p]]] # None
    BY <2>1, <1>r DEF TypeInv, TypeOK, Job, JobExtract, HasArtifact, Data, NewestRow
  <2>3. \/ UNCHANGED manifest
        \/ /\ zip[newest[rel[p]]] \in Zips
           /\ manifest' = [manifest EXCEPT ![rel[p]] = zip[newest[rel[p]]]]
    BY <1>5 DEF Unpack, Verifies
  <2>4. ~removed => zip[newest[rel[p]]] = artifact[rel[p]][newest[rel[p]]]
    BY <2>2 DEF Data, RecordedDigestsOnDisk
  <2>5. ExtractionComplete'
    BY <2>1, <2>2, <2>3, <2>4, NoneIsFresh DEF Data, ExtractionComplete, HasArtifact, TypeInv, TypeOK
  <2> QED
    BY <2>1, <2>5
    DEF Data, OneVerifiedReleasePerModel, NewestRow, RecordedDigestsOnDisk, HasArtifact,
        OnlyVerifiedZips
<1>6. CASE RecordManifest(p) \/ RecordFiles(p)
  <2>1. /\ \E k \in {"manifest", "extracted_file"} : rows' = [rows EXCEPT ![rel[p]] = @ \cup {k}]
        /\ UNCHANGED <<artifact, newest, blob, zip, manifest, state, removed>>
    BY <1>6 DEF RecordManifest, RecordFiles, RecordExtraction, files
  <2>2. ExtractionComplete'
    BY <2>1 DEF Data, ExtractionComplete, HasArtifact, TypeInv, TypeOK
  <2> QED
    BY <2>1, <2>2
    DEF Data, OneVerifiedReleasePerModel, NewestRow, RecordedDigestsOnDisk, HasArtifact,
        OnlyVerifiedZips
<1>7. CASE UNCHANGED <<artifact, newest, blob, zip, manifest, rows>>
  <2>1. UNCHANGED removed
    BY StepFrame
  <2>2. SetExtracted(p) \/ \A r \in Releases : state'[r] = "EXTRACTED" => state[r] = "EXTRACTED"
    BY DEF TypeInv, TypeOK, Step, Resolving, Downloading, Reconciling, Extracting, SetState,
      Walk, WalkSteps, ReleaseState,
      Upsert, SetResolvedVersion, ReturnCatalogued, FindFinal, StartFresh, Queue, Claim, Clean,
      FetchBegin, FetchEnd, FetchBad, SetDownloaded, Verify, SetVerified, Deduplicate, Place,
      RecordBlob, RecordArtifact, SetDecrypted, Undo, MarkFailed, ReconcileBlob,
      ReconcileArtifact, ReconcileWalk, AfterDownload, ExtractStart, Unpack,
      RecordManifest, RecordFiles, RecordExtraction, SetExtracted, AppendEntry, Release, db
  <2>3. CASE SetExtracted(p)
    <3>1. /\ pc[p] = "x_state" /\ rel[p] \in Releases
          /\ \A r \in Releases \ {rel[p]} : state'[r] = state[r]
      BY <2>3, <1>r DEF SetExtracted, At, SetState, TypeInv, TypeOK, UnpackedSteps
    <3>2. ExtractionComplete'
      BY <1>7, <2>1, <3>1
      DEF Data, ExtractionComplete, HasArtifact, Job, JobExtract, UnpackedSteps, TypeInv, TypeOK
    <3> QED
      BY <1>7, <2>1, <3>2
      DEF Data, OneVerifiedReleasePerModel, NewestRow, RecordedDigestsOnDisk, HasArtifact,
          OnlyVerifiedZips
  <2> QED
    BY <1>7, <2>1, <2>2, <2>3
    DEF Data, OneVerifiedReleasePerModel, NewestRow, RecordedDigestsOnDisk, HasArtifact,
        OnlyVerifiedZips, ExtractionComplete
<1>8. \/ RecordArtifact(p) \/ ReconcileArtifact(p) \/ Place(p) \/ RecordBlob(p) \/ ReconcileBlob(p)
      \/ Unpack(p) \/ RecordManifest(p) \/ RecordFiles(p)
      \/ UNCHANGED <<artifact, newest, blob, zip, manifest, rows>>
  BY StepFrame
<1> QED
  BY <1>1, <1>2, <1>3, <1>4, <1>5, <1>6, <1>7, <1>8

(* A command starts with a selection that nobody of its model holds.         *)
LEMMA BeginSafe ==
  ASSUME SafetyInv, NEW p \in Procs, BeginSome(p)
  PROVE  SafetyInv'
<1> USE DEF SafetyInv
<1>1. PICK c \in Commands, r \in Releases, v \in Versions \cup {None},
           l \in {"upsert", "lookup", "x_start"} :
        /\ Begin(p, c, r, v, l)
        /\ l # "x_start" => ~ModelHeldByOther(r)
  BY DEF BeginSome, BeginResolving, BeginDownloadById, BeginExtract, Commands, Selectable,
         ModelHeld, ModelHeldByOther
<1>2. TypeInv'
  BY BeginTyped
<1>3. Data'
  BY <1>1 DEF Begin, db, files, Data, OneVerifiedReleasePerModel, NewestRow, HasArtifact,
         OnlyVerifiedZips, RecordedDigestsOnDisk, ExtractionComplete
<1>4. ASSUME NEW q \in Procs \ {p} PROVE Job(q)'
  <2>1. pc'[q] = "idle"
    BY <1>1, NoneIsFresh DEF TypeInv, TypeOK, Locked, Begin, Goto
  <2> QED
    BY <2>1 DEF Job, JobExclusive, JobDisk, JobExtract, AcquireSteps, UnheldSteps, FreshSteps,
         ClaimSteps, ResolveSteps, UnpackedSteps
<1>5. Job(p)'
  <2>1. pc'[p] \in {"upsert", "lookup", "x_start"} /\ rel'[p] = r /\ UNCHANGED <<db, files>>
        /\ (pc'[p] # "x_start" => ~ModelHeldByOther(r))
    BY <1>1 DEF TypeInv, TypeOK, Begin, Goto
  <2>2. JobExclusive(p)'
    BY <2>1 DEF JobExclusive, AcquireSteps, UnheldSteps, FreshSteps, ClaimSteps, ResolveSteps,
         ModelHeldByOther, HasArtifact, db
  <2> QED
    BY <2>1, <2>2 DEF Job, JobDisk, JobExtract, UnheldSteps, FreshSteps, ClaimSteps,
         UnpackedSteps
<1> QED
  BY <1>2, <1>3, <1>4, <1>5

(* Every step of a running command keeps the safety invariant.               *)
LEMMA StepSafe ==
  ASSUME SafetyInv, NEW p \in Procs, Step(p)
  PROVE  SafetyInv'
<1>1. TypeInv'
  BY StepTyped DEF SafetyInv
<1>2. ASSUME NEW q \in Procs \ {p} PROVE Job(q)'
  <2>1. pc'[q] = "idle"
    BY StepMovesOne DEF SafetyInv
  <2> QED
    BY <2>1 DEF Job, JobExclusive, JobDisk, JobExtract, AcquireSteps, UnheldSteps, FreshSteps,
         ClaimSteps, ResolveSteps, UnpackedSteps
<1>3. Job(p)'
  BY StepExclusive, StepDisk, StepExtract DEF Job
<1> QED
  BY <1>1, <1>2, <1>3, StepData DEF SafetyInv

(* A fault takes a command to its handler or its end, a kill to idle; a      *)
(* removal only makes a ZIP disappear.                                       *)
LEMMA EnvironmentSafe ==
  ASSUME SafetyInv,
         \/ \E p \in Procs : Fault(p) \/ Crash(p)
         \/ \E r \in Releases : RemoveZip(r)
  PROVE  SafetyInv'
<1> USE DEF SafetyInv
<1>1. TypeInv'
  BY EnvironmentTyped
<1>2. ASSUME NEW p \in Procs, Fault(p) \/ Crash(p) PROVE Data' /\ \A q \in Procs : Job(q)'
  <2>1. UNCHANGED <<db, files, removed>>
    BY <1>2 DEF Fault, Crash
  <2>2. Data'
    BY <2>1 DEF db, files, Data, OneVerifiedReleasePerModel, NewestRow, HasArtifact,
         OnlyVerifiedZips, RecordedDigestsOnDisk, ExtractionComplete
  <2>3. pc'[p] \in {"undo", "exit", "raise", "idle"}
    BY <1>2 DEF Fault, Crash, OnFault, Goto, TypeInv, TypeOK
  <2>4. Job(p)'
    BY <2>3 DEF Job, JobExclusive, JobDisk, JobExtract, AcquireSteps, UnheldSteps, FreshSteps,
         ClaimSteps, ResolveSteps, UnpackedSteps
  <2>5. ASSUME NEW q \in Procs \ {p} PROVE pc'[q] = "idle"
    <3>1. pc[p] # "idle" /\ pc'[q] = pc[q]
      BY <1>2 DEF Fault, Crash, Goto, TypeInv, TypeOK
    <3> QED
      BY <3>1 DEF TypeInv, Locked
  <2>6. ASSUME NEW q \in Procs \ {p} PROVE Job(q)'
    BY <2>5 DEF Job, JobExclusive, JobDisk, JobExtract, AcquireSteps, UnheldSteps, FreshSteps,
         ClaimSteps, ResolveSteps, UnpackedSteps
  <2> QED
    BY <2>2, <2>4, <2>6
<1>3. ASSUME NEW r \in Releases, RemoveZip(r) PROVE Data' /\ \A q \in Procs : Job(q)'
  <2>1. /\ removed' /\ UNCHANGED <<db, partial, manifest, pc, rel, sha, path>>
        /\ \A s \in Releases : zip'[s] = None \/ zip'[s] = zip[s]
    BY <1>3 DEF RemoveZip, procs, TypeInv, TypeOK
  <2>2. Data'
    BY <2>1, BadIsFresh DEF db, Data, OneVerifiedReleasePerModel, NewestRow, HasArtifact,
         OnlyVerifiedZips, RecordedDigestsOnDisk, ExtractionComplete
  <2>3. ASSUME NEW q \in Procs PROVE Job(q)'
    <3>1. JobExclusive(q)'
      BY <2>1 DEF Job, JobExclusive, ModelHeldByOther, HasArtifact, db
    <3>2. JobExtract(q)'
      BY <2>1 DEF Job, JobExtract, HasArtifact, db
    <3>3. pc[q] # "idle" => rel[q] \in Releases
      BY DEF TypeInv, JobTyped
    <3>4. JobDisk(q)'
      BY <2>1, <3>3 DEF Job, JobDisk, CataloguedFileExists, HasArtifact, db, FreshSteps,
           ClaimSteps, TypeInv, TypeOK
    <3> QED
      BY <3>1, <3>2, <3>4 DEF Job
  <2> QED
    BY <2>2, <2>3
<1> QED
  BY <1>1, <1>2, <1>3

(* Stuttering keeps it.                                                      *)
LEMMA StutterSafe == ASSUME SafetyInv, UNCHANGED vars PROVE SafetyInv'
<1> USE DEF SafetyInv, vars, db, files, procs
<1>1. TypeInv'
  BY NextTyped
<1>2. Data'
  BY DEF Data, OneVerifiedReleasePerModel, NewestRow, HasArtifact,
         OnlyVerifiedZips, RecordedDigestsOnDisk, ExtractionComplete
<1>3. ASSUME NEW p \in Procs PROVE Job(p)'
  BY DEF Job, JobExclusive, JobDisk, JobExtract, ModelHeldByOther, HasArtifact,
         CataloguedFileExists
<1> QED
  BY <1>1, <1>2, <1>3

(* Hence the safety invariant is inductive...                                *)
LEMMA NextSafe == SafetyInv /\ [Next]_vars => SafetyInv'
  BY BeginSafe, StepSafe, EnvironmentSafe, StutterSafe DEF Next

(* ...and holds in every reachable state.                                    *)
LEMMA AlwaysSafe == Spec => []SafetyInv
  BY InitSafe, NextSafe, PTL DEF Spec

(* The archive is exclusive: over every history of commands, kills, faults   *)
(* and removals, at most one release of a model is ever catalogued VERIFIED. *)
THEOREM Exclusive == Spec => []OneVerifiedReleasePerModel
<1>1. SafetyInv => OneVerifiedReleasePerModel
  BY DEF SafetyInv, Data
<1> QED
  BY <1>1, AlwaysSafe, PTL

(* A firmware.zip is never unverified or half written.                       *)
THEOREM FinalZipsVerified == Spec => []OnlyVerifiedZips
<1>1. SafetyInv => OnlyVerifiedZips
  BY DEF SafetyInv, Data
<1> QED
  BY <1>1, AlwaysSafe, PTL

(* Artifact and blob rows name files with the recorded digest until somebody *)
(* deletes files.                                                            *)
THEOREM DigestsTruthful == Spec => []RecordedDigestsOnDisk
<1>1. SafetyInv => RecordedDigestsOnDisk
  BY DEF SafetyInv, Data
<1> QED
  BY <1>1, AlwaysSafe, PTL

(* EXTRACTED means a verified ZIP, its manifest and all rows.                *)
THEOREM ExtractedIsComplete == Spec => []ExtractionComplete
<1>1. SafetyInv => ExtractionComplete
  BY DEF SafetyInv, Data
<1> QED
  BY <1>1, AlwaysSafe, PTL

-----------------------------------------------------------------------------
(* Only FetchBegin turns a partial file into one that is being written.      *)
LEMMA FetchStarts ==
  ASSUME SafetyInv, Next, NEW r \in Releases, StartsFetch(r)
  PROVE  \E p \in Procs : FetchBegin(p) /\ rel[p] = r
<1> USE DEF SafetyInv, TypeInv, TypeOK, StartsFetch
<1>1. ASSUME NEW p \in Procs, Step(p) PROVE FetchBegin(p) /\ rel[p] = r
  <2>1. ASSUME FetchEnd(p) PROVE FALSE
    <3>1. rel[p] \in Releases /\ full[rel[p]] \in Versions
      BY <2>1 DEF FetchEnd, At, JobTyped, RowKnown, PC, TrySteps
    <3>2. Served[rel[p]][full[rel[p]]] # Bad
      BY <3>1, ServedType, BadIsFresh
    <3> QED
      BY <2>1, <3>1, <3>2 DEF FetchEnd
  <2>2. \/ UNCHANGED partial
        \/ FetchBegin(p) \/ FetchEnd(p)
        \/ \E s \in {rel[p]} : partial' = [partial EXCEPT ![s] = None]
    BY <1>1 DEF Step, Resolving, Downloading, Reconciling, Extracting,
      Upsert, SetResolvedVersion, ReturnCatalogued, FindFinal, StartFresh, Queue, Claim, Clean,
      FetchBad, SetDownloaded, Verify, SetVerified, Deduplicate, Place,
      RecordBlob, RecordArtifact, SetDecrypted, Undo, MarkFailed, ReconcileBlob,
      ReconcileArtifact, ReconcileWalk, AfterDownload, ExtractStart, Unpack,
      RecordManifest, RecordFiles, RecordExtraction, SetExtracted, AppendEntry, Release, files
  <2>3. CASE FetchBegin(p)
    BY <2>3 DEF FetchBegin
  <2> QED
    BY <2>1, <2>2, <2>3, BadIsFresh
<1>2. ASSUME NEW p \in Procs, BeginSome(p) \/ Fault(p) \/ Crash(p) PROVE FALSE
  BY <1>2 DEF BeginSome, BeginResolving, BeginDownloadById, BeginExtract, Begin, Fault, Crash, files
<1>3. ASSUME NEW s \in Releases, RemoveZip(s) PROVE FALSE
  BY <1>3 DEF RemoveZip
<1> QED
  BY <1>1, <1>2, <1>3 DEF Next

(* The payload service is not contacted for a model of which another region  *)
(* is catalogued, nor for a release whose catalogued ZIP is there.           *)
THEOREM NeverDownloadedTwice == Spec => NoSecondDownload
<1>1. SafetyInv /\ [Next]_vars =>
        [\A r \in Releases :
          StartsFetch(r) =>
              /\ ~\E q \in Releases \ {r} : ModelOf[q] = ModelOf[r] /\ HasArtifact(q)
              /\ ~(HasArtifact(r) /\ zip[newest[r]] # None)]_vars
  <2> SUFFICES ASSUME SafetyInv, Next, NEW r \in Releases, StartsFetch(r)
               PROVE  /\ ~\E q \in Releases \ {r} : ModelOf[q] = ModelOf[r] /\ HasArtifact(q)
                      /\ ~(HasArtifact(r) /\ zip[newest[r]] # None)
    OBVIOUS
  <2>1. PICK p \in Procs : FetchBegin(p) /\ rel[p] = r
    BY FetchStarts
  <2>2. pc[p] = "fetch" /\ Job(p)
    BY <2>1 DEF FetchBegin, At, SafetyInv
  <2> QED
    BY <2>1, <2>2 DEF Job, JobExclusive, JobDisk, ModelHeldByOther, CataloguedFileExists,
         AcquireSteps, UnheldSteps, FreshSteps
<1> QED
  BY <1>1, AlwaysSafe, PTL DEF Spec, NoSecondDownload

-----------------------------------------------------------------------------
(* Acquisition implements ModelArchive: a first row is Hold, reaching        *)
(* EXTRACTED is Extract, a first catalog entry is Publish, and everything    *)
(* else, kills and removals included, is invisible.                          *)

Held      == {r \in Releases : HasArtifact(r)}
Extracted == {r \in Releases : state[r] = "EXTRACTED"}

(* EXTRACTED is terminal: set_state and the rest of the code leave it alone. *)
LEMMA StateSteps ==
  ASSUME SafetyInv, NEW p \in Procs, Step(p)
  PROVE  /\ \A r \in Releases : state[r] = "EXTRACTED" => state'[r] = "EXTRACTED"
         /\ SetExtracted(p) \/ \A r \in Releases : state'[r] = "EXTRACTED" => state[r] = "EXTRACTED"
<1> DEFINE Kept == \A r \in Releases : state[r] = "EXTRACTED" <=> state'[r] = "EXTRACTED"
<1>0. TypeOK
  BY DEF SafetyInv, TypeInv
<1>1. ASSUME NEW s \in ReleaseState, NEW l, NEW e, SetState(p, s, l, e)
      PROVE  /\ \A r \in Releases : state[r] = "EXTRACTED" => state'[r] = "EXTRACTED"
             /\ s # "EXTRACTED" => Kept
  BY <1>0, <1>1 DEF SetState, CanMove, AllowedTransitions, ReleaseState, TypeOK
<1>2. CASE Resolving(p)
  <2>1. Kept
    BY <1>0, <1>2, NoneIsFresh DEF Resolving, Upsert, SetResolvedVersion, TypeOK, ReleaseState
  <2> QED
    BY <2>1
<1>3. CASE Downloading(p)
  <2>1. CASE Queue(p) \/ Claim(p) \/ SetDownloaded(p) \/ SetVerified(p) \/ SetDecrypted(p)
              \/ MarkFailed(p)
    <3>1. UNCHANGED state \/ \E s \in ReleaseState \ {"EXTRACTED"} : \E l, e \in PC : SetState(p, s, l, e)
      BY <2>1 DEF Queue, Claim, SetDownloaded, SetVerified, SetDecrypted, MarkFailed,
           ReleaseState, PC, ClaimSteps, TrySteps, HandlerSteps
    <3> QED
      BY <1>1, <3>1
  <2>2. CASE UNCHANGED state
    BY <2>2
  <2> QED
    BY <1>3, <2>1, <2>2 DEF Downloading, ReturnCatalogued, FindFinal, StartFresh, Clean,
         FetchBegin, FetchEnd, FetchBad, Verify, Deduplicate, Place, RecordBlob,
         RecordArtifact, Undo, db
<1>4. CASE Reconciling(p)
  <2>1. CASE ReconcileWalk(p)
    <3>1. \E s \in ReleaseState \ {"EXTRACTED"} :
              \/ UNCHANGED state
              \/ state[rel[p]] # "EXTRACTED" /\ state' = [state EXCEPT ![rel[p]] = s]
      BY <2>1, WalkIs
    <3> QED
      BY <1>0, <3>1 DEF TypeOK
  <2> QED
    BY <1>4, <2>1 DEF Reconciling, ReconcileBlob, ReconcileArtifact, db
<1>5. CASE Extracting(p)
  <2>1. CASE SetExtracted(p)
    <3>1. "EXTRACTED" \in ReleaseState
      BY DEF ReleaseState
    <3> QED
      BY <1>1, <2>1, <3>1 DEF SetExtracted
  <2> QED
    BY <1>5, <2>1 DEF Extracting, AfterDownload, ExtractStart, Unpack, RecordManifest,
         RecordFiles, RecordExtraction, AppendEntry, db
<1>6. CASE Release(p)
  BY <1>6 DEF Release, db
<1> QED
  BY <1>2, <1>3, <1>4, <1>5, <1>6 DEF Step

(* A row for a model nobody else holds is Hold, or a stutter when the        *)
(* release is held already.                                                  *)
LEMMA PutHolds ==
  ASSUME SafetyInv, NEW r \in Releases, NEW q \in Releases, NEW d \in Zips,
         PutArtifact(r, q, d), ~ModelHeldByOther(r), UNCHANGED <<state, catalog>>
  PROVE  Archive!Hold(r) \/ UNCHANGED <<Held, Extracted, catalog>>
<1>1. newest' \in [Releases -> Releases \cup {None}] /\ newest'[r] # None
      /\ \A s \in Releases \ {r} : newest'[s] = newest[s]
  BY NoneIsFresh DEF SafetyInv, TypeInv, TypeOK, PutArtifact, Data, NewestRow
<1>2. Held' = Held \cup {r}
  BY <1>1 DEF Held, HasArtifact
<1>3. UNCHANGED Extracted
  BY DEF Extracted
<1>4. CASE r \in Held
  BY <1>2, <1>3, <1>4
<1>5. CASE r \notin Held
  <2>1. \A h \in Held : ModelOf[h] # ModelOf[r]
    BY <1>5 DEF Held, ModelHeldByOther
  <2> QED
    BY <1>2, <1>3, <2>1 DEF Archive!Hold, Held, Extracted
<1> QED
  BY <1>4, <1>5

(* Every step of a running command is a step of the archive, or a stutter.   *)
LEMMA StepSimulates ==
  ASSUME SafetyInv, NEW p \in Procs, Step(p)
  PROVE  Archive!Next \/ UNCHANGED <<Held, Extracted, catalog>>
<1> USE DEF SafetyInv
<1>r. pc[p] # "idle" /\ rel[p] \in Releases
  BY StepFrame DEF TypeInv, JobTyped
<1>1. CASE RecordArtifact(p)
  <2>1. pc[p] = "artifact" /\ PutArtifact(rel[p], path[p], sha[p]) /\ UNCHANGED <<state, catalog>>
    BY <1>1 DEF RecordArtifact, At, files
  <2>2. path[p] \in Releases /\ sha[p] \in Zips /\ ~ModelHeldByOther(rel[p])
    BY <2>1 DEF TypeInv, JobTyped, DigestSteps, Job, JobExclusive, AcquireSteps, UnheldSteps
  <2> QED
    BY <1>r, <2>1, <2>2, PutHolds DEF Archive!Next
<1>2. CASE ReconcileArtifact(p)
  <2>1. pc[p] = "rc_artifact" /\ PutArtifact(rel[p], rel[p], sha[p]) /\ UNCHANGED <<state, catalog>>
    BY <1>2 DEF ReconcileArtifact, At, files
  <2>2. sha[p] \in Zips /\ ~ModelHeldByOther(rel[p])
    BY <2>1 DEF TypeInv, JobTyped, DigestSteps, Job, JobExclusive, AcquireSteps, UnheldSteps
  <2> QED
    BY <1>r, <2>1, <2>2, PutHolds DEF Archive!Next
<1>3. CASE AppendEntry(p)
  <2>1. /\ pc[p] = "x_append" /\ catalog' = catalog \cup {ModelOf[rel[p]]}
        /\ UNCHANGED <<Held, Extracted>>
    BY <1>3 DEF AppendEntry, At, db, Held, Extracted, HasArtifact
  <2>2. rel[p] \in Extracted
    BY <1>r, <2>1 DEF Job, JobExtract, Extracted
  <2>3. ModelOf[rel[p]] \in Models
    BY <1>r, ModelOfType
  <2> QED
    BY <2>1, <2>2, <2>3 DEF Archive!Next, Archive!Publish, Held, Extracted
<1>4. CASE SetExtracted(p)
  <2>1. /\ pc[p] = "x_state" /\ UNCHANGED <<newest, catalog>>
        /\ UNCHANGED state \/ state' = [state EXCEPT ![rel[p]] = "EXTRACTED"]
    BY <1>4 DEF SetExtracted, At, SetState, files
  <2>2. UNCHANGED Held
    BY <2>1 DEF Held, HasArtifact
  <2>3. Extracted' = Extracted \/ Extracted' = Extracted \cup {rel[p]}
    BY <1>r, <2>1 DEF Extracted, TypeInv, TypeOK
  <2>4. rel[p] \in Held
    BY <1>r, <2>1 DEF Job, JobExtract, Held, UnpackedSteps
  <2> QED
    BY <1>r, <2>1, <2>2, <2>3, <2>4 DEF Archive!Next, Archive!Extract, Held, Extracted
<1>5. CASE UNCHANGED newest /\ UNCHANGED catalog /\ ~SetExtracted(p)
  BY <1>5, StateSteps DEF Held, Extracted, HasArtifact
<1> QED
  BY <1>1, <1>2, <1>3, <1>4, <1>5, StepFrame

(* So is every other step: beginnings, faults, kills and removals.           *)
LEMMA NextSimulates == SafetyInv /\ [Next]_vars => [Archive!Next]_(Archive!avars)
<1> SUFFICES ASSUME SafetyInv, [Next]_vars
             PROVE  Archive!Next \/ UNCHANGED <<Held, Extracted, catalog>>
  BY DEF Archive!avars, Held, Extracted
<1>1. CASE \E p \in Procs : Step(p)
  BY <1>1, StepSimulates
<1>2. CASE \/ UNCHANGED vars
           \/ \E p \in Procs : BeginSome(p) \/ Fault(p) \/ Crash(p)
           \/ \E r \in Releases : RemoveZip(r)
  <2>1. UNCHANGED <<newest, state, catalog>>
    BY <1>2 DEF vars, db, files, BeginSome, BeginResolving, BeginDownloadById, BeginExtract, Begin,
         Fault, Crash, RemoveZip
  <2> QED
    BY <2>1 DEF Held, Extracted, HasArtifact
<1> QED
  BY <1>1, <1>2 DEF Next

(* Every behaviour of the commands is a behaviour of the abstract archive:   *)
(* one verified release per model, extraction after it, publication after    *)
(* that, nothing taken back.                                                 *)
THEOREM Implementation == Spec => ImplementsArchive
<1>1. Init => Archive!Init
  BY NoneIsFresh DEF Init, Archive!Init, HasArtifact, ReleaseState
<1> QED
  BY <1>1, AlwaysSafe, NextSimulates, PTL DEF Spec, ImplementsArchive, Archive!Spec
=============================================================================

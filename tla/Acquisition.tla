----------------------------- MODULE Acquisition -----------------------------
(* How jayspray acquires a firmware release: the mutating commands (probe,    *)
(* download, sync, extract) that processes run one at a time under the        *)
(* process lock, and inside them download_release, _reconcile_existing_zip    *)
(* and extract_release, one action per database commit or file-system effect. *)
(* Between any two of them the process may be killed; any of them may raise.  *)
EXTENDS ReleaseStates

CONSTANTS
    Procs,            \* processes that run a mutating command
    Models,           \* normalized device models
    Releases,         \* (model, CSC, AP) triples Samsung's history may name
    Versions,         \* full versions that share the AP of a release
    Zips,             \* SHA-256 digests of the ZIPs that pass verify_zip
    ModelOf,          \* [Releases -> Models]
    Served,           \* [Releases -> [Versions -> Zips]]: the bytes FUS serves
    AutoExtract,      \* config.download.automatic_extract
    AppendCompleted,  \* config.metadata.append_completed
    None,             \* no row, no file, no holder
    Bad,              \* file content that verify_zip refuses
    MayCrash,         \* processes are killed
    MayFault,         \* database and file operations raise
    MayRemove         \* operators delete downloaded ZIPs

ASSUME ModelOfType  == ModelOf \in [Releases -> Models]
ASSUME ServedType   == Served \in [Releases -> [Versions -> Zips]]
ASSUME SwitchType   ==
    {AutoExtract, AppendCompleted, MayCrash, MayFault, MayRemove} \subseteq BOOLEAN
ASSUME NoneIsFresh  ==
    None \notin Procs \cup Releases \cup Versions \cup Zips \cup ReleaseState
ASSUME BadIsFresh   == Bad \notin Zips \cup {None}

VARIABLES
    (* The database, as committed. *)
    state,       \* firmware_release.state, None when there is no row
    full,        \* firmware_release.full_version
    artifact,    \* artifact[r][q]: digest of r's VERIFIED decrypted_zip row whose path is q's
    newest,      \* path of r's decrypted_zip row with the highest id
    blob,        \* binary_blob: digest -> path
    rows,        \* kinds of extraction rows catalogued for r
    (* The file system. *)
    zip,         \* r's firmware.zip
    partial,     \* r's firmware.zip.partial
    manifest,    \* source digest in r's manifest.json
    catalog,     \* models in the external metadata catalog
    (* The processes. *)
    holder,      \* who holds jayspray.lock
    pc, cmd, rel, ver, sha, path,
    (* History: an operator has deleted some ZIP. *)
    removed

db    == <<state, full, artifact, newest, blob, rows>>
files == <<zip, partial, manifest, catalog>>
local == <<cmd, rel, ver, sha, path>>
procs == <<holder, pc, cmd, rel, ver, sha, path>>
vars  == <<db, files, procs, removed>>

-----------------------------------------------------------------------------
(* Program points, named for the step that comes next.                       *)

ResolveSteps   == {"upsert", "set_version"}
ClaimSteps     == {"queue", "claim", "clean"}
TrySteps       == {"fetch", "fetching", "downloaded", "verify", "verified",
                   "place", "blob", "artifact", "decrypted"}
HandlerSteps   == {"undo", "mark"}
WalkSteps      == {"rc_queue", "rc_claim", "rc_downloaded", "rc_verified", "rc_decrypted"}
ReconcileSteps == {"rc_blob", "rc_artifact"} \cup WalkSteps
ExtractSteps   == {"x_start", "x_unpack", "x_manifest", "x_files", "x_state",
                   "x_append"}

PC == {"idle", "lookup", "done", "raise", "exit"} \cup ResolveSteps \cup ClaimSteps
        \cup TrySteps \cup HandlerSteps \cup ReconcileSteps \cup ExtractSteps

Commands == {"none", "probe", "sync", "download", "extract"}
Contents == Zips \cup {Bad, None}

-----------------------------------------------------------------------------
(* Queries.                                                                  *)

HasArtifact(r) == newest[r] # None

(* verify_zip(path): the file exists and every check passes.                 *)
Verifies(content) == content \in Zips

(* Mutant: the artifact counts only while its file is there.                 *)
ModelHeldByFile(m) ==
    \E r \in Releases : ModelOf[r] = m /\ HasArtifact(r) /\ zip[newest[r]] # None

(* model_has_verified_artifact(m), and the same with exclude_release_id.     *)
ModelHeld(m) == \E r \in Releases : ModelOf[r] = m /\ HasArtifact(r)
ModelHeldByOther(r) ==
    \E q \in Releases \ {r} : ModelOf[q] = ModelOf[r] /\ HasArtifact(q)

(* A model that _unique_target_ids_by_model leaves in the selection.         *)
Selectable(m) == m \notin catalog /\ ~ModelHeld(m)

(* find_binary_blob(digest) names a path that is still a file.               *)
BlobOnDisk(d) == blob[d] # None /\ zip[blob[d]] # None

-----------------------------------------------------------------------------
Init ==
    /\ state = [r \in Releases |-> None]
    /\ full = [r \in Releases |-> None]
    /\ artifact = [r \in Releases |-> [q \in Releases |-> None]]
    /\ newest = [r \in Releases |-> None]
    /\ blob = [z \in Zips |-> None]
    /\ rows = [r \in Releases |-> {}]
    /\ zip = [r \in Releases |-> None]
    /\ partial = [r \in Releases |-> None]
    /\ manifest = [r \in Releases |-> None]
    /\ catalog = {}
    /\ holder = None
    /\ pc = [p \in Procs |-> "idle"]
    /\ cmd = [p \in Procs |-> "none"]
    /\ rel = [p \in Procs |-> None]
    /\ ver = [p \in Procs |-> None]
    /\ sha = [p \in Procs |-> None]
    /\ path = [p \in Procs |-> None]
    /\ removed = FALSE

Goto(p, l) == pc' = [pc EXCEPT ![p] = l]

(* The step p is about to take.                                              *)
At(p, l) == pc[p] = l

(* set_state(rel[p], s), then l; a refused transition goes to refused.       *)
SetState(p, s, l, refused) ==
    IF CanMove(state[rel[p]], s)
    THEN state' = [state EXCEPT ![rel[p]] = s] /\ Goto(p, l)
    ELSE UNCHANGED state /\ Goto(p, refused)

-----------------------------------------------------------------------------
(* Commands take the process lock before they read anything. flock is        *)
(* non-blocking: without the lock a command ends with an error and changes   *)
(* nothing.                                                                  *)

(* Mutant: the command starts without the lock.                              *)
BeginUnlocked(p, c, r, v, l) ==
    /\ At(p, "idle")
    /\ holder' = p
    /\ Goto(p, l)
    /\ cmd' = [cmd EXCEPT ![p] = c]
    /\ rel' = [rel EXCEPT ![p] = r]
    /\ ver' = [ver EXCEPT ![p] = v]
    /\ UNCHANGED <<db, files, removed, sha, path>>

Begin(p, c, r, v, l) ==
    /\ At(p, "idle")
    /\ holder = None
    /\ holder' = p
    /\ Goto(p, l)
    /\ cmd' = [cmd EXCEPT ![p] = c]
    /\ rel' = [rel EXCEPT ![p] = r]
    /\ ver' = [ver EXCEPT ![p] = v]
    /\ UNCHANGED <<db, files, removed, sha, path>>

(* probe, sync and download --model/--first: a model that is neither in the  *)
(* catalog nor held is selected, and Samsung's history answers with full     *)
(* version v, whose AP names release r of that model.                        *)
BeginResolving(p, c, r, v) ==
    /\ c \in {"probe", "sync", "download"}
    /\ Selectable(ModelOf[r])
    /\ Begin(p, c, r, v, "upsert")

(* Mutant: download --id does not filter by model.                           *)
BeginDownloadUnfiltered(p, r) ==
    /\ state[r] # None
    /\ ModelOf[r] \notin catalog
    /\ Begin(p, "download", r, None, "lookup")

(* download --id: the row exists, and _filter_download_rows keeps it.        *)
BeginDownloadById(p, r) ==
    /\ state[r] # None
    /\ ModelOf[r] \notin catalog
    /\ ~ModelHeldByOther(r)
    /\ Begin(p, "download", r, None, "lookup")

BeginExtract(p, r) ==
    /\ state[r] # None
    /\ Begin(p, "extract", r, None, "x_start")

(* The command returns, or its exception ends it; the lock is released.      *)
Release(p) ==
    /\ pc[p] \in {"exit", "raise"}
    /\ holder' = IF holder = p THEN None ELSE holder
    /\ Goto(p, "idle")
    /\ cmd' = [cmd EXCEPT ![p] = "none"]
    /\ rel' = [rel EXCEPT ![p] = None]
    /\ ver' = [ver EXCEPT ![p] = None]
    /\ sha' = [sha EXCEPT ![p] = None]
    /\ path' = [path EXCEPT ![p] = None]
    /\ UNCHANGED <<db, files, removed>>

-----------------------------------------------------------------------------
(* probe(): one upsert and one set_resolved_version, separately committed.   *)

(* upsert_observation keeps a full version the row already has.              *)
Upsert(p) ==
    /\ At(p, "upsert")
    /\ LET r == rel[p] IN
        /\ state' = [state EXCEPT ![r] = IF @ = None THEN "DISCOVERED" ELSE @]
        /\ full' = [full EXCEPT ![r] = IF @ = None THEN ver[p] ELSE @]
    /\ Goto(p, "set_version")
    /\ UNCHANGED <<artifact, newest, blob, rows, files, holder, local, removed>>

(* set_resolved_version overwrites it; then the command goes on to download  *)
(* (ver is dead from here on).                                               *)
SetResolvedVersion(p) ==
    /\ At(p, "set_version")
    /\ LET r == rel[p] IN
        /\ full' = [full EXCEPT ![r] = ver[p]]
        /\ state' = [state EXCEPT ![r] = IF @ = "DISCOVERED" THEN "RESOLVED" ELSE @]
    /\ ver' = [ver EXCEPT ![p] = None]
    /\ Goto(p, IF cmd[p] = "probe" THEN "exit" ELSE "lookup")
    /\ UNCHANGED <<artifact, newest, blob, rows, files, holder, cmd, rel, sha,
                   path, removed>>

-----------------------------------------------------------------------------
(* download_release                                                          *)

(* Mutant: only the release's own firmware.zip is looked for.                *)
OwnFileExists(r) == HasArtifact(r) /\ zip[r] # None

CataloguedFileExists(r) == HasArtifact(r) /\ zip[newest[r]] # None

(* The newest VERIFIED row names a file: verify it and return its path.      *)
ReturnCatalogued(p) ==
    /\ At(p, "lookup")
    /\ CataloguedFileExists(rel[p])
    /\ Goto(p, IF Verifies(zip[newest[rel[p]]]) THEN "done" ELSE "raise")
    /\ UNCHANGED <<db, files, holder, local, removed>>

(* firmware.zip is there without a usable row: reconcile it.                 *)
FindFinal(p) ==
    /\ At(p, "lookup")
    /\ ~CataloguedFileExists(rel[p])
    /\ zip[rel[p]] # None
    /\ IF Verifies(zip[rel[p]])
       THEN Goto(p, "rc_blob") /\ sha' = [sha EXCEPT ![p] = zip[rel[p]]]
       ELSE Goto(p, "raise") /\ UNCHANGED sha
    /\ UNCHANGED <<db, files, holder, cmd, rel, ver, path, removed>>

StartFresh(p) ==
    /\ At(p, "lookup")
    /\ ~CataloguedFileExists(rel[p])
    /\ zip[rel[p]] = None
    /\ Goto(p, "queue")
    /\ UNCHANGED <<db, files, holder, local, removed>>

(* queue(): QUEUED and FAILED stay, every other state must be allowed to     *)
(* move to QUEUED; StateTransitionError here is outside the try block.       *)
Queue(p) ==
    /\ At(p, "queue")
    /\ IF state[rel[p]] \in {"QUEUED", "FAILED"}
       THEN UNCHANGED state /\ Goto(p, "claim")
       ELSE SetState(p, "QUEUED", "claim", "raise")
    /\ UNCHANGED <<full, artifact, newest, blob, rows, files, holder, local, removed>>

Claim(p) ==
    /\ At(p, "claim")
    /\ SetState(p, "DOWNLOADING", "clean", "raise")
    /\ UNCHANGED <<full, artifact, newest, blob, rows, files, holder, local, removed>>

(* final_dir.mkdir, partial_path.unlink(missing_ok=True).                    *)
Clean(p) ==
    /\ At(p, "clean")
    /\ partial' = [partial EXCEPT ![rel[p]] = None]
    /\ Goto(p, "fetch")
    /\ UNCHANGED <<db, zip, manifest, catalog, holder, local, removed>>

(* samloader starts to write the partial file...                             *)
FetchBegin(p) ==
    /\ At(p, "fetch")
    /\ partial' = [partial EXCEPT ![rel[p]] = Bad]
    /\ Goto(p, "fetching")
    /\ UNCHANGED <<db, zip, manifest, catalog, holder, local, removed>>

(* ...and completes it with what FUS serves for the release's full version.  *)
FetchEnd(p) ==
    /\ At(p, "fetching")
    /\ partial' = [partial EXCEPT ![rel[p]] = Served[rel[p]][full[rel[p]]]]
    /\ Goto(p, "downloaded")
    /\ UNCHANGED <<db, zip, manifest, catalog, holder, local, removed>>

(* It exits with an error, or reports success for a file that is no good.    *)
FetchBad(p) ==
    /\ At(p, "fetching")
    /\ \E l \in {"downloaded", "undo"} : Goto(p, l)
    /\ UNCHANGED <<db, files, holder, local, removed>>

SetDownloaded(p) ==
    /\ At(p, "downloaded")
    /\ SetState(p, "DOWNLOADED", "verify", "undo")
    /\ UNCHANGED <<full, artifact, newest, blob, rows, files, holder, local, removed>>

(* Mutant: the digest is taken, the archive is not tested.                   *)
VerifyNothing(p) ==
    /\ At(p, "verify")
    /\ Goto(p, "verified")
    /\ \E z \in Zips : sha' = [sha EXCEPT ![p] = z]
    /\ UNCHANGED <<db, files, holder, cmd, rel, ver, path, removed>>

(* verify_zip(partial) and sha256_file(partial).                             *)
Verify(p) ==
    /\ At(p, "verify")
    /\ IF Verifies(partial[rel[p]])
       THEN Goto(p, "verified") /\ sha' = [sha EXCEPT ![p] = partial[rel[p]]]
       ELSE Goto(p, "undo") /\ UNCHANGED sha
    /\ UNCHANGED <<db, files, holder, cmd, rel, ver, path, removed>>

SetVerified(p) ==
    /\ At(p, "verified")
    /\ SetState(p, "VERIFIED", "place", "undo")
    /\ UNCHANGED <<full, artifact, newest, blob, rows, files, holder, local, removed>>

(* Mutant: the duplicate is dropped, but the row names the final path.       *)
DeduplicateOwnPath(p) ==
    /\ At(p, "place")
    /\ BlobOnDisk(sha[p])
    /\ partial' = [partial EXCEPT ![rel[p]] = None]
    /\ path' = [path EXCEPT ![p] = rel[p]]
    /\ Goto(p, "artifact")
    /\ UNCHANGED <<db, zip, manifest, catalog, holder, cmd, rel, ver, sha, removed>>

(* The digest is on disk already: drop the partial file, use that path.      *)
Deduplicate(p) ==
    /\ At(p, "place")
    /\ BlobOnDisk(sha[p])
    /\ partial' = [partial EXCEPT ![rel[p]] = None]
    /\ path' = [path EXCEPT ![p] = blob[sha[p]]]
    /\ Goto(p, "artifact")
    /\ UNCHANGED <<db, zip, manifest, catalog, holder, cmd, rel, ver, sha, removed>>

(* os.replace(partial_path, final_path)                                      *)
Place(p) ==
    /\ At(p, "place")
    /\ ~BlobOnDisk(sha[p])
    /\ zip' = [zip EXCEPT ![rel[p]] = partial[rel[p]]]
    /\ partial' = [partial EXCEPT ![rel[p]] = None]
    /\ path' = [path EXCEPT ![p] = rel[p]]
    /\ Goto(p, "blob")
    /\ UNCHANGED <<db, manifest, catalog, holder, cmd, rel, ver, sha, removed>>

(* record_binary_blob: INSERT OR IGNORE, digest and path both unique.        *)
InsertBlob(d, q) ==
    blob' = IF blob[d] = None /\ \A e \in Zips : blob[e] # q
            THEN [blob EXCEPT ![d] = q] ELSE blob

RecordBlob(p) ==
    /\ At(p, "blob")
    /\ InsertBlob(sha[p], rel[p])
    /\ Goto(p, "artifact")
    /\ UNCHANGED <<state, full, artifact, newest, rows, files, holder, local, removed>>

(* Mutant: the path is stored in the column of the digest.                   *)
PutArtifactSwapped(r, q, d) ==
    /\ artifact' = [artifact EXCEPT ![r] = [@ EXCEPT ![q] = q]]
    /\ newest' = [newest EXCEPT ![r] = IF artifact[r][q] = None THEN q ELSE @]

(* record_artifact: an upsert on (release, kind, path); a new row gets the   *)
(* highest id.                                                               *)
PutArtifact(r, q, d) ==
    /\ artifact' = [artifact EXCEPT ![r] = [@ EXCEPT ![q] = d]]
    /\ newest' = [newest EXCEPT ![r] = IF artifact[r][q] = None THEN q ELSE @]

RecordArtifact(p) ==
    /\ At(p, "artifact")
    /\ PutArtifact(rel[p], path[p], sha[p])
    /\ Goto(p, "decrypted")
    /\ UNCHANGED <<state, full, blob, rows, files, holder, local, removed>>

SetDecrypted(p) ==
    /\ At(p, "decrypted")
    /\ SetState(p, "DECRYPTED", "done", "undo")
    /\ UNCHANGED <<full, artifact, newest, blob, rows, files, holder, local, removed>>

(* except Exception: unlink the partial file, mark the release FAILED, raise.*)
Undo(p) ==
    /\ At(p, "undo")
    /\ partial' = [partial EXCEPT ![rel[p]] = None]
    /\ Goto(p, "mark")
    /\ UNCHANGED <<db, zip, manifest, catalog, holder, local, removed>>

MarkFailed(p) ==
    /\ At(p, "mark")
    /\ SetState(p, "FAILED", "raise", "raise")
    /\ UNCHANGED <<full, artifact, newest, blob, rows, files, holder, local, removed>>

-----------------------------------------------------------------------------
(* _reconcile_existing_zip                                                   *)

ReconcileBlob(p) ==
    /\ At(p, "rc_blob")
    /\ InsertBlob(sha[p], rel[p])
    /\ Goto(p, "rc_artifact")
    /\ UNCHANGED <<state, full, artifact, newest, rows, files, holder, local, removed>>

ReconcileArtifact(p) ==
    /\ At(p, "rc_artifact")
    /\ PutArtifact(rel[p], rel[p], sha[p])
    /\ Goto(p, "rc_queue")
    /\ UNCHANGED <<state, full, blob, rows, files, holder, local, removed>>

(* The chain of ifs, each tested once: where the release is in a state of    *)
(* from it is set to to, and next is what follows. The first if holds two    *)
(* commits; queue leaves FAILED alone, so what it asks QUEUED of is the rest.*)
Walk ==
    [ l \in WalkSteps |->
        CASE l = "rc_queue"      -> [from |-> {"DISCOVERED", "RESOLVED"},
                                     to |-> "QUEUED", next |-> "rc_claim"]
          [] l = "rc_claim"      -> [from |-> {"QUEUED", "FAILED"},
                                     to |-> "DOWNLOADING", next |-> "rc_downloaded"]
          [] l = "rc_downloaded" -> [from |-> {"DOWNLOADING"},
                                     to |-> "DOWNLOADED", next |-> "rc_verified"]
          [] l = "rc_verified"   -> [from |-> {"DOWNLOADED"},
                                     to |-> "VERIFIED", next |-> "rc_decrypted"]
          [] l = "rc_decrypted"  -> [from |-> {"VERIFIED"},
                                     to |-> "DECRYPTED", next |-> "done"] ]

ReconcileWalk(p) ==
    /\ pc[p] \in WalkSteps
    /\ LET w == Walk[pc[p]] IN
        IF state[rel[p]] \in w.from
        THEN SetState(p, w.to, w.next, "raise")
        ELSE UNCHANGED state /\ Goto(p, w.next)
    /\ UNCHANGED <<full, artifact, newest, blob, rows, files, holder, local, removed>>

-----------------------------------------------------------------------------
(* extract_release                                                           *)

(* sync extracts right after the download when automatic_extract is set.     *)
AfterDownload(p) ==
    /\ At(p, "done")
    /\ Goto(p, IF cmd[p] = "sync" /\ AutoExtract THEN "x_start" ELSE "exit")
    /\ UNCHANGED <<db, files, holder, local, removed>>

(* Mutant: a manifest that is reused is not catalogued again.                *)
ExtractStartReuse(p) ==
    /\ At(p, "x_start")
    /\ LET r == rel[p] IN
        Goto(p, IF ~HasArtifact(r) THEN "raise"
                ELSE IF manifest[r] # None
                THEN IF manifest[r] = artifact[r][newest[r]] THEN "x_state" ELSE "raise"
                ELSE IF Verifies(zip[newest[r]]) THEN "x_unpack" ELSE "raise")
    /\ UNCHANGED <<db, files, holder, local, removed>>

(* No VERIFIED row, an archive that is gone, or a manifest of another ZIP    *)
(* raises ArchiveError.                                                      *)
ExtractStart(p) ==
    /\ At(p, "x_start")
    /\ LET r == rel[p] IN
        Goto(p, IF ~HasArtifact(r) THEN "raise"
                ELSE IF manifest[r] # None
                THEN IF manifest[r] = artifact[r][newest[r]] THEN "x_manifest" ELSE "raise"
                ELSE IF Verifies(zip[newest[r]]) THEN "x_unpack" ELSE "raise")
    /\ UNCHANGED <<db, files, holder, local, removed>>

(* extract_firmware fills a temporary directory and renames it; the manifest *)
(* holds the digest of the archive it read.                                  *)
Unpack(p) ==
    /\ At(p, "x_unpack")
    /\ IF Verifies(zip[newest[rel[p]]])
       THEN /\ manifest' = [manifest EXCEPT ![rel[p]] = zip[newest[rel[p]]]]
            /\ Goto(p, "x_manifest")
       ELSE UNCHANGED manifest /\ Goto(p, "raise")
    /\ UNCHANGED <<db, zip, partial, catalog, holder, local, removed>>

(* One row for the manifest, then the rows of the files it lists.            *)
RecordExtraction(p, here, kind, next) ==
    /\ At(p, here)
    /\ rows' = [rows EXCEPT ![rel[p]] = @ \cup {kind}]
    /\ Goto(p, next)
    /\ UNCHANGED <<state, full, artifact, newest, blob, files, holder, local, removed>>

(* Mutants: the files are not catalogued; the model is published before the  *)
(* release is EXTRACTED.                                                     *)
RecordManifestOnly(p) == RecordExtraction(p, "x_manifest", "manifest", "x_state")
RecordFilesAppend(p)  == RecordExtraction(p, "x_files", "extracted_file", "x_append")

RecordManifest(p) == RecordExtraction(p, "x_manifest", "manifest", "x_files")
RecordFiles(p)    == RecordExtraction(p, "x_files", "extracted_file", "x_state")

SetExtracted(p) ==
    /\ At(p, "x_state")
    /\ SetState(p, "EXTRACTED", IF AppendCompleted THEN "x_append" ELSE "exit", "raise")
    /\ UNCHANGED <<full, artifact, newest, blob, rows, files, holder, local, removed>>

(* append_catalog_entry: one atomic replacement, nothing when the model is   *)
(* in the catalog already.                                                   *)
AppendEntry(p) ==
    /\ At(p, "x_append")
    /\ catalog' = catalog \cup {ModelOf[rel[p]]}
    /\ Goto(p, "exit")
    /\ UNCHANGED <<db, zip, partial, manifest, holder, local, removed>>

-----------------------------------------------------------------------------
(* The environment.                                                          *)

(* A database or file operation raises. Inside the try block the handler     *)
(* runs; probe reports the target unresolved and the command goes on to end; *)
(* elsewhere, and in the handler, the exception leaves the command.          *)
OnFault(l) ==
    CASE l \in TrySteps     -> "undo"
      [] l \in ResolveSteps -> "exit"
      [] OTHER              -> "raise"

Fault(p) ==
    /\ pc[p] \notin {"idle", "done", "raise", "exit"}
    /\ MayFault
    /\ Goto(p, OnFault(pc[p]))
    /\ UNCHANGED <<db, files, holder, local, removed>>

(* The process is killed (or interrupted: KeyboardInterrupt is not an        *)
(* Exception); the kernel drops its flock.                                   *)
Crash(p) ==
    /\ pc[p] # "idle"
    /\ MayCrash
    /\ holder' = IF holder = p THEN None ELSE holder
    /\ Goto(p, "idle")
    /\ cmd' = [cmd EXCEPT ![p] = "none"]
    /\ rel' = [rel EXCEPT ![p] = None]
    /\ ver' = [ver EXCEPT ![p] = None]
    /\ sha' = [sha EXCEPT ![p] = None]
    /\ path' = [path EXCEPT ![p] = None]
    /\ UNCHANGED <<db, files, removed>>

(* An operator deletes a firmware.zip to free space.                         *)
RemoveZip(r) ==
    /\ zip[r] # None
    /\ MayRemove
    /\ removed' = TRUE
    /\ zip' = [zip EXCEPT ![r] = None]
    /\ UNCHANGED <<db, partial, manifest, catalog, procs>>

-----------------------------------------------------------------------------
Resolving(p) == Upsert(p) \/ SetResolvedVersion(p)

Downloading(p) ==
    \/ ReturnCatalogued(p) \/ FindFinal(p) \/ StartFresh(p)
    \/ Queue(p) \/ Claim(p) \/ Clean(p)
    \/ FetchBegin(p) \/ FetchEnd(p) \/ FetchBad(p)
    \/ SetDownloaded(p) \/ Verify(p) \/ SetVerified(p)
    \/ Deduplicate(p) \/ Place(p) \/ RecordBlob(p)
    \/ RecordArtifact(p) \/ SetDecrypted(p)
    \/ Undo(p) \/ MarkFailed(p)

Reconciling(p) == ReconcileBlob(p) \/ ReconcileArtifact(p) \/ ReconcileWalk(p)

Extracting(p) ==
    \/ AfterDownload(p) \/ ExtractStart(p) \/ Unpack(p) \/ RecordManifest(p)
    \/ RecordFiles(p) \/ SetExtracted(p) \/ AppendEntry(p)

(* What p does once its command runs.                                        *)
Step(p) == Resolving(p) \/ Downloading(p) \/ Reconciling(p) \/ Extracting(p) \/ Release(p)

BeginSome(p) ==
    \/ \E c \in Commands, r \in Releases, v \in Versions : BeginResolving(p, c, r, v)
    \/ \E r \in Releases : BeginDownloadById(p, r) \/ BeginExtract(p, r)

Next ==
    \/ \E p \in Procs : BeginSome(p) \/ Step(p) \/ Fault(p) \/ Crash(p)
    \/ \E r \in Releases : RemoveZip(r)

Spec == Init /\ [][Next]_vars

(* A command that runs keeps running, and the timer of packaging/systemd      *)
(* syncs every day: a model that is selectable again and again is synced.    *)
SyncModel(m) ==
    \E p \in Procs, r \in Releases, v \in Versions :
        ModelOf[r] = m /\ BeginResolving(p, "sync", r, v)

Fairness ==
    /\ \A p \in Procs : WF_vars(Step(p))
    /\ \A m \in Models : SF_vars(SyncModel(m))

FairSpec == Spec /\ Fairness

-----------------------------------------------------------------------------
(* Properties.                                                               *)

(* Every variable keeps the type of the column, file or local it models.     *)
TypeOK ==
    /\ state \in [Releases -> ReleaseState \cup {None}]
    /\ full \in [Releases -> Versions \cup {None}]
    /\ artifact \in [Releases -> [Releases -> Zips \cup {None}]]
    /\ newest \in [Releases -> Releases \cup {None}]
    /\ blob \in [Zips -> Releases \cup {None}]
    /\ rows \in [Releases -> SUBSET {"manifest", "extracted_file"}]
    /\ zip \in [Releases -> Contents]
    /\ partial \in [Releases -> Contents]
    /\ manifest \in [Releases -> Contents]
    /\ catalog \subseteq Models
    /\ holder \in Procs \cup {None}
    /\ pc \in [Procs -> PC]
    /\ cmd \in [Procs -> Commands]
    /\ rel \in [Procs -> Releases \cup {None}]
    /\ ver \in [Procs -> Versions \cup {None}]
    /\ sha \in [Procs -> Zips \cup {None}]
    /\ path \in [Procs -> Releases \cup {None}]
    /\ removed \in BOOLEAN

(* architecture.md: "A process lock prevents overlapping mutating runs": at  *)
(* most one process is inside a command, whatever was killed before.         *)
RunsDoNotOverlap ==
    \A p, q \in Procs : pc[p] # "idle" /\ pc[q] # "idle" => p = q

(* README: "a verified download remains protected from a second regional     *)
(* download": over any sequence of commands, kills and failures, at most one *)
(* release of a model ever gets a VERIFIED row.                              *)
OneVerifiedReleasePerModel ==
    \A q, r \in Releases :
        HasArtifact(q) /\ HasArtifact(r) /\ ModelOf[q] = ModelOf[r] => q = r

(* A firmware.zip is never a file that failed verification or that a killed  *)
(* download left half written.                                               *)
OnlyVerifiedZips == \A r \in Releases : zip[r] # Bad

(* As long as nobody deletes files, every VERIFIED row and every blob row    *)
(* names a file with exactly the recorded digest, deduplicated or not.       *)
RecordedDigestsOnDisk ==
    ~removed =>
        /\ \A r, q \in Releases : artifact[r][q] # None => zip[q] = artifact[r][q]
        /\ \A d \in Zips : blob[d] # None => zip[blob[d]] = d

(* An EXTRACTED release has its verified ZIP, its manifest and all its rows, *)
(* and the manifest is of that very ZIP unless files were deleted meanwhile. *)
ExtractionComplete ==
    \A r \in Releases : state[r] = "EXTRACTED" =>
        /\ HasArtifact(r)
        /\ manifest[r] # None
        /\ rows[r] = {"manifest", "extracted_file"}
        /\ ~removed => manifest[r] = artifact[r][newest[r]]

(* The payload service is contacted for a release only when no other region  *)
(* of its model is verified and its own catalogued file is not there.        *)
StartsFetch(r) == partial[r] # Bad /\ partial'[r] = Bad

NoSecondDownload ==
    [][\A r \in Releases :
          StartsFetch(r) =>
              /\ ~\E q \in Releases \ {r} : ModelOf[q] = ModelOf[r] /\ HasArtifact(q)
              /\ ~(HasArtifact(r) /\ zip[newest[r]] # None)]_vars

(* The catalogued releases, the extracted ones and the catalog of models     *)
(* behave as the archive of ModelArchive.                                    *)
Archive == INSTANCE ModelArchive WITH
    held <- {r \in Releases : HasArtifact(r)},
    extracted <- {r \in Releases : state[r] = "EXTRACTED"},
    published <- catalog

ImplementsArchive == Archive!Spec

(* Once nothing fails any more and nobody is killed, the daily sync comes to *)
(* hold a verified release of every model: whatever failed before is retried *)
(* from the state its handler left. The exception are releases a kill left   *)
(* in the middle of a download, without a ZIP (see RetryableCanBeRetried).   *)
(* (A step that the command takes by itself is no trouble, even where a kill *)
(* or a fault would have the same effect: giving the lock back at the end.)  *)
TroubleEnds ==
    <>[][\A p \in Procs : ~FetchBad(p) /\ (Crash(p) \/ Fault(p) => Step(p))]_vars

LeftBehind(r) ==
    state[r] \in {"DOWNLOADING", "DOWNLOADED", "VERIFIED"} /\ zip[r] = None

RetriesSucceed ==
    (~MayRemove /\ TroubleEnds) =>
        \A m \in Models :
            \/ <>(\E r \in Releases : ModelOf[r] = m /\ HasArtifact(r))
            \/ <>[](\E r \in Releases : ModelOf[r] = m /\ LeftBehind(r))

(* sync records a failed download with the classification RETRYABLE; then a  *)
(* retry finds a row, a file, or a state that queue() accepts.               *)
SyncFailed(p) == pc[p] = "raise" /\ cmd[p] = "sync"

RetryableCanBeRetried ==
    \A p \in Procs : SyncFailed(p) =>
        HasArtifact(rel[p]) \/ zip[rel[p]] # None \/ CanQueue(state[rel[p]])

(* commands.md: extract "extracts an already verified decrypted ZIP": once   *)
(* the ZIP is unpacked and catalogued, EXTRACTED is not refused.             *)
ExtractNotRefused ==
    \A p \in Procs : pc[p] = "x_state" => CanMove(state[rel[p]], "EXTRACTED")

(* architecture.md: "enough exact Samsung metadata to reproduce a download": *)
(* the verified ZIP of a release is what Samsung serves for the full version *)
(* on record.                                                                *)
Reproducible ==
    \A r \in Releases : HasArtifact(r) =>
        artifact[r][newest[r]] = Served[r][full[r]]
=============================================================================

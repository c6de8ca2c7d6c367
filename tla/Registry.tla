------------------------------ MODULE Registry ------------------------------
(***************************************************************************)
(* The SQLite registry: Database.migrate, the transactions of its methods  *)
(* and the rows they relate (firmware_target, firmware_release, their      *)
(* observations, binary_blob and artifact), under probe() and the          *)
(* catalogue writes of download_release.  Several processes open the file  *)
(* and migrate it at once; the process lock lets one of them inside.       *)
(* A process may be killed at any step, any statement or commit may raise. *)
(*                                                                         *)
(* A step is one statement or one commit.  disk is what is committed, seen *)
(* what the connection with the open transaction (writer) sees; tx tells   *)
(* whether transaction() began it ("explicit") or a bare statement did     *)
(* ("implicit": it waits for the next commit() of any call).               *)
(***************************************************************************)
EXTENDS Naturals, Sequences

CONSTANTS
    Procs,      \* processes that open the registry
    Targets,    \* model and region of the discovery
    Sources,    \* sources that name targets
    Answers,    \* what Samsung may answer for each target: versions
    Wanted,     \* targets that are downloaded; the others are only probed
    Versions,   \* full versions: AP, the CSC/CP part, and the data part or None
    Digests,    \* bound: SHA-256 of downloaded ZIPs
    NScripts,   \* number of migration scripts
    None,       \* SQL NULL, or nobody
    MayFault,   \* TRUE: statements and commits may raise
    MayKill     \* TRUE: processes may be killed

Scripts == 1 .. NScripts

ASSUME RegistryConstants ==
    /\ NScripts \in Nat
    /\ Answers \in [Targets -> SUBSET Versions]
    /\ \A v \in Versions : DOMAIN v = {"ap", "tail", "data"} /\ v.tail # None
    /\ None \notin Procs \cup Targets \cup Versions \cup Nat
    /\ None \notin [latest : Nat, full : Versions \cup {None}]
    /\ MayFault \in BOOLEAN
    /\ MayKill \in BOOLEAN

VARIABLES
    disk,       \* the committed tables
    seen,       \* the tables in the open transaction of writer
    tx,         \* "none", "implicit" or "explicit"
    writer,     \* the process whose connection holds SQLite's write lock
    pc,         \* next step of each process
    script,     \* the migration script each process is at
    holder,     \* who holds the process lock
    job         \* what the process inside works on

data == <<disk, seen, tx, writer>>
vars == <<data, pc, script, holder, job>>

NoTarget == [latest |-> 0, full |-> None]

(* An empty file. Releases are numbered in the order of their insertion; 0   *)
(* stands for no release.                                                    *)
Empty == [made     |-> <<>>,                                \* scripts executed
          applied  |-> {},                                  \* schema_migration
          target   |-> [t \in Targets |-> None],            \* firmware_target
          named    |-> {},                                  \* target_observation
          release  |-> <<>>,                                \* firmware_release
          observed |-> [t \in Targets |-> [v \in Versions |-> 0]],
          blob     |-> {},                                  \* binary_blob: digests
          artifact |-> {}]                                  \* artifact, VERIFIED

(* The releases with a VERIFIED row in T.                                    *)
Catalogued(T) == {a.release : a \in T.artifact}

NoJob == [target |-> None, version |-> None, release |-> 0, tried |-> FALSE,
          digest |-> None]

Init ==
    /\ disk = Empty /\ seen = Empty
    /\ tx = "none" /\ writer = None
    /\ pc = [p \in Procs |-> "off"]
    /\ script = [p \in Procs |-> 1]
    /\ holder = None /\ job = NoJob

At(p, l) == pc[p] = l
Goto(p, l) == pc' = [pc EXCEPT ![p] = l]

-----------------------------------------------------------------------------
(* Connections.                                                              *)

View(p) == IF writer = p THEN seen ELSE disk

(* transaction() is entered (BEGIN IMMEDIATE waits for the write lock), or a *)
(* bare statement begins a transaction, or either joins the one this         *)
(* connection left open; then the statement changes the tables to T.         *)
Statement(p, kind, T) ==
    /\ writer \in {None, p}
    /\ writer' = p
    /\ tx' = IF writer = p THEN tx ELSE kind
    /\ seen' = T
    /\ UNCHANGED disk

Scoped(p, T) == Statement(p, "explicit", T)
Bare(p, T) == Statement(p, "implicit", T)

Committed == disk' = seen /\ tx' = "none" /\ writer' = None /\ UNCHANGED seen
RolledBack == seen' = disk /\ tx' = "none" /\ writer' = None /\ UNCHANGED disk

(* The end of a with-block: whoever joined leaves the commit to the owner of *)
(* the transaction.                                                          *)
EndScope(p) == IF tx = "explicit" THEN Committed ELSE UNCHANGED data

(* Mutant: the method executes and returns without commit().                 *)
BareOpen(p) == UNCHANGED data

(* connection.commit() of a method without transaction().                    *)
BareCommit(p) == Committed

(* How an exception leaves the connection: transaction() rolls back what it  *)
(* began; anything else stays pending, unless SQLite itself gave it up; a    *)
(* bare statement may fail after the BEGIN that sqlite3 puts before it.      *)
AfterRaise(p, bare) ==
    \/ writer = p /\ RolledBack
    \/ writer = p /\ tx = "implicit" /\ UNCHANGED data
    \/ writer # p /\ UNCHANGED data
    \/ writer = None /\ bare /\ Bare(p, disk)

(* The with-blocks end: the lock goes, an open transaction is rolled back.   *)
Leave(p) ==
    /\ IF writer = p THEN RolledBack ELSE UNCHANGED data
    /\ IF holder = p THEN holder' = None /\ job' = NoJob ELSE UNCHANGED <<holder, job>>
    /\ Goto(p, "off")
    /\ script' = [script EXCEPT ![p] = 1]

-----------------------------------------------------------------------------
(* Opening: migrate(), before the process lock.                              *)

Open(p) ==
    /\ At(p, "off")
    /\ Goto(p, "m_check")
    /\ UNCHANGED <<data, script, holder, job>>

(* Mutant: any row of schema_migration will do.                              *)
CheckAny(p) ==
    /\ At(p, "m_check")
    /\ \/ disk.applied # {} /\ Goto(p, "ready") /\ UNCHANGED script
       \/ disk.applied = {} /\ Goto(p, "m_script") /\ script' = [script EXCEPT ![p] = 1]
    /\ UNCHANGED <<data, holder, job>>

(* SELECT 1 FROM schema_migration, outside any transaction, for one script   *)
(* after the other: the first that is missing is run next.                   *)
Check(p) ==
    /\ At(p, "m_check")
    /\ \/ /\ Scripts \subseteq disk.applied
          /\ Goto(p, "ready")
          /\ UNCHANGED script
       \/ \E i \in Scripts \ disk.applied :
          /\ 1 .. i - 1 \subseteq disk.applied
          /\ script' = [script EXCEPT ![p] = i]
          /\ Goto(p, "m_script")
    /\ UNCHANGED <<data, holder, job>>

(* The tables and columns of script i are in T.                              *)
Made(T, i) == \E k \in DOMAIN T.made : T.made[k] = i

(* Mutant: executescript(), which commits by itself.                         *)
RunScriptAlone(p) ==
    /\ At(p, "m_script")
    /\ writer = None
    /\ \/ Made(disk, script[p]) /\ Leave(p)
       \/ /\ ~Made(disk, script[p])
          /\ seen' = [disk EXCEPT !.made = Append(@, script[p])]
          /\ disk' = seen'
          /\ Goto(p, "m_record")
          /\ UNCHANGED <<tx, writer, script, holder, job>>

(* The statements of a script, in a transaction. If another process ran it   *)
(* since Check, a table or column exists already (or, for a script that can  *)
(* be repeated, the next INSERT meets its key): the exception ends p.        *)
RunScript(p) ==
    /\ At(p, "m_script")
    /\ writer = None
    /\ \/ Made(disk, script[p]) /\ Leave(p)
       \/ /\ ~Made(disk, script[p])
          /\ Scoped(p, [disk EXCEPT !.made = Append(@, script[p])])
          /\ Goto(p, "m_record")
          /\ UNCHANGED <<script, holder, job>>

RecordScript(p) ==
    /\ At(p, "m_record")
    /\ Scoped(p, [seen EXCEPT !.applied = @ \cup {script[p]}])
    /\ Goto(p, "m_commit")
    /\ UNCHANGED <<script, holder, job>>

CommitScript(p) ==
    /\ At(p, "m_commit")
    /\ EndScope(p)
    /\ Goto(p, "m_check")
    /\ script' = [script EXCEPT ![p] = 1]
    /\ UNCHANGED <<holder, job>>

(* The process lock, taken once the registry is open; another holder ends p. *)
Lock(p) ==
    /\ At(p, "ready")
    /\ \/ /\ holder = None
          /\ holder' = p /\ Goto(p, "select")
          /\ UNCHANGED <<data, script, job>>
       \/ holder # None /\ Leave(p)

Close(p) == pc[p] \in {"close", "select"} /\ Leave(p)

Kill(p) == MayKill /\ pc[p] # "off" /\ Leave(p)

-----------------------------------------------------------------------------
(* upsert_target_observation: discover, or download --model.                 *)

NameTarget(p) ==
    /\ At(p, "select")
    /\ \E t \in Targets :
        /\ Scoped(p, [View(p) EXCEPT !.target[t] = IF @ = None THEN NoTarget ELSE @])
        /\ job' = [job EXCEPT !.target = t]
    /\ Goto(p, "n_observed")
    /\ UNCHANGED <<script, holder>>

NameObserved(p) ==
    /\ At(p, "n_observed")
    /\ \E s \in Sources :
        Scoped(p, [seen EXCEPT !.named = @ \cup {<<s, job.target>>}])
    /\ Goto(p, "n_commit")
    /\ UNCHANGED <<script, holder, job>>

NameCommit(p) ==
    /\ At(p, "n_commit")
    /\ EndScope(p)
    /\ job' = NoJob
    /\ Goto(p, "select")
    /\ UNCHANGED <<script, holder>>

-----------------------------------------------------------------------------
(* probe(): one target.                                                      *)

(* The backend answers with a full version of three parts or more...         *)
Answer(p) ==
    /\ At(p, "select")
    /\ \E t \in Targets, v \in Versions :
        /\ View(p).target[t] # None
        /\ v \in Answers[t]
        /\ job' = [NoJob EXCEPT !.target = t, !.version = v]
    /\ Goto(p, "u_release")
    /\ UNCHANGED <<data, script, holder>>

(* ... or fails, or with less than AP, CSC and CP.                           *)
NoAnswer(p) ==
    /\ At(p, "select")
    /\ \E t \in Targets :
        /\ View(p).target[t] # None
        /\ job' = [NoJob EXCEPT !.target = t]
    /\ Goto(p, "e_row")
    /\ UNCHANGED <<data, script, holder>>

(* Mutant: releases looked up by their AP version alone.                     *)
FoundByAp(T, t, v) == {i \in DOMAIN T.release : T.release[i].ap = v.ap}

(* The release an observation belongs to: that of the same record, else the  *)
(* row with its model, region and AP. The keys are a hash of these three, so *)
(* the lookups by strong and weak key find no other row.                     *)
Found(T, t, v) ==
    IF T.observed[t][v] # 0
    THEN {T.observed[t][v]}
    ELSE {i \in DOMAIN T.release : T.release[i].target = t /\ T.release[i].ap = v.ap}

Or(a, b) == IF a # None THEN a ELSE b

(* _merge_release: what a row has is kept, what it lacks is filled in.       *)
Merged(r, v) ==
    [r EXCEPT !.full = Or(@, v), !.tail = Or(@, v.tail), !.data = Or(@, v.data)]

(* Mutant: a state column without its default.                               *)
InsertedStateless(t, v) ==
    [target |-> t, ap |-> v.ap, full |-> v, tail |-> v.tail, data |-> v.data, state |-> None]

(* _insert_release                                                           *)
Inserted(t, v) ==
    [target |-> t, ap |-> v.ap, full |-> v, tail |-> v.tail, data |-> v.data,
     state |-> "DISCOVERED"]

(* Mutant: the row is committed before its observation is recorded.          *)
UpsertReleaseAlone(p) ==
    /\ At(p, "u_release")
    /\ LET F == Found(disk, job.target, job.version)
       IN  /\ F = {}
           /\ disk' = [disk EXCEPT !.release = Append(@, Inserted(job.target, job.version))]
           /\ job' = [job EXCEPT !.release = Len(disk.release) + 1]
    /\ seen' = disk'
    /\ Goto(p, "u_observed")
    /\ UNCHANGED <<tx, writer, script, holder>>

(* upsert_observation, first statement.                                      *)
UpsertRelease(p) ==
    /\ At(p, "u_release")
    /\ LET T == View(p)
           F == Found(T, job.target, job.version)
       IN  IF F = {}
           THEN /\ Scoped(p, [T EXCEPT !.release = Append(@, Inserted(job.target, job.version))])
                /\ job' = [job EXCEPT !.release = Len(T.release) + 1]
           ELSE \E i \in F :
                /\ Scoped(p, [T EXCEPT !.release[i] = Merged(@, job.version)])
                /\ job' = [job EXCEPT !.release = i]
    /\ Goto(p, "u_observed")
    /\ UNCHANGED <<script, holder>>

(* upsert_observation, second statement: an observation keeps its release.   *)
UpsertObserved(p) ==
    /\ At(p, "u_observed")
    /\ Scoped(p, [seen EXCEPT !.observed[job.target][job.version] =
                      IF @ = 0 THEN job.release ELSE @])
    /\ Goto(p, "u_commit")
    /\ UNCHANGED <<script, holder, job>>

(* Mutant: the target is pointed at the release before it is resolved.       *)
UpsertCommitEarly(p) ==
    /\ At(p, "u_commit")
    /\ EndScope(p)
    /\ Goto(p, "t_row")
    /\ UNCHANGED <<script, holder, job>>

UpsertCommit(p) ==
    /\ At(p, "u_commit")
    /\ EndScope(p)
    /\ Goto(p, "v_columns")
    /\ UNCHANGED <<script, holder, job>>

(* Mutant: the component columns are left to the next merge.                 *)
ResolvedFull(r, v) == [r EXCEPT !.full = v]

(* set_resolved_version, first statement; a version without data part leaves *)
(* the data version of an earlier one.                                       *)
ResolvedRow(r, v) ==
    [r EXCEPT !.full = v, !.tail = v.tail, !.data = Or(v.data, @)]

SetColumns(p) ==
    /\ At(p, "v_columns")
    /\ Scoped(p, [View(p) EXCEPT !.release[job.release] = ResolvedRow(@, job.version)])
    /\ Goto(p, "v_state")
    /\ UNCHANGED <<script, holder, job>>

SetResolved(p) ==
    /\ At(p, "v_state")
    /\ Scoped(p, [seen EXCEPT !.release[job.release].state =
                      IF @ = "DISCOVERED" THEN "RESOLVED" ELSE @])
    /\ Goto(p, "v_commit")
    /\ UNCHANGED <<script, holder, job>>

ResolvedCommit(p) ==
    /\ At(p, "v_commit")
    /\ EndScope(p)
    /\ Goto(p, "t_row")
    /\ UNCHANGED <<script, holder, job>>

(* set_target_resolution of a resolved target.                               *)
TargetRow(p) ==
    /\ At(p, "t_row")
    /\ Bare(p, [View(p) EXCEPT !.target[job.target] =
                    [latest |-> job.release, full |-> job.version]])
    /\ Goto(p, "t_commit")
    /\ UNCHANGED <<script, holder, job>>

(* ... and the ProbeResult: the command goes on to the next target or to the *)
(* download.                                                                 *)
TargetCommit(p) ==
    /\ At(p, "t_commit")
    /\ BareCommit(p)
    /\ \/ Goto(p, "select") /\ job' = NoJob
       \/ /\ job.target \in Wanted
          /\ Goto(p, "d_start")
          /\ job' = [NoJob EXCEPT !.release = job.release]
    /\ UNCHANGED <<script, holder>>

(* Mutant: without COALESCE.                                                 *)
Unresolved(row) == NoTarget

(* set_target_resolution of the handler: COALESCE keeps what was resolved    *)
(* (last_error is left out).                                                 *)
KeptResolution(row) == row

ErrorRow(p) ==
    /\ At(p, "e_row")
    /\ Bare(p, [View(p) EXCEPT !.target[job.target] = KeptResolution(@)])
    /\ Goto(p, "e_commit")
    /\ UNCHANGED <<script, holder, job>>

ErrorCommit(p) ==
    /\ At(p, "e_commit")
    /\ BareCommit(p)
    /\ job' = NoJob
    /\ Goto(p, "select")
    /\ UNCHANGED <<script, holder>>

-----------------------------------------------------------------------------
(* The catalogue writes at the end of download_release; Acquisition has what *)
(* comes before them, and takes each call as one step.                       *)

Done(p) == Goto(p, "select") /\ job' = NoJob

Row(p) == View(p).release[job.release]

(* The row and the file are there already.                                   *)
ReturnCatalogued(p) ==
    /\ At(p, "d_start")
    /\ job.release \in Catalogued(View(p))
    /\ Done(p)
    /\ UNCHANGED <<data, script, holder>>

(* The download up to set_state(VERIFIED), inside the try block: a ZIP of    *)
(* any digest, another release's too.                                        *)
Fetch(p) ==
    /\ At(p, "d_start")
    /\ job.release \notin Catalogued(View(p))
    /\ Row(p).state \in {"RESOLVED", "FAILED"}
    /\ writer = None
    /\ disk' = [disk EXCEPT !.release[job.release].state = "VERIFIED"]
    /\ seen' = disk'
    /\ \E g \in Digests : job' = [job EXCEPT !.tried = TRUE, !.digest = g]
    /\ Goto(p, "d_blob")
    /\ UNCHANGED <<tx, writer, script, holder>>

(* A firmware.zip without a row: reconciled, outside the try block.          *)
FindFinal(p) ==
    /\ At(p, "d_start")
    /\ job.release \notin Catalogued(View(p))
    /\ \E g \in Digests : job' = [job EXCEPT !.digest = g]
    /\ Goto(p, "d_blob")
    /\ UNCHANGED <<data, script, holder>>

(* Back in the command: sync records the failure, download ends.             *)
AfterDownload == {"h_failure", "close"}

(* queue() refuses what a killed download left.                              *)
Refused(p) ==
    /\ At(p, "d_start")
    /\ job.release \notin Catalogued(View(p))
    /\ Row(p).state = "VERIFIED"
    /\ \E l \in AfterDownload : Goto(p, l)
    /\ UNCHANGED <<data, script, holder, job>>

(* find_binary_blob knows the digest of the downloaded ZIP, and the file it  *)
(* names is there: the artifact row will name that file.                     *)
Deduplicate(p) ==
    /\ At(p, "d_blob")
    /\ job.tried
    /\ job.digest \in View(p).blob
    /\ Goto(p, "d_artifact")
    /\ UNCHANGED <<data, script, holder, job>>

(* The ZIP is put in place; INSERT OR IGNORE of its digest.                  *)
RecordBlob(p) ==
    /\ At(p, "d_blob")
    /\ Bare(p, [View(p) EXCEPT !.blob = @ \cup {job.digest}])
    /\ Goto(p, "d_blob_commit")
    /\ UNCHANGED <<script, holder, job>>

BlobCommit(p) ==
    /\ At(p, "d_blob_commit")
    /\ BareCommit(p)
    /\ Goto(p, "d_artifact")
    /\ UNCHANGED <<script, holder, job>>

RecordArtifact(p) ==
    /\ At(p, "d_artifact")
    /\ Bare(p, [View(p) EXCEPT !.artifact =
                    @ \cup {[release |-> job.release, sha256 |-> job.digest]}])
    /\ Goto(p, "d_artifact_commit")
    /\ UNCHANGED <<script, holder, job>>

ArtifactCommit(p) ==
    /\ At(p, "d_artifact_commit")
    /\ BareCommit(p)
    /\ Goto(p, "d_state")
    /\ UNCHANGED <<script, holder, job>>

(* set_state(DECRYPTED), or the walk of a reconciliation up to it.           *)
SetDecrypted(p) ==
    /\ At(p, "d_state")
    /\ Scoped(p, [View(p) EXCEPT !.release[job.release].state = "DECRYPTED"])
    /\ Goto(p, "d_state_commit")
    /\ UNCHANGED <<script, holder, job>>

DecryptedCommit(p) ==
    /\ At(p, "d_state_commit")
    /\ EndScope(p)
    /\ Done(p)
    /\ UNCHANGED <<script, holder>>

(* set_state(FAILED) of the handler: it joins a transaction that a failed    *)
(* commit left open.                                                         *)
SetFailed(p) ==
    /\ At(p, "h_state")
    /\ Scoped(p, [View(p) EXCEPT !.release[job.release].state = "FAILED"])
    /\ Goto(p, "h_state_commit")
    /\ UNCHANGED <<script, holder, job>>

FailedCommit(p) ==
    /\ At(p, "h_state_commit")
    /\ EndScope(p)
    /\ \E l \in AfterDownload : Goto(p, l)
    /\ UNCHANGED <<script, holder, job>>

(* record_failure: its commit takes along what is pending (its own row is    *)
(* left out).                                                                *)
RecordFailure(p) ==
    /\ At(p, "h_failure")
    /\ Bare(p, View(p))
    /\ Goto(p, "h_failure_commit")
    /\ UNCHANGED <<script, holder, job>>

FailureCommit(p) ==
    /\ At(p, "h_failure_commit")
    /\ BareCommit(p)
    /\ Goto(p, "close")
    /\ UNCHANGED <<script, holder, job>>

-----------------------------------------------------------------------------
(* Exceptions.                                                               *)

Migrating == {"m_check", "m_script", "m_record", "m_commit"}
Naming == {"n_observed", "n_commit"}
Resolving == {"u_release", "u_observed", "u_commit", "v_columns", "v_state", "v_commit",
              "t_row", "t_commit"}
Erring == {"e_row", "e_commit"}
Cataloguing == {"d_blob", "d_blob_commit", "d_artifact", "d_artifact_commit", "d_state",
                "d_state_commit"}
Handling == {"h_state", "h_state_commit"}
Recording == {"h_failure", "h_failure_commit"}

BareStatements == {"t_row", "e_row", "d_blob", "d_artifact", "h_failure"}
ScopeEnds == {"m_commit", "n_commit", "u_commit", "v_commit", "d_state_commit",
              "h_state_commit"}

(* Mutant: what record_artifact raises is suppressed.                        *)
HandlersSuppress(p) ==
    CASE pc[p] \in Resolving -> {"e_row"}
      [] pc[p] = "d_artifact" -> {"d_state"}
      [] OTHER -> {}

(* Who catches it: probe's handler, that of download_release, or sync.       *)
Handlers(p) ==
    CASE pc[p] \in Resolving -> {"e_row"}
      [] pc[p] \in Cataloguing /\ job.tried -> {"h_state"}
      [] pc[p] \in Cataloguing /\ ~job.tried -> {"h_failure"}
      [] pc[p] \in Handling -> {"h_failure"}
      [] OTHER -> {}

(* Only these are always caught: what reaches download ends it.              *)
Caught(p) == pc[p] \in Resolving \/ (pc[p] \in Cataloguing /\ job.tried)

(* The exception is handled: what was pending may stay open.                 *)
Handle(p) ==
    /\ AfterRaise(p, pc[p] \in BareStatements)
    /\ \E l \in Handlers(p) : Goto(p, l)
    /\ UNCHANGED <<script, holder, job>>

(* A statement or a commit raises; a joined scope has no commit to raise.    *)
(* An exception that nobody handles ends the process.                        *)
Raise(p) ==
    /\ MayFault
    /\ pc[p] \in Migrating \cup Naming \cup Resolving \cup Erring
                  \cup Cataloguing \cup Handling \cup Recording
    /\ ~(pc[p] \in ScopeEnds /\ writer = p /\ tx = "implicit")
    /\ Handle(p) \/ (~Caught(p) /\ Leave(p))

-----------------------------------------------------------------------------
Migrate(p) == Check(p) \/ RunScript(p) \/ RecordScript(p) \/ CommitScript(p)

Resolve(p) ==
    \/ UpsertRelease(p) \/ UpsertObserved(p) \/ UpsertCommit(p)
    \/ SetColumns(p) \/ SetResolved(p) \/ ResolvedCommit(p)
    \/ TargetRow(p) \/ TargetCommit(p) \/ ErrorRow(p) \/ ErrorCommit(p)

Catalogue(p) ==
    \/ ReturnCatalogued(p) \/ Fetch(p) \/ FindFinal(p) \/ Refused(p)
    \/ Deduplicate(p) \/ RecordBlob(p) \/ BlobCommit(p) \/ RecordArtifact(p) \/ ArtifactCommit(p)
    \/ SetDecrypted(p) \/ DecryptedCommit(p)
    \/ SetFailed(p) \/ FailedCommit(p) \/ RecordFailure(p) \/ FailureCommit(p)

Begin(p) == NameTarget(p) \/ Answer(p) \/ NoAnswer(p)

Step(p) ==
    \/ Migrate(p) \/ Lock(p) \/ NameObserved(p) \/ NameCommit(p)
    \/ Resolve(p) \/ Catalogue(p) \/ Close(p)

Next == \E p \in Procs : Open(p) \/ Begin(p) \/ Step(p) \/ Raise(p) \/ Kill(p)

Spec == Init /\ [][Next]_vars

(* A process that is not killed keeps running; SQLite's busy timeout (db.py  *)
(* 57) lets it wait for another's transaction.                               *)
FairSpec == Spec /\ \A p \in Procs : WF_vars(Step(p))

-----------------------------------------------------------------------------
(* Properties.                                                               *)

States == {"DISCOVERED", "RESOLVED", "VERIFIED", "DECRYPTED", "FAILED"}

RowType == [target : Targets, ap : {v.ap : v \in Versions}, full : Versions,
            tail : {v.tail : v \in Versions},
            data : {v.data : v \in Versions} \cup {None}, state : States]

TargetType == [latest : Nat, full : Versions \cup {None}]

TableType == [made : Seq(Scripts), applied : SUBSET Scripts,
              target : [Targets -> TargetType \cup {None}],
              named : SUBSET (Sources \X Targets), release : Seq(RowType),
              observed : [Targets -> [Versions -> Nat]],
              blob : SUBSET Digests,
              artifact : SUBSET [release : Nat, sha256 : Digests]]

Locations == {"off", "ready", "select", "d_start", "close"} \cup Migrating \cup Naming
                \cup Resolving \cup Erring \cup Cataloguing \cup Handling \cup Recording

(* Every table, register and lock keeps its type.                            *)
TypeOK ==
    /\ disk \in TableType
    /\ seen \in TableType
    /\ tx \in {"none", "implicit", "explicit"}
    /\ writer \in Procs \cup {None}
    /\ pc \in [Procs -> Locations]
    /\ script \in [Procs -> Nat]
    /\ holder \in Procs \cup {None}
    /\ job \in [target : Targets \cup {None}, version : Versions \cup {None},
                release : Nat, tried : BOOLEAN, digest : Digests \cup {None}]

(* However many processes migrate at once and wherever they are killed, the  *)
(* scripts run in order, each once, and schema_migration lists exactly those *)
(* that ran.                                                                 *)
MigrationsApplyOnce ==
    /\ disk.made = [i \in 1 .. Len(disk.made) |-> i]
    /\ disk.applied = 1 .. Len(disk.made)

(* A process past migrate() works on the full schema.                        *)
OpenedOnFullSchema ==
    \A p \in Procs :
        pc[p] \notin {"off", "close"} \cup Migrating => disk.applied = Scripts

(* architecture.md: an official release is a model, a region and an AP: two  *)
(* rows are never of the same, and every observation is of the release with  *)
(* its own model, region and AP. (A violation of the unique index would      *)
(* raise in the code; here it would show.)                                   *)
ReleasesAreCanonical ==
    /\ \A i, j \in DOMAIN disk.release :
          disk.release[i].target = disk.release[j].target
              /\ disk.release[i].ap = disk.release[j].ap => i = j
    /\ \A t \in Targets, v \in Versions :
          disk.observed[t][v] # 0 =>
              /\ disk.observed[t][v] \in DOMAIN disk.release
              /\ disk.release[disk.observed[t][v]].target = t
              /\ disk.release[disk.observed[t][v]].ap = v.ap

(* "Source observations remain separate and retain provenance": every        *)
(* release on disk, and the very version it claims, was observed.            *)
EveryReleaseObserved ==
    \A i \in DOMAIN disk.release :
        disk.observed[disk.release[i].target][disk.release[i].full] = i

(* "the exact AP/CSC/CP tuple returned by Samsung": the component columns    *)
(* are the parts of full_version, though two calls write them and merges     *)
(* keep some columns; only if full_version has no data part may the column   *)
(* be another version's, an older or a newer one's.                          *)
ColumnsAgree ==
    \A i \in DOMAIN disk.release :
        LET r == disk.release[i] IN
        /\ r.ap = r.full.ap
        /\ r.tail = r.full.tail
        /\ r.full.data # None => r.data = r.full.data

(* The latest release of a target is a resolved one, of this very target     *)
(* and of the AP of its latest full version.                                 *)
TargetsPointHome ==
    \A t \in Targets :
        disk.target[t] # None /\ disk.target[t].latest # 0 =>
            /\ disk.target[t].latest \in DOMAIN disk.release
            /\ disk.target[t].full # None
            /\ LET r == disk.release[disk.target[t].latest] IN
               r.target = t /\ r.ap = disk.target[t].full.ap /\ r.state # "DISCOVERED"

(* What probe() reports as resolved is on disk then, all of it: no call has  *)
(* left its commit to one that may never come.                               *)
Reports(p) == pc[p] = "t_commit" /\ pc'[p] \in {"select", "d_start"}

ReportedIsStored ==
    [][\A p \in Procs : Reports(p) =>
          /\ disk'.target[job.target] = [latest |-> job.release, full |-> job.version]
          /\ disk'.observed[job.target][job.version] = job.release
          /\ disk'.release[job.release].full = job.version
          /\ disk'.release[job.release].state # "DISCOVERED"]_vars

(* The catalogue rows of a release appear in their order, even if a commit   *)
(* raised and a later one took its rows along: no DECRYPTED without the      *)
(* VERIFIED row, no such row without the binary_blob of its digest.          *)
CataloguedInOrder ==
    /\ \A i \in DOMAIN disk.release :
          disk.release[i].state = "DECRYPTED" => i \in Catalogued(disk)
    /\ \A a \in disk.artifact : a.sha256 \in disk.blob

(* No commit takes back what another wrote: releases keep their identity,    *)
(* observations their release, targets their names and a latest release.     *)
NothingForgotten ==
    [][/\ \A i \in DOMAIN disk.release :
             /\ i \in DOMAIN disk'.release
             /\ disk'.release[i].target = disk.release[i].target
             /\ disk'.release[i].ap = disk.release[i].ap
       /\ \A t \in Targets, v \in Versions :
             disk.observed[t][v] # 0 => disk'.observed[t][v] = disk.observed[t][v]
       /\ \A t \in Targets :
             disk.target[t] # None =>
                 /\ disk'.target[t] # None
                 /\ disk.target[t].latest # 0 => disk'.target[t].latest # 0
       /\ disk.named \subseteq disk'.named
       /\ disk.artifact \subseteq disk'.artifact]_vars

(* Losing the race for a script costs a process its command, not the         *)
(* registry: who is started again and again gets past migrate(), once it is  *)
(* not interrupted there by anything else.                                   *)
Interrupted(p) ==
    /\ pc[p] \in Migrating /\ pc'[p] = "off"
    /\ ~(pc[p] = "m_script" /\ Made(disk, script[p]))

RestartsGetIn ==
    \A p \in Procs :
        (<>[][~Interrupted(p)]_vars /\ []<>(pc[p] = "m_check")) => []<>(pc[p] = "ready")
=============================================================================

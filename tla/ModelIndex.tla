------------------------------ MODULE ModelIndex ------------------------------
(* The external metadata catalog and its model indexes                        *)
(* (jayspray.metadata_index). The catalog is one file that several            *)
(* installations, each with a database of its own, and an editor jayspray     *)
(* knows nothing of may share. An installation, one operation at a time       *)
(* under its process lock, refreshes its index of the file before it selects  *)
(* models, and refreshes it and appends a model it has extracted by writing a *)
(* copy and renaming it over the file. Offsets and sizes count entries.       *)
EXTENDS Naturals, Sequences, SequencesExt

CONSTANTS
    Installs,      \* installations: a database and a configuration
    Appenders,     \* those with metadata.append_completed
    Models,        \* normalized device models
    Inodes,        \* inode numbers of the catalog's file system
    Reuse,         \* a freed inode number may be given to a new file
    Texts,         \* sequences of models an editor may write
    Edits,         \* what an editor does: grow, truncate, overwrite, replace
    Overlap,       \* entries before the indexed offset that are read again
    MaxEdits,      \* bound: edits in a behaviour
    MayCrash,      \* jayspray is killed, or an operation raises
    None

ASSUME AppendersType == Appenders \subseteq Installs
ASSUME TextsType     == Texts \subseteq Seq(Models)
ASSUME EditsType     == Edits \subseteq {"grow", "truncate", "overwrite", "replace"}
ASSUME BoundsType    == Overlap \in Nat /\ MaxEdits \in Nat
ASSUME FlagsType     == {Reuse, MayCrash} \subseteq BOOLEAN

(* A row of external_metadata_state: what identifies the file, and how far   *)
(* it is indexed.                                                            *)
Fingerprint == [ino : Inodes, stamp : Nat, offset : Nat]

ASSUME NoneFresh     == None \notin Installs \cup Models \cup Inodes \cup Fingerprint

VARIABLES
    (* The file system. *)
    name,       \* inode the catalog's path names
    body,       \* models listed in the file, in order
    whole,      \* the file is a complete JSON object
    stamp,      \* its st_mtime_ns
    clock, born, \* time of the latest write; inode numbers used, unless Reuse
    flock,      \* holder of the exclusive lock on an inode
    (* The databases. *)
    indexed,    \* external_metadata_model: models
    known,      \* external_metadata_state: inode, mtime, indexed_offset
    (* The operation of an installation. *)
    pc, model, fd, tmp,
    at,         \* position of the scan; size when the lock was taken
    seen,       \* models in the batch
    rebuild,    \* refresh's rebuild
    opened,     \* the descriptor's first fstat, the replacement's fstat
    edits       \* number of edits so far

disk  == <<name, body, whole, stamp, clock, born>>
dbs   == <<indexed, known>>
regs  == <<model, fd, tmp, at, seen, rebuild, opened>>
ivars == <<disk, flock, dbs, pc, regs, edits>>

RefreshSteps == {"r_ensure", "r_init", "r_open", "r_read", "r_commit"}
AppendSteps  == {"a_open", "a_lock", "a_scan", "a_bounds", "a_copy", "a_check",
                 "a_replace", "a_reopen", "a_mark"}
IPC == {"idle", "select"} \cup RefreshSteps \cup AppendSteps

Listed(n) == {body[n][k] : k \in 1..Len(body[n])}

Init ==
    /\ name \in Inodes \cup {None}
    /\ \E t \in Texts : body = [n \in Inodes |-> IF n = name THEN t ELSE <<>>]
    /\ whole = [n \in Inodes |-> n = name]
    /\ stamp = [n \in Inodes |-> 0]
    /\ clock = 0
    /\ born = IF Reuse THEN {} ELSE {name} \cap Inodes
    /\ flock = [n \in Inodes |-> None]
    /\ indexed = [i \in Installs |-> {}]
    /\ known = [i \in Installs |-> None]
    /\ pc = [i \in Installs |-> "idle"]
    /\ model = [i \in Installs |-> None]
    /\ fd = [i \in Installs |-> None]
    /\ tmp = [i \in Installs |-> None]
    /\ at = [i \in Installs |-> 0]
    /\ seen = [i \in Installs |-> {}]
    /\ rebuild = [i \in Installs |-> FALSE]
    /\ opened = [i \in Installs |-> None]
    /\ edits = 0

Goto(i, l) == pc' = [pc EXCEPT ![i] = l]

(* fstat: the parts of it that are compared later.                           *)
Stat(n) == [ino |-> n, stamp |-> stamp[n], offset |-> Len(body[n])]

(* Inodes that are neither named nor open are gone; their numbers may be     *)
(* given to a new file.                                                      *)
Unused == Inodes \ ({name} \cup {fd[i] : i \in Installs} \cup {tmp[i] : i \in Installs})
Free == IF Reuse THEN Unused ELSE Unused \ born

(* Text t is written to inode n; the clock moves when the path shows it.     *)
WriteTo(n, t, complete) ==
    /\ body' = [k \in Inodes |-> IF k = n THEN t ELSE IF k \in Unused THEN <<>> ELSE body[k]]
    /\ whole' = [k \in Inodes |-> IF k = n THEN complete ELSE k \notin Unused /\ whole[k]]
    /\ stamp' = [k \in Inodes |-> IF k = n THEN clock + 1 ELSE IF k \in Unused THEN 0 ELSE stamp[k]]
    /\ born' = IF Reuse THEN born ELSE born \cup {n}

Write(n, t, complete) == WriteTo(n, t, complete) /\ clock' = clock + 1

(* The operation ends: descriptors are closed, which drops the flock, and    *)
(* the temporary file, if any, is unlinked.                                  *)
End(i) ==
    /\ Goto(i, "idle")
    /\ flock' = [n \in Inodes |-> IF flock[n] = i THEN None ELSE flock[n]]
    /\ fd' = [fd EXCEPT ![i] = None]
    /\ tmp' = [tmp EXCEPT ![i] = None]
    /\ model' = [model EXCEPT ![i] = None]
    /\ at' = [at EXCEPT ![i] = 0]
    /\ seen' = [seen EXCEPT ![i] = {}]
    /\ rebuild' = [rebuild EXCEPT ![i] = FALSE]

-----------------------------------------------------------------------------
(* _ensure_file, at the head of both operations (an append has refreshed, so *)
(* there it finds the file).                                                 *)

EnsureFile(i) ==
    /\ pc[i] = "r_ensure"
    /\ \/ /\ name # None
          /\ Goto(i, "r_open")
          /\ UNCHANGED <<disk, flock, dbs, regs, edits>>
       \/ /\ name = None /\ i \notin Appenders
          /\ End(i)
          /\ UNCHANGED <<disk, dbs, opened, edits>>
       \/ /\ name = None /\ i \in Appenders
          /\ \E n \in Free :
                /\ name' = n
                /\ Write(n, <<>>, FALSE)
                /\ fd' = [fd EXCEPT ![i] = n]
          /\ Goto(i, "r_init")
          /\ UNCHANGED <<flock, dbs, model, tmp, at, seen, rebuild, opened, edits>>

(* os.write(descriptor, b"{}\n").                                            *)
WriteBraces(i) ==
    /\ pc[i] = "r_init"
    /\ Write(fd[i], body[fd[i]], TRUE)
    /\ fd' = [fd EXCEPT ![i] = None]
    /\ Goto(i, "r_open")
    /\ UNCHANGED <<name, flock, dbs, model, tmp, at, seen, rebuild, opened, edits>>

-----------------------------------------------------------------------------
(* refresh                                                                   *)

BeginRefresh(i) ==
    /\ pc[i] = "idle"
    /\ Goto(i, "r_ensure")
    /\ UNCHANGED <<disk, flock, dbs, regs, edits>>

(* Mutant: the inode is not compared.                                        *)
MustRebuildSameInode(i, n) ==
    \/ known[i] = None
    \/ Len(body[n]) < known[i].offset
    \/ Len(body[n]) = known[i].offset /\ stamp[n] # known[i].stamp

MustRebuild(i, n) ==
    \/ known[i] = None
    \/ known[i].ino # n
    \/ Len(body[n]) < known[i].offset
    \/ Len(body[n]) = known[i].offset /\ stamp[n] # known[i].stamp

(* Where the scan starts.                                                    *)
Start(i, n) ==
    IF MustRebuild(i, n) \/ known[i].offset < Overlap THEN 0
    ELSE known[i].offset - Overlap

(* Open the file, compare it with the fingerprint; nothing to do when it is  *)
(* indexed to its end.                                                       *)
Open(i) ==
    /\ pc[i] = "r_open"
    /\ opened' = [opened EXCEPT ![i] = Stat(name)]
    /\ IF ~MustRebuild(i, name) /\ known[i].offset = Len(body[name])
       THEN Goto(i, "select") /\ UNCHANGED <<fd, at, rebuild>>
       ELSE /\ Goto(i, "r_read")
            /\ fd' = [fd EXCEPT ![i] = name]
            /\ rebuild' = [rebuild EXCEPT ![i] = MustRebuild(i, name)]
            /\ at' = [at EXCEPT ![i] = Start(i, name)]
    /\ UNCHANGED <<disk, flock, dbs, model, tmp, seen, edits>>

(* Read on until the end of the file as it then is.                          *)
Read(i) ==
    /\ pc[i] = "r_read"
    /\ IF at[i] < Len(body[fd[i]])
       THEN /\ seen' = [seen EXCEPT ![i] = @ \cup {body[fd[i]][at[i] + 1]}]
            /\ at' = [at EXCEPT ![i] = @ + 1]
            /\ UNCHANGED pc
       ELSE Goto(i, "r_commit") /\ UNCHANGED <<seen, at>>
    /\ UNCHANGED <<disk, flock, dbs, model, fd, tmp, rebuild, opened, edits>>

(* One transaction: the index and a fingerprint of the first and the final   *)
(* fstat.                                                                    *)
Commit(i) ==
    /\ pc[i] = "r_commit"
    /\ indexed' = [indexed EXCEPT ![i] = (IF rebuild[i] THEN {} ELSE @) \cup seen[i]]
    /\ known' = [known EXCEPT ![i] =
            [ino |-> opened[i].ino, stamp |-> stamp[fd[i]], offset |-> at[i]]]
    /\ Goto(i, "select")
    /\ fd' = [fd EXCEPT ![i] = None]
    /\ at' = [at EXCEPT ![i] = 0]
    /\ seen' = [seen EXCEPT ![i] = {}]
    /\ rebuild' = [rebuild EXCEPT ![i] = FALSE]
    /\ UNCHANGED <<disk, flock, model, tmp, opened, edits>>

(* The command selects models by contains(), or analyzes the extraction and  *)
(* appends.                                                                  *)
Select(i) ==
    /\ pc[i] = "select"
    /\ Goto(i, IF model[i] = None THEN "idle" ELSE "a_open")
    /\ opened' = [opened EXCEPT ![i] = None]
    /\ UNCHANGED <<disk, flock, dbs, model, fd, tmp, at, seen, rebuild, edits>>

-----------------------------------------------------------------------------
(* append_catalog_entry                                                      *)

(* The end of extract_release refreshes first.                               *)
BeginAppend(i, m) ==
    /\ pc[i] = "idle"
    /\ i \in Appenders
    /\ Goto(i, "r_ensure")
    /\ model' = [model EXCEPT ![i] = m]
    /\ UNCHANGED <<disk, flock, dbs, fd, tmp, at, seen, rebuild, opened, edits>>

OpenToAppend(i) ==
    /\ pc[i] = "a_open"
    /\ fd' = [fd EXCEPT ![i] = name]
    /\ Goto(i, "a_lock")
    /\ UNCHANGED <<disk, flock, dbs, model, tmp, at, seen, rebuild, opened, edits>>

(* Mutant: the lock is shared.                                               *)
LockShared(i) ==
    /\ pc[i] = "a_lock"
    /\ flock' = [flock EXCEPT ![fd[i]] = i]
    /\ at' = [at EXCEPT ![i] = Len(body[fd[i]])]
    /\ Goto(i, "a_scan")
    /\ UNCHANGED <<disk, dbs, model, fd, tmp, seen, rebuild, opened, edits>>

(* fcntl.flock(LOCK_EX) waits; then fstat.                                   *)
Lock(i) ==
    /\ pc[i] = "a_lock"
    /\ flock[fd[i]] = None
    /\ flock' = [flock EXCEPT ![fd[i]] = i]
    /\ at' = [at EXCEPT ![i] = Len(body[fd[i]])]
    /\ Goto(i, "a_scan")
    /\ UNCHANGED <<disk, dbs, model, fd, tmp, seen, rebuild, opened, edits>>

(* _descriptor_contains_model: a model that is listed is not appended again. *)
ScanForModel(i) ==
    /\ pc[i] = "a_scan"
    /\ IF model[i] \in Listed(fd[i])
       THEN End(i)
       ELSE Goto(i, "a_bounds")
            /\ UNCHANGED <<flock, fd, tmp, model, at, seen, rebuild>>
    /\ UNCHANGED <<disk, dbs, opened, edits>>

(* _json_object_bounds: the bytes up to the size seen under the lock must be *)
(* a complete object.                                                        *)
Bounds(i) ==
    /\ pc[i] = "a_bounds"
    /\ IF whole[fd[i]] /\ Len(body[fd[i]]) = at[i]
       THEN Goto(i, "a_copy")
            /\ UNCHANGED <<flock, fd, tmp, model, at, seen, rebuild>>
       ELSE End(i)
    /\ UNCHANGED <<disk, dbs, opened, edits>>

(* The temporary file: what was there, the new entry and the old tail, which *)
(* no longer closes the object when the file has grown meanwhile; a file     *)
(* that shrank raises.                                                       *)
Copy(i) ==
    /\ pc[i] = "a_copy"
    /\ IF Len(body[fd[i]]) < at[i]
       THEN End(i) /\ UNCHANGED disk
       ELSE /\ \E n \in Free :
                  /\ WriteTo(n, Append(SubSeq(body[fd[i]], 1, at[i]), model[i]),
                             Len(body[fd[i]]) = at[i])
                  /\ tmp' = [tmp EXCEPT ![i] = n]
            /\ Goto(i, "a_check")
            /\ UNCHANGED <<name, clock, flock, fd, model, at, seen, rebuild>>
    /\ UNCHANGED <<dbs, opened, edits>>

(* Mutant: the path is not looked up again.                                  *)
CheckNothing(i) ==
    /\ pc[i] = "a_check"
    /\ Goto(i, "a_replace")
    /\ UNCHANGED <<disk, flock, dbs, regs, edits>>

(* The path must still name the inode that was locked and copied.            *)
CheckInode(i) ==
    /\ pc[i] = "a_check"
    /\ IF name = fd[i]
       THEN Goto(i, "a_replace")
            /\ UNCHANGED <<flock, fd, tmp, model, at, seen, rebuild>>
       ELSE End(i)
    /\ UNCHANGED <<disk, dbs, opened, edits>>

(* os.replace.                                                               *)
Replace(i) ==
    /\ pc[i] = "a_replace"
    /\ name' = tmp[i]
    /\ clock' = clock + 1
    /\ tmp' = [tmp EXCEPT ![i] = None]
    /\ Goto(i, "a_reopen")
    /\ UNCHANGED <<body, whole, stamp, born, flock, dbs, model, fd, at, seen,
                   rebuild, opened, edits>>

(* The path is opened again for the fingerprint...                           *)
Reopen(i) ==
    /\ pc[i] = "a_reopen"
    /\ opened' = [opened EXCEPT ![i] = Stat(name)]
    /\ Goto(i, "a_mark")
    /\ UNCHANGED <<disk, flock, dbs, model, fd, tmp, at, seen, rebuild, edits>>

(* Mutant: the operation's locals are gone when the model is inserted.       *)
MarkAppendedLate(i) ==
    /\ pc[i] = "a_mark"
    /\ End(i)
    /\ indexed' = [indexed EXCEPT ![i] = @ \cup {model'[i]}]
    /\ known' = [known EXCEPT ![i] = opened[i]]
    /\ opened' = [opened EXCEPT ![i] = None]
    /\ UNCHANGED <<disk, edits>>

(* ...and _mark_appended says that all of it is indexed.                     *)
MarkAppended(i) ==
    /\ pc[i] = "a_mark"
    /\ indexed' = [indexed EXCEPT ![i] = @ \cup {model[i]}]
    /\ known' = [known EXCEPT ![i] = opened[i]]
    /\ opened' = [opened EXCEPT ![i] = None]
    /\ End(i)
    /\ UNCHANGED <<disk, edits>>

-----------------------------------------------------------------------------
(* The environment.                                                          *)

(* The process is killed, or an exception ends the operation: transactions   *)
(* roll back, descriptors and the flock go.                                  *)
Crash(i) ==
    /\ pc[i] # "idle"
    /\ MayCrash
    /\ opened' = [opened EXCEPT ![i] = None]
    /\ End(i)
    /\ UNCHANGED <<disk, dbs, edits>>

(* An editor, which takes no lock, writes t: into the file...                *)
KindOfEdit(old, new) ==
    IF IsPrefix(old, new) THEN "grow"
    ELSE IF IsPrefix(new, old) THEN "truncate" ELSE "overwrite"

EditInPlace(t) ==
    /\ name # None
    /\ edits < MaxEdits
    /\ t # body[name]
    /\ KindOfEdit(body[name], t) \in Edits
    /\ edits' = edits + 1
    /\ Write(name, t, TRUE)
    /\ UNCHANGED <<name, flock, dbs, pc, regs>>

(* ...or as a new file over it.                                              *)
EditByRename(t) ==
    /\ name # None
    /\ edits < MaxEdits
    /\ "replace" \in Edits
    /\ edits' = edits + 1
    /\ \E n \in Free : name' = n /\ Write(n, t, TRUE)
    /\ UNCHANGED <<flock, dbs, pc, regs>>

-----------------------------------------------------------------------------
Refreshing(i) ==
    \/ EnsureFile(i) \/ WriteBraces(i) \/ Open(i) \/ Read(i) \/ Commit(i) \/ Select(i)

Appending(i) ==
    \/ OpenToAppend(i) \/ Lock(i) \/ ScanForModel(i) \/ Bounds(i) \/ Copy(i)
    \/ CheckInode(i) \/ Replace(i) \/ Reopen(i) \/ MarkAppended(i)

Next ==
    \/ \E i \in Installs :
          \/ BeginRefresh(i) \/ Refreshing(i)
          \/ \E m \in Models : BeginAppend(i, m)
          \/ Appending(i)
          \/ Crash(i)
    \/ \E t \in Texts : EditInPlace(t) \/ EditByRename(t)

Spec == Init /\ [][Next]_ivars

-----------------------------------------------------------------------------
(* Properties.                                                               *)

(* Every variable keeps the type of the file, table or local it models.      *)
TypeOK ==
    /\ name \in Inodes \cup {None}
    /\ body \in [Inodes -> Seq(Models)]
    /\ whole \in [Inodes -> BOOLEAN]
    /\ stamp \in [Inodes -> Nat]
    /\ clock \in Nat
    /\ born \subseteq Inodes
    /\ flock \in [Inodes -> Installs \cup {None}]
    /\ indexed \in [Installs -> SUBSET Models]
    /\ known \in [Installs -> Fingerprint \cup {None}]
    /\ pc \in [Installs -> IPC]
    /\ model \in [Installs -> Models \cup {None}]
    /\ fd \in [Installs -> Inodes \cup {None}]
    /\ tmp \in [Installs -> Inodes \cup {None}]
    /\ at \in [Installs -> Nat]
    /\ seen \in [Installs -> SUBSET Models]
    /\ rebuild \in [Installs -> BOOLEAN]
    /\ opened \in [Installs -> Fingerprint \cup {None}]
    /\ edits \in Nat

Catalog == IF name = None THEN <<>> ELSE body[name]

(* README: the writer "preserves the existing file, locks it", "A crash      *)
(* cannot leave half a JSON record", "Re-extracting a model is idempotent":  *)
(* whatever installations append at the same time, wherever they are killed, *)
(* the catalog only ever gains one model it did not list at its end, and     *)
(* once it is an object it stays one.                                        *)
CatalogOnlyGrows ==
    [][edits' = 0 =>
          /\ \/ Catalog' = Catalog
             \/ \E m \in Models : m \notin Listed(name) /\ Catalog' = Append(Catalog, m)
          /\ name # None /\ whole[name] => name' # None /\ whole'[name']]_ivars

(* An index never holds a model the catalog does not list, so that no model  *)
(* is skipped that was never published.                                      *)
NothingSkippedWrongly ==
    edits = 0 => \A i \in Installs : \A m \in indexed[i] : name # None /\ m \in Listed(name)

(* After a refresh of a file that nobody wrote meanwhile, the index holds    *)
(* exactly the models of the file: README "If a model appears anywhere,      *)
(* every region for it is skipped", architecture.md "to avoid stale models". *)
Unwritten(i) == name # None /\ opened[i] # None /\ opened[i] = Stat(name)

IndexIsExact ==
    \A i \in Installs :
        pc[i] = "select" /\ Unwritten(i) => indexed[i] = Listed(name)

(* README: "If a model appears anywhere, every region for it is skipped".    *)
ListedModelsAreSkipped ==
    \A i \in Installs :
        pc[i] = "select" /\ Unwritten(i) => Listed(name) \subseteq indexed[i]

(* README: "An append-enabled missing file is safely initialized as {}":     *)
(* outside the initialisation the catalog is an object.                      *)
InitializedSafely ==
    (\A i \in Installs : pc[i] # "r_init") =>
        (name # None => whole[name])
=============================================================================

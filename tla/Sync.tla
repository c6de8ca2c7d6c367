-------------------------------- MODULE Sync --------------------------------
(* The commands over many targets: discover and sync collect the indexes of  *)
(* several sources concurrently and store the recent targets they name; sync,*)
(* probe and download pick one region per model, resolve each at Samsung and *)
(* download (and extract) the resolved ones one after the other. Commands    *)
(* run one at a time (Acquisition: RunsDoNotOverlap), so there is one        *)
(* process here; what happens inside one download or one extraction is in    *)
(* Acquisition. The metadata catalog is shared: other installations and      *)
(* editors list models in it at any time. A refresh of the index is one step *)
(* with what is asked of it and reads all of the file; how it reads, and what*)
(* it can miss, is in ModelIndex.                                            *)
EXTENDS Integers, SequencesExt, Enumerations

CONSTANTS
    Sources,          \* enabled discovery sources
    Rank,             \* [Sources -> Nat]: their order in the configuration
    Targets,          \* (model, CSC) pairs
    Models,
    Others,           \* bound: models that others list in the catalog
    ModelOf,          \* [Targets -> Models]
    Answers,          \* [Sources -> sets of sequences of Records]
    Ages,             \* bound: ages in days of the records
    Lookback,         \* config.discovery.lookback_days
    Limits,           \* bound: values of --limit, None when it is absent
    Counts,           \* bound: values of --first
    Automatic,        \* config.download.automatic
    AutoExtract,      \* config.download.automatic_extract
    AppendCompleted,  \* config.metadata.append_completed
    None,
    MayCrash,         \* the process is killed
    MayFault          \* database and file operations raise

(* What a source says of a target; age None is a record without a date.      *)
Records == [target : Targets, age : Ages \cup {None}]

ASSUME RankType    == Rank \in [Sources -> Nat] /\ IsInjective(Rank)
ASSUME RegionType  == ModelOf \in [Targets -> Models]
ASSUME OthersType  == Others \subseteq Models
ASSUME AnswersType ==
    \A s \in Sources : \A a \in Answers[s] : a # <<>> /\ a \in Seq(Records)
ASSUME BoundsType  ==
    Ages \subseteq Nat /\ Lookback \in Nat /\ Limits \subseteq (Nat \ {0}) \cup {None}
        /\ Counts \subseteq Nat \ {0}

RunStatuses == {"RUNNING", "SUCCESS", "PARTIAL", "FAILED"}

ASSUME NoneIsFresh ==
    None \notin RunStatuses /\ \A s \in Sources : None \notin Answers[s]

VARIABLES
    (* The database and the file system. *)
    known,       \* known[t]: sources with an observation of t; its row exists if any
    checkpoint,  \* source_checkpoint: "never", "ok", or "failed" (last_error is set)
    run,         \* status of the latest row of run
    held,        \* targets whose release has a VERIFIED ZIP
    extracted,   \* targets whose release is EXTRACTED
    published,   \* models whose catalog entry this installation appended
    catalog,     \* models in the external metadata catalog, whoever listed them
    listed,      \* external_metadata_model: models in the index of the catalog
    (* The process. *)
    pc, cmd,
    limit,       \* --limit of discover and sync, --first of probe and download
    fetched,     \* observations of the sources that answered
    order,       \* these sources, in the order of their answers
    errors,      \* source_errors
    todo,        \* observations still to be stored
    found,       \* targets of the discovery result, without repetition
    asked,       \* history: the catalog as the selection found it
    chosen,      \* targets left after selection
    queue,       \* those still to be resolved, then those still to be downloaded
    ready,       \* those Samsung resolved
    code         \* exit status

stored == <<known, checkpoint, run>>
index  == <<catalog, listed>>
kept   == <<held, extracted, published, index>>
disc   == <<fetched, order, errors, todo, found>>
chain  == <<asked, chosen, queue, ready>>
local  == <<cmd, limit, disc, chain, code>>
vars   == <<stored, kept, pc, local>>

PC == {"idle", "start", "collect", "arrange", "store", "fail_run", "select", "list", "probe",
       "loop", "extract", "publish", "exit"}
Commands == {"none", "discover", "sync", "probe", "download"}

Item == [source : Sources, target : Targets, age : Ages \cup {None}]
-----------------------------------------------------------------------------
(* The order and the choice of targets.                                      *)

(* What the sources in ds said, one source after the other: an item is the   *)
(* j-th of the i-th source.                                                  *)
Positions(ds) == UNION {{i} \X DOMAIN fetched[ds[i]] : i \in DOMAIN ds}

ItemAt(ds, p) ==
    [source |-> ds[p[1]],
     target |-> fetched[ds[p[1]]][p[2]].target,
     age    |-> fetched[ds[p[1]]][p[2]].age]

Collected(ds) == {ItemAt(ds, p) : p \in Positions(ds)}

(* Undated records and records older than the window are dropped, and those  *)
(* of models that the index of the catalog lists.                            *)
Eligible(o) ==
    /\ o.age # None
    /\ o.age <= Lookback
    /\ ModelOf[o.target] \notin listed

(* Where p is before q in the collected sequence.                            *)
Ahead(p, q) == p[1] < q[1] \/ (p[1] = q[1] /\ p[2] < q[2])

(* Mutant: the sort looks at the date only.                                  *)
EarlierByDate(ds, p, q) ==
    LET a == ItemAt(ds, p)
        b == ItemAt(ds, q)
    IN  a.age < b.age \/ (a.age = b.age /\ Ahead(p, q))

(* The most recent first, then the source that is configured first; the sort *)
(* is stable.                                                                *)
Earlier(ds, p, q) ==
    LET a == ItemAt(ds, p)
        b == ItemAt(ds, q)
    IN  \/ a.age < b.age
        \/ a.age = b.age /\ Rank[a.source] < Rank[b.source]
        \/ a.age = b.age /\ Rank[a.source] = Rank[b.source] /\ Ahead(p, q)

(* (Dropping records before or after the sort is the same.)                  *)
Recent(ds) == {p \in Positions(ds) : Eligible(ItemAt(ds, p))}

(* Mutant: --limit bounds the records.                                       *)
LimitedRecords(ds, P, n) ==
    {p \in P : n = None \/ Cardinality({q \in P : Earlier(ds, q, p)}) < n}

(* --limit bounds the distinct targets, in the order of their first records; *)
(* all records of a selected target stay.                                    *)
Limited(ds, P, n) ==
    LET of(t) == {p \in P : ItemAt(ds, p).target = t}
        before(t) == {u \in Targets : \E q \in of(u) : \A p \in of(t) : Earlier(ds, q, p)}
        selected == {t \in Targets : n = None \/ Cardinality(before(t)) < n}
    IN  UNION {of(t) : t \in selected}

Order(ds) ==
    LET all == Positions(ds) IN {e \in all \X all : Earlier(ds, e[1], e[2])}

Arranged(ds, P, R) ==
    LET at == Enumerated(P, R) IN [k \in DOMAIN at |-> ItemAt(ds, at[k])]

ToStore(ds, n) == Arranged(ds, Limited(ds, Recent(ds), n), Order(ds))

(* Mutant: downloaded models are not asked for.                              *)
SelectableByCatalog(m) == m \notin catalog

ModelHeld(m) == \E t \in held : ModelOf[t] = m

(* Mutant: the index that is asked was not refreshed.                        *)
SelectableByIndex(m) == m \notin listed /\ ~ModelHeld(m)

(* The index that is asked has just been refreshed.                          *)
Selectable(m) == m \notin catalog /\ ~ModelHeld(m)

(* _unique_target_ids_by_model: the first target of each model, unless the   *)
(* model is in the catalog or held.                                          *)
UniqueByModel(ts) ==
    Part(ts, {i \in DOMAIN ts :
                 /\ \A j \in 1..(i - 1) : ModelOf[ts[j]] # ModelOf[ts[i]]
                 /\ Selectable(ModelOf[ts[i]])})

-----------------------------------------------------------------------------
Init ==
    /\ known = [t \in Targets |-> {}]
    /\ checkpoint = [s \in Sources |-> "never"]
    /\ run = None
    /\ held = {} /\ extracted = {} /\ published = {}
    /\ catalog = {} /\ listed = {} /\ asked = {}
    /\ pc = "idle" /\ cmd = "none" /\ limit = None
    /\ fetched = [s \in Sources |-> None]
    /\ order = <<>> /\ errors = {} /\ todo = <<>> /\ found = <<>>
    /\ chosen = <<>> /\ queue = <<>> /\ ready = <<>>
    /\ code = None

(* The process ends, and with it everything it had in memory.                *)
Forget ==
    /\ pc' = "idle" /\ cmd' = "none" /\ limit' = None
    /\ fetched' = [s \in Sources |-> None]
    /\ order' = <<>> /\ errors' = {} /\ todo' = <<>> /\ found' = <<>>
    /\ asked' = {} /\ chosen' = <<>> /\ queue' = <<>> /\ ready' = <<>>
    /\ code' = None

End(c) == pc' = "exit" /\ code' = c

Begin(c, n, l) ==
    /\ pc = "idle"
    /\ pc' = l
    /\ cmd' = c
    /\ limit' = n
    /\ UNCHANGED <<stored, kept, disc, chain, code>>

BeginDiscovery(c, n) ==
    /\ c \in {"discover", "sync"}
    /\ n \in Limits
    /\ Begin(c, n, "start")

BeginListed(c, n) ==
    /\ c \in {"probe", "download"}
    /\ n \in Counts
    /\ Begin(c, n, "list")
-----------------------------------------------------------------------------
(* discover()                                                                *)

StartRun ==
    /\ pc = "start"
    /\ run' = "RUNNING"
    /\ pc' = "collect"
    /\ UNCHANGED <<known, checkpoint, kept, local>>

Pending == {s \in Sources : fetched[s] = None /\ s \notin errors}

(* The futures complete in any order, each with its pages or an exception.   *)
Answer(s, a) ==
    /\ pc = "collect"
    /\ s \in Pending
    /\ fetched' = [fetched EXCEPT ![s] = a]
    /\ order' = Append(order, s)
    /\ checkpoint' = [checkpoint EXCEPT ![s] = "ok"]
    /\ UNCHANGED <<known, run, kept, pc, cmd, limit, errors, todo, found, chain, code>>

(* Mutant: the checkpoint is not touched when a source fails.                *)
SourceFailsUnrecorded(s) ==
    /\ pc = "collect"
    /\ s \in Pending
    /\ errors' = errors \cup {s}
    /\ UNCHANGED <<stored, kept, pc, cmd, limit, fetched, order, todo, found,
                   chain, code>>

SourceFails(s) ==
    /\ pc = "collect"
    /\ s \in Pending
    /\ errors' = errors \cup {s}
    /\ checkpoint' = [checkpoint EXCEPT ![s] = "failed"]
    /\ UNCHANGED <<known, run, kept, pc, cmd, limit, fetched, order, todo, found,
                   chain, code>>

(* The pages are in, but recording the success raises: the same handler      *)
(* counts the source as failed, and its observations are used all the same.  *)
AnswerNotRecorded(s, a) ==
    /\ MayFault
    /\ pc = "collect"
    /\ s \in Pending
    /\ fetched' = [fetched EXCEPT ![s] = a]
    /\ order' = Append(order, s)
    /\ errors' = errors \cup {s}
    /\ checkpoint' = [checkpoint EXCEPT ![s] = "failed"]
    /\ UNCHANGED <<known, run, kept, pc, cmd, limit, todo, found, chain, code>>

(* All sources are done: the index of the catalog is refreshed...            *)
Refresh ==
    /\ pc = "collect"
    /\ Pending = {}
    /\ listed' = catalog
    /\ pc' = "arrange"
    /\ UNCHANGED <<stored, held, extracted, published, catalog, local>>

(* ...to sort, filter and limit what they said (limit is dead from here on,  *)
(* as it is after List). The bounds only make TLC evaluate them once.        *)
Arrange ==
    /\ pc = "arrange"
    /\ \E P \in {Recent(order)}, R \in {Order(order)} :
           \E L \in {Limited(order, P, limit)} : todo' = Arranged(order, L, R)
    /\ limit' = None
    /\ pc' = "store"
    /\ UNCHANGED <<stored, kept, cmd, fetched, order, errors, found, chain, code>>

(* Mutants: only targets that had no row yet go on; a target goes on once per*)
(* observation.                                                              *)
StoreNewOnly ==
    /\ pc = "store"
    /\ todo # <<>>
    /\ LET o == Head(todo) IN
        /\ known' = [known EXCEPT ![o.target] = @ \cup {o.source}]
        /\ found' = IF known[o.target] # {} THEN found ELSE Append(found, o.target)
    /\ todo' = Tail(todo)
    /\ UNCHANGED <<checkpoint, run, kept, pc, cmd, limit, fetched, order, errors,
                   chain, code>>

StoreRepeats ==
    /\ pc = "store"
    /\ todo # <<>>
    /\ LET o == Head(todo) IN
        /\ known' = [known EXCEPT ![o.target] = @ \cup {o.source}]
        /\ found' = Append(found, o.target)
    /\ todo' = Tail(todo)
    /\ UNCHANGED <<checkpoint, run, kept, pc, cmd, limit, fetched, order, errors,
                   chain, code>>

(* upsert_target_observation: one transaction per observation.               *)
Store ==
    /\ pc = "store"
    /\ todo # <<>>
    /\ LET o == Head(todo) IN
        /\ known' = [known EXCEPT ![o.target] = @ \cup {o.source}]
        /\ found' = IF Contains(found, o.target) THEN found ELSE Append(found, o.target)
    /\ todo' = Tail(todo)
    /\ UNCHANGED <<checkpoint, run, kept, pc, cmd, limit, fetched, order, errors,
                   chain, code>>

RunStatus ==
    IF order = <<>> THEN "FAILED" ELSE IF errors # {} THEN "PARTIAL" ELSE "SUCCESS"

SourcesCode == IF errors = Sources THEN 1 ELSE 0

FinishRun ==
    /\ pc = "store"
    /\ todo = <<>>
    /\ run' = RunStatus
    /\ IF cmd = "sync" /\ found # <<>>
       THEN pc' = "select" /\ UNCHANGED code
       ELSE End(SourcesCode)
    /\ UNCHANGED <<known, checkpoint, kept, cmd, limit, disc, chain>>

(* The handler of discover(): the exception leaves the command.              *)
FailRun ==
    /\ pc = "fail_run"
    /\ run' = "FAILED"
    /\ End(1)
    /\ UNCHANGED <<known, checkpoint, kept, cmd, limit, disc, chain>>
-----------------------------------------------------------------------------
(* Selection, resolution, downloads.                                         *)

(* The index is refreshed and asked.                                         *)
Choose(ts) ==
    /\ chosen' = ts /\ queue' = ts
    /\ listed' = catalog /\ asked' = catalog

(* What discover() collected is dead from here on.                           *)
Select ==
    /\ pc = "select"
    /\ Choose(UniqueByModel(found))
    /\ pc' = "probe"
    /\ fetched' = [s \in Sources |-> None]
    /\ order' = <<>> /\ found' = <<>>
    /\ UNCHANGED <<stored, held, extracted, published, catalog, cmd, limit, errors, todo,
                   ready, code>>

(* probe and download --first: all rows, the last discovered first. The time *)
(* is the one each source noted when it parsed its page, so the order of the *)
(* rows is taken to be any.                                                  *)
List ==
    /\ pc = "list"
    /\ \E ts \in SetToSeqs({t \in Targets : known[t] # {}}) :
           LET all == UniqueByModel(ts)
           IN  Choose(SubSeq(all, 1, IF limit < Len(all) THEN limit ELSE Len(all)))
    /\ pc' = "probe"
    /\ limit' = None
    /\ UNCHANGED <<stored, held, extracted, published, catalog, cmd, disc, ready, code>>

(* probe() of one target: Samsung answers, or anything on the way raises.    *)
Resolve ==
    /\ pc = "probe"
    /\ queue # <<>>
    /\ ready' = Append(ready, Head(queue))
    /\ queue' = Tail(queue)
    /\ UNCHANGED <<stored, kept, pc, cmd, limit, disc, asked, chosen, code>>

DoNotResolve ==
    /\ pc = "probe"
    /\ queue # <<>>
    /\ queue' = Tail(queue)
    /\ UNCHANGED <<stored, kept, pc, cmd, limit, disc, asked, chosen, ready, code>>

(* sync goes on with the targets that resolved if downloads are automatic;   *)
(* download goes on only when all of them resolved. (_filter_download_rows   *)
(* asks an index and tables that have not changed since List.)               *)
GoesOn ==
    \/ cmd = "sync" /\ Automatic
    \/ cmd = "download" /\ ready # <<>> /\ Len(ready) = Len(chosen)

NoneResolved == chosen # <<>> /\ ready = <<>>

Resolved ==
    /\ pc = "probe"
    /\ queue = <<>>
    /\ GoesOn
    /\ pc' = "loop"
    /\ queue' = ready
    /\ UNCHANGED <<stored, kept, cmd, limit, disc, asked, chosen, ready, code>>

(* Otherwise the command ends; download fails unless nothing was selected.   *)
EndProbe ==
    /\ pc = "probe"
    /\ queue = <<>>
    /\ ~GoesOn
    /\ End(CASE cmd = "download" -> IF chosen = <<>> THEN 0 ELSE 1
             [] NoneResolved     -> 1
             [] OTHER            -> IF cmd = "sync" THEN SourcesCode ELSE 0)
    /\ UNCHANGED <<stored, kept, cmd, limit, disc, chain>>

(* Several downloads need --yes.                                             *)
RefuseMany ==
    /\ pc = "probe"
    /\ queue = <<>>
    /\ cmd = "download" /\ GoesOn /\ Len(ready) > 1
    /\ End(1)
    /\ UNCHANGED <<stored, kept, cmd, limit, disc, chain>>

(* download_release returns the verified ZIP...                              *)
Download ==
    /\ pc = "loop"
    /\ queue # <<>>
    /\ held' = held \cup {Head(queue)}
    /\ IF cmd = "sync" /\ AutoExtract
       THEN pc' = "extract" /\ UNCHANGED queue
       ELSE queue' = Tail(queue) /\ UNCHANGED pc
    /\ UNCHANGED <<stored, extracted, published, index, cmd, limit, disc, asked, chosen,
                   ready, code>>

(* Mutant: the loop goes on after a failure.                                 *)
DownloadSkips ==
    /\ pc = "loop"
    /\ queue # <<>>
    /\ queue' = Tail(queue)
    /\ UNCHANGED <<stored, kept, pc, cmd, limit, disc, asked, chosen, ready, code>>

(* ...or raises, possibly with the VERIFIED row committed. sync records a    *)
(* failure and returns 1, download ends with the exception: the targets      *)
(* after this one are not tried.                                             *)
DownloadFails ==
    /\ pc = "loop"
    /\ queue # <<>>
    /\ held' \in {held, held \cup {Head(queue)}}
    /\ End(1)
    /\ UNCHANGED <<stored, extracted, published, index, cmd, limit, disc, chain>>

(* extract_release, and as its last act the entry in the catalog.            *)
Extract ==
    /\ pc = "extract"
    /\ extracted' = extracted \cup {Head(queue)}
    /\ IF AppendCompleted
       THEN pc' = "publish" /\ UNCHANGED queue
       ELSE pc' = "loop" /\ queue' = Tail(queue)
    /\ UNCHANGED <<stored, held, published, index, cmd, limit, disc, asked, chosen, ready,
                   code>>

(* The index is refreshed; a model that the catalog lists by now is not      *)
(* appended again. The targets still queued are not asked for again.         *)
Publish ==
    /\ pc = "publish"
    /\ LET m == ModelOf[Head(queue)] IN
        /\ published' = IF m \in catalog THEN published ELSE published \cup {m}
        /\ catalog' = catalog \cup {m}
        /\ listed' = catalog \cup {m}
    /\ pc' = "loop"
    /\ queue' = Tail(queue)
    /\ UNCHANGED <<stored, held, extracted, cmd, limit, disc, asked, chosen, ready, code>>

ExtractFails ==
    /\ pc \in {"extract", "publish"}
    /\ End(1)
    /\ UNCHANGED <<stored, kept, cmd, limit, disc, chain>>

EndLoop ==
    /\ pc = "loop"
    /\ queue = <<>>
    /\ End(IF cmd # "sync" THEN 0 ELSE IF NoneResolved THEN 1 ELSE SourcesCode)
    /\ UNCHANGED <<stored, kept, cmd, limit, disc, chain>>

Exit == pc = "exit" /\ Forget /\ UNCHANGED <<stored, kept>>
-----------------------------------------------------------------------------
(* An operation raises outside the handlers above: inside discover() the run *)
(* is marked FAILED first, elsewhere, and in that handler, the command ends. *)
Fault ==
    /\ MayFault
    /\ pc \notin {"idle", "exit", "loop", "extract", "publish"}
    /\ IF pc \in {"collect", "arrange", "store"}
       THEN pc' = "fail_run" /\ UNCHANGED code
       ELSE End(1)
    /\ UNCHANGED <<stored, kept, cmd, limit, disc, chain>>

Crash == MayCrash /\ pc # "idle" /\ Forget /\ UNCHANGED <<stored, kept>>

(* Another installation or an editor lists a model in the catalog.           *)
OthersList(m) ==
    /\ m \notin catalog
    /\ catalog' = catalog \cup {m}
    /\ UNCHANGED <<stored, held, extracted, published, listed, pc, local>>

Collecting ==
    \/ StartRun
    \/ \E s \in Sources : SourceFails(s)
    \/ \E s \in Sources : \E a \in Answers[s] : Answer(s, a) \/ AnswerNotRecorded(s, a)
    \/ Refresh \/ Arrange \/ Store \/ FinishRun \/ FailRun

Acquiring ==
    \/ Select \/ List \/ Resolve \/ DoNotResolve \/ Resolved \/ EndProbe \/ RefuseMany
    \/ Download \/ DownloadFails \/ Extract \/ Publish \/ ExtractFails \/ EndLoop

Step == Collecting \/ Acquiring \/ Exit

BeginSome ==
    \/ \E c \in Commands, n \in Limits : BeginDiscovery(c, n)
    \/ \E c \in Commands, n \in Counts : BeginListed(c, n)

Next == BeginSome \/ Step \/ Fault \/ Crash \/ \E m \in Others : OthersList(m)

Spec == Init /\ [][Next]_vars

(* A command that runs keeps running.                                        *)
FairSpec == Spec /\ WF_vars(Step)
-----------------------------------------------------------------------------
(* Properties.                                                               *)

(* Every variable keeps the type of the table, file or local it models.      *)
TypeOK ==
    /\ known \in [Targets -> SUBSET Sources]
    /\ checkpoint \in [Sources -> {"never", "ok", "failed"}]
    /\ run \in RunStatuses \cup {None}
    /\ held \subseteq Targets /\ extracted \subseteq Targets
    /\ \A ms \in {published, catalog, listed, asked} : ms \subseteq Models
    /\ pc \in PC /\ cmd \in Commands /\ limit \in Limits \cup Counts \cup {None}
    /\ \A s \in Sources : fetched[s] \in Answers[s] \cup {None}
    /\ order \in Seq(Sources) /\ errors \subseteq Sources
    /\ todo \in Seq(Item)
    /\ \A ts \in {found, chosen, queue, ready} : ts \in Seq(Targets) /\ IsInjective(ts)
    /\ code \in {None, 0, 1}

(* discover() merges its sources in the order their futures complete; what   *)
(* it stores and in which order does not depend on it.                       *)
OrderIndependent ==
    pc = "arrange" =>
        \A ds \in SetToSeqs(ToSet(order)) : ToStore(ds, limit) = ToStore(order, limit)

(* After sorting, filtering, --limit, storing and selection, sync resolves   *)
(* of each model that is neither held nor catalogued the region with the most*)
(* recent record, the models with the most recent records first; --limit     *)
(* drops the oldest targets, and every source that named a target is kept    *)
(* with it ("Cross-source provenance is retained", commands.md).             *)
MostRecentFirst ==
    pc = "select" =>
        LET seen == {o \in Collected(order) : Eligible(o)}
            newest(t) == Min({o.age : o \in {x \in seen : x.target = t}})
            sel == UniqueByModel(found)
        IN  /\ \A i \in DOMAIN sel : \A o \in seen :
                    ModelOf[o.target] = ModelOf[sel[i]] => newest(sel[i]) <= o.age
            /\ \A i, j \in DOMAIN sel : i < j => newest(sel[i]) <= newest(sel[j])
            /\ \A t \in ToSet(found) : Selectable(ModelOf[t]) =>
                    \E i \in DOMAIN sel : ModelOf[sel[i]] = ModelOf[t]
            /\ \A o \in seen :
                    IF Contains(found, o.target)
                    THEN o.source \in known[o.target]
                    ELSE \A i \in DOMAIN found : newest(found[i]) <= o.age

(* status reports the last run next to the sources' last errors: a run that  *)
(* ended SUCCESS leaves every source without error, a PARTIAL one some       *)
(* source with one, whatever was killed or failed before.                    *)
LastRunMatchesCheckpoints ==
    /\ run = "SUCCESS" => \A s \in Sources : checkpoint[s] = "ok"
    /\ run = "PARTIAL" => \E s \in Sources : checkpoint[s] = "failed"

(* The selection is made once, before hours of downloads: when its turn      *)
(* comes, no model of the loop is held by any region, and none was in the    *)
(* catalog when the selection was made. (One that others list after it is    *)
(* downloaded all the same, though README says "If a model appears anywhere, *)
(* every region for it is skipped": the loop asks neither the catalog nor the*)
(* index again, even when a Publish in between has refreshed it.)            *)
DownloadsWereSelectable ==
    pc = "loop" => \A i \in DOMAIN queue :
        ~ModelHeld(ModelOf[queue[i]]) /\ ModelOf[queue[i]] \notin asked

(* sync and download exit with 0 only if a source answered, and every target *)
(* that resolved is held, and extracted where that is automatic.             *)
ExitZeroIsComplete ==
    pc = "exit" /\ code = 0 =>
        /\ cmd \in {"discover", "sync"} => errors # Sources
        /\ cmd = "download" \/ (cmd = "sync" /\ Automatic) => ToSet(ready) \subseteq held
        /\ cmd = "sync" /\ Automatic /\ AutoExtract => ToSet(ready) \subseteq extracted

(* The commands over many targets keep the archive of ModelArchive: one      *)
(* region per model, however many a command is given.                        *)
Archive == INSTANCE ModelArchive WITH Releases <- Targets

ImplementsArchive == Archive!Spec

(* If trouble is transient, every model that syncs keep discovering is       *)
(* eventually held: a failing download ends the sync and starves the models  *)
(* after it only as long as it fails.                                        *)
Trouble ==
    /\ ~Exit /\ ~RefuseMany
    /\ \/ \E s \in Sources :
              SourceFails(s) \/ \E a \in Answers[s] : AnswerNotRecorded(s, a)
       \/ DoNotResolve \/ DownloadFails \/ ExtractFails \/ Fault \/ Crash

TroubleEnds == <>[][~Trouble]_vars

Finds(m) ==
    cmd = "sync" /\ pc = "store" /\ \E i \in DOMAIN todo : ModelOf[todo[i].target] = m

RetriesReachEveryModel ==
    Automatic /\ TroubleEnds =>
        \A m \in Models : []<>Finds(m) => <>(ModelHeld(m) \/ m \in catalog)
=============================================================================

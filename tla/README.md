# A verification of jayspray

jayspray discovers recent Samsung firmware for device models, resolves the
latest version at Samsung, downloads, verifies and extracts it, and appends a
record of each extracted model to an external metadata catalog. This directory
holds TLA+ models of the parts of it that keep state, the TLC configurations
that check them on small instances, and theorems about them that TLAPS checks
for every value of the constants. Paths below are relative to
`src/src/jayspray/` unless they start with `src/`.

## 1. The system

| Component | Source | State it keeps | What makes it correct |
| --- | --- | --- | --- |
| release states | `models.py` | the state of a release | only the transitions of `ALLOWED_TRANSITIONS` |
| process lock | `lock.py` | a non-blocking flock on `jayspray.lock` | one mutating command at a time, the lock dies with its holder |
| acquisition | `orchestrator.py` 321-500, `extract.py` | files of a release: `firmware.zip`, `.partial`, `manifest.json`; its rows | no half or unverified ZIP under the final name, rows that tell the truth about files, one region per model, nothing downloaded twice, a killed run is picked up by the next |
| backend | `backend/samloader.py` | none (a subprocess) | refuses failure and empty output |
| release registry | `db.py` | `firmware_release`, `firmware_observation`, `artifact`, `binary_blob`, `extraction*` | one row per model, region and AP; columns that agree with each other and with the files; every row has its provenance |
| discovery | `orchestrator.py` 84-255, `sources/` | `run`, `source_checkpoint`, `failure` | independent of the order in which sources answer; an honest run status |
| target registry | `db.py` 195-302, 643-671 | `firmware_target`, `target_observation` | one row per model and region, provenance kept |
| probe | `orchestrator.py` 258-314 | release and target columns | each target resolved on its own |
| command selection | `cli.py` | none (lists in memory) | one region per model, nothing held or catalogued is tried again, an honest exit status |
| metadata index | `metadata_index.py` | the catalog file, and the database's model index with inode, mtime and offset of the scan | the index tells what the file lists; an append loses nothing and tears nothing |
| record analyzer | `metadata_catalog.py` | none | not modelled |
| schema migration | `db.py` 82-113 | `schema_migration` | every script runs once, in order, whoever opens the file first |
| transactions | `db.py` 69-80 and the bare `commit()`s | SQLite's open transaction | what a call reports is stored, what it failed to do is not half stored |
| identity | `identity.py` | none | the keys of a release are functions of model, region and AP |
| HTTP client | `sources/http.py` | next request time per host | not modelled (see 6) |
| source parsers, configuration, logging, packaging | the rest | none | pure functions, output, unit files; not modelled (see 6) |

How they interact. `cli.main` opens the database (and migrates it, before any
lock), takes the process lock and runs one command. `discover` and `sync` ask the
enabled sources in threads and merge what they answer on the main thread; `sync`,
`probe` and `download` then select targets with the help of the metadata index
and the artifact rows, resolve them with the backend and download them one after
the other; `sync` may extract each, and extraction may append to the catalog.
The database, the files of the releases and the catalog are changed at different
moments, each by one commit or one rename: everything hard about this program
lies between two such moments. The catalog is also shared with whoever else
writes it: other installations, and editors that know nothing of the locks.

The hard behaviours are listed, at their lines, under `hazards` in
`PROJECT.json`: kills between the rename of a ZIP and its row, states that a
killed run leaves behind, values read at selection and used hours later, rows
that point at files another step changed, appends racing each other and an
editor, scans racing growth and replacement, futures completing in any order,
processes migrating one file at once, commits that raise and leave a transaction
open for the next call to commit, and tokens and members cut by a read.

## 2. The modules

| Module | Models | Role |
| --- | --- | --- |
| `ReleaseStates` | `models.py`, `Database.queue`'s condition | the transition table, used by `Acquisition` |
| `ModelArchive` | nothing of the code | what the firmware archive promises: the abstract specification |
| `Acquisition` | lock, registry, download, reconcile, extract | the core, one action per commit or file effect |
| `ModelIndex` | the metadata index of several installations on one file | a second core, independent of the first |
| `Sync` | discovery, selection, the loops over many targets | the commands on top of `Acquisition` |
| `Registry` | migrations, transactions, and the rows of `probe` and of a download, statement by statement | what `Acquisition` and `Sync` take for one step |
| `TokenScan` | the windows in which a scan of the catalog looks for models | what `ModelIndex` takes for reading an entry |
| `JsonBounds` | the walk over the JSON text to the place of a new member, next to a parser of the whole text | what `ModelIndex` takes for finding the end |
| `CatalogBytes` | one pass of either kind | composes `TokenScan` and `JsonBounds` |
| `Enumerations` | nothing of the code | sorting as an operator: a set enumerated in an order, a part of a sequence; used by `Sync` |
| `MC*` | values of the constants | model checking |
| `AcquisitionProofs`, `ModelIndexProofs`, `SyncProofs`, `RegistryProofs`, `TokenScanProofs`, `JsonBoundsProofs`, `CatalogBytesProofs` | theorems | TLAPS |
| `EnumerationProofs` | lemmas about `Enumerations` | TLAPS |

`map` in `PROJECT.json` names the lines every definition stands for.

### Acquisition

Several processes run mutating commands. `pc[p]` names the step p takes next;
each step ends in one commit (`set_state`, `record_artifact`, ...) or one file
effect (`unlink`, `os.replace`, the manifest's rename). `Crash(p)` kills p between
any two, `Fault(p)` lets any operation raise and follows the code's handlers
(`OnFault`: the try block of `download_release` runs Undo and MarkFailed, `probe`
swallows the exception, elsewhere it ends the command), `FetchBad(p)` is the backend
failing or delivering garbage, `RemoveZip(r)` is an operator making room.

Correspondence of the variables: `state`, `full`, `artifact`, `newest`, `blob`,
`rows` are columns as committed; `zip`, `partial`, `manifest` are files, whose
content is its SHA-256 digest, `Bad` for what verification refuses; `catalog` is the
set of models in the metadata catalog; `holder` is the flock; `rel`, `sha`, `path`
are locals of the running function. `removed` is a history variable.

Abstractions: a digest stands for content (no collisions); the ZIP tests of
`verify_zip` and the limits of `extract_firmware` are one predicate; several
statements of one transaction are one step; a command treats one release (Sync has
the loops); the append to the catalog is one step, which `ModelIndex` and its
theorem `NothingIsLost` justify.

### ModelIndex

Installations, each with a database, share one catalog file with an editor. A file
is an inode with a body (the models it lists, in order), a flag `whole` (it is a
complete JSON object) and a modification time; `name` is what the path points at.
`Open` ... `Commit` is `refresh`, one chunk per `Read`; `OpenToAppend` ... `MarkAppended`
is `append_catalog_entry`: open, flock, search, copy, compare inodes, rename, fstat,
record. `EditInPlace` and `EditByRename` are what an editor may do, as far as `Edits`
allows. Inode numbers may be reused.

Abstractions: sizes and offsets count entries and an entry is read whole or not at
all (`TokenScan` has the tokens that straddle two reads); the JSON walk yields the
members (`JsonBounds` has the walk); every write has a new modification time;
an edit is one step.

### Sync

The process lock is taken as proved (Acquisition, `MutualExclusion`), so there is one
process. Sources answer, fail, or answer and then fail to be recorded, in any order
(`Answer`, `SourceFails`, `AnswerNotRecorded`); `Arrange` is the sort, the filters and
`--limit`; `Store` is one `upsert_target_observation`; `Select` and `List` choose one
region per model; `Resolve`/`DoNotResolve` is one target of `probe`; `Download`,
`DownloadFails`, `Extract`, `Publish`, `ExtractFails` are what a step of the loop can come
to, with what Acquisition says a failing download can leave behind. `known`,
`checkpoint` and `run` are tables, `held` and `extracted` are the archive with
`published`, the models whose entry this installation appended; the rest are locals.
`cmd` tells `discover`, `sync`, `probe` and `download --first` apart.

The catalog file is shared. `OthersList` lets another installation or an editor list a
model in `catalog` at any time; `listed` is what the index of this installation knows of
it. The code refreshes the index in `discover` (`Refresh`), when it selects (`Select`,
`List`) and in `extract_release` (`Publish`), and asks it in `discover` and when it
selects. The loop over the selected targets asks it no more (`cli.py` 257-276); `asked`,
a history variable, keeps the catalog that the selection saw.

A discovered record is named by its position, a source and an index into what that
source answered; records that are equal stay apart. `Earlier` is the key of the sort,
with the place at which a source's answer was merged as what Python's stable sort falls
back on; `Recent` and `Limited` are the filters, `Arranged` the sorted list, `ToStore`
the identities and sources in the order in which they are stored. Sorting is
`Enumerated` of `Enumerations`: the one sequence that lists a finite set in a given
strict order. It needs no recursion, so that it can be reasoned about.

Abstractions: a refresh is one step with the question it is made for and reads the whole
file (what it can miss is in `ModelIndex` and its run `stale_append`); others only add
entries; the pages of a source are one answer; `first_discovered_at` comes from
the sources' threads, so `list_targets` may return the rows in any order; the last
row of `run` is kept. Not modelled: `--dry-run`, `download --model`, columns of a
target other than who named it.

### Registry

Processes open one SQLite file. Each first runs `migrate`, before any lock; the
process lock then lets one in, which names targets, probes them and catalogues a
download. A step is one statement or one commit, so that a kill or an exception
falls between any two.

`disk` is the set of committed tables (`made`, `applied`, `target`, `named`,
`release`, `observed`, `blob`, `artifact`); `seen` is what the connection of `writer`
sees in its open transaction. `tx` tells who began it: `Database.transaction`
("explicit") or sqlite3 on behalf of a bare statement ("implicit"). A scope that
is entered while a transaction is open joins it and leaves the commit to others
(`EndScope`); `BareCommit` commits whatever is open. `pc`, `script`, `job` are the
locals of the running functions, `holder` the process lock.

`Raise(p)` lets any statement or commit raise: `AfterRaise` is what is left of the
transaction, `Handlers` who catches it (`probe`, `download_release`, `sync` or nobody:
then the with-blocks end and the process with them, in this step). `Kill(p)` is a
kill. However a process ends, SQLite rolls back what is open.

| Actions | Code |
| --- | --- |
| `Check`, `RunScript`, `RecordScript`, `CommitScript` | `migrate` |
| `NameTarget`, `NameObserved`, `NameCommit` | `upsert_target_observation` |
| `UpsertRelease`, `UpsertObserved`, `UpsertCommit` | `upsert_observation` |
| `SetColumns`, `SetResolved`, `ResolvedCommit` | `set_resolved_version` |
| `TargetRow`, `TargetCommit`; `ErrorRow`, `ErrorCommit` | `set_target_resolution`, of a result and of the handler |
| `Deduplicate` or `RecordBlob`; `RecordArtifact`, `SetDecrypted`, their commits | the catalogue writes of `download_release` and `_reconcile_existing_zip` |
| `SetFailed`, `RecordFailure`, their commits | the handlers |

What the model makes explicit about the code: `weak_key` and `strong_key` are both the
hash of model, region and AP and never NULL, so each lookup of `upsert_observation`
finds the row of these three or none, and `components_compatible` cannot change its
result. A bare `commit()` that raises leaves its transaction open; `set_state(FAILED)` of
the handler joins it, and is then committed by `record_failure` in `sync` but lost at the
exit of `download`. None of the properties depends on which.

`blob` is a set of digests and a row of `artifact` a release with one. A download, or a
file found in its place, has any digest: which file it is, is `Acquisition`'s. A
download whose digest is known skips `record_binary_blob` (`Deduplicate`); that the file
of that digest exists is taken as a choice.

Abstractions: descriptive columns, counts and timestamps are left out, `last_error`
and failure rows too; a script's statements are one step of its transaction; the
states of a release between RESOLVED and VERIFIED are in `Acquisition`.

### TokenScan, JsonBounds, CatalogBytes

`TokenScan` reads a text of character classes in reads of any length up to `Chunk`;
`Read` tries `MODEL_BYTES_RE` (`IsToken`, `Finditer`) on the last `Overlap` bytes and the
new ones, as `refresh` and `_descriptor_contains_model` do. `Grow` appends to the file
at any moment, `Resume` is the next `refresh`, `Rewind` bytes back. `Finditer` says which
tokens are taken instead of looking for them one after the other: those that begin in
no other that is taken.

`JsonBounds` is `_json_object_bounds` byte by byte: the variables are its locals
(`stack`, `inString`, `escaped`, `rootOpen`, `rootClose`, `lastContent`, `membersSeen`,
`memberStart`), one action per branch. Beside it runs a parser of JSON (`Feed`), the
reference definition, on three texts: the whole, the member at hand (`member`, which is
what `_validate_member` gives to `json.loads`) and what would be kept if the text were
cut after `lastContent` (`kept`). `Spliced` is the text `append_catalog_entry` then writes.

Abstractions: bytes and characters are classes; a multi-byte character is a letter,
and a chunk that is no UTF-8 is the action `Undecodable`. A number is a digit or
more. Two liberties of Python are left out: `bytes.strip` takes vertical tabs and form
feeds for blanks and `json.loads` accepts `NaN` and `Infinity`.

## 3. The runs

| Run | Instance | What it shows |
| --- | --- | --- |
| `acquisition` | 2 processes, 2 regions of a model, 2 full versions, 2 ZIPs, kills, deletions | 8 properties: exclusion, one region per model, verified ZIPs only, truthful digests, complete extractions, no second download, refinement of `ModelArchive` |
| `acquisition_ends` | the same with one version, kills and every operation raising; fairness | what failures leave is safe to go on from; once the trouble ends, the daily sync comes to hold the model |
| `catalog_appends` | 2 installations, 2 models, 4 inodes with reuse, kills | appends lose, double and tear nothing; no index holds what the file does not list |
| `index_scans` | 1 installation, 3 models, texts of up to 3 entries, 2 edits by growth or rename, kills | after a refresh the index is exactly the file, or the next refresh scans again |
| `sync` | 2 sources that disagree and tie on dates, 3 targets of 2 models, one of them listed by others at any time, `--limit` 2, kills, every operation raising; fairness | 8 properties: what is chosen does not depend on the order of answers, the most recent region is chosen, honest run and exit statuses, one region per model over many targets, transient failures starve nobody |
| `registry` | 2 processes, 2 targets, 1 source, 2 versions of one AP, 1 digest, 2 scripts, kills, every statement and commit raising; fairness | 11 properties: each script once and nobody on half a schema, one row per model, region and AP, provenance and columns that agree, nothing committed is taken back, nothing reported is missing, a process that lost the race for a migration gets in on a later start |
| `catalog_bytes` | texts of up to 6 pieces in reads of up to 3 bytes, overlap and rewind 8; all texts of up to 12 bytes, members of up to 9 | no model is missed and none is found where it is not; the walk accepts JSON objects only, and all of them but for large members; the text with the new member is JSON again |

Every passing run checks for deadlock but `catalog_bytes`, whose pass over a text
ends. The bounds are the smallest at which the interesting case happens. Exclusion
and takeover of a dropped lock need two processes; a second region needs two
releases of a model; a changed resolution needs two full versions, of different
bytes; deduplication needs two releases with equal bytes. A lost append needs two
writers; inode reuse needs one file more than the file in place, a copy for each
writer; an indexed prefix, an overlap and a tail need three entries. A tie needs two
sources, starvation two models, a limit that drops a target three targets. That others
list the model of one target is enough for each of its cases: before the run, between
discovery and selection, between selection and download, and while the other model is
extracted. One digest makes every second download a duplicate of the first. A race of migrations needs two processes and two
scripts, so that one may lie between them; a merge and a column that outlives its
version need two versions of one AP, the second with the part the first lacks; a
wrong target needs a second one with the same AP. Of the windows, what matters is
how the lengths compare: the overlap (8) is no shorter than any token (5 to 8
characters, in the code up to 19 of 64), nor is the rewind, and a read (3) is shorter
than a token, so that one spans several; a run of up to 5 is long enough for a token
in a token ("SM-SM..."), of which `finditer` takes only the outer one. The walk needs nesting, an
escape in a key and two members: 12 bytes have each. Longer histories come from the
commands repeating without bound: only edits of the catalog are counted
(`MaxEdits`).

The five remaining runs each expect a violation: the code differs from what the
repository says of it.

| Run | Statement | What happens |
| --- | --- | --- |
| `stuck_download` | a failed sync is recorded as RETRYABLE (`db.py` 156) | a kill after `set_state(DOWNLOADING)` leaves a state that `queue()` refuses, so no retry can succeed |
| `refused_extract` | "extracts an already verified decrypted ZIP" (`src/docs/commands.md` 94) | an exception after `record_artifact` marks the release FAILED; extract unpacks it and then refuses EXTRACTED |
| `reproducible` | "enough exact Samsung metadata to reproduce a download" (`src/docs/architecture.md` 27) | a kill between rename and row, then a new resolution: the old ZIP is catalogued under the new full version |
| `stale_append` | "every region for it is skipped" (`src/README.md` 64) | `_mark_appended` records the whole file as indexed, though a model was added after the last refresh |
| `empty_catalog` | "safely initialized as `{}`" (`src/README.md` 92) | a kill between creating and filling the file leaves it empty for ever |

Two more disagreements have no run of their own. `src/README.md` 64 says of a model in the
catalog that "every region for it is skipped", and `src/docs/commands.md` 76 that the
model is checked "before resolution and again before download"; `sync` asks once, before
resolution, and then downloads and extracts for hours (`cli.py` 251-276); `download` asks
again, but the index as its first question had refreshed it (`cli.py` 377). A model that
others list in that time is downloaded (and by `sync` extracted) all the same, even when
`extract_release` has refreshed the index in between. `Sync` has these behaviours:
with `catalog` in place of `asked`, TLC reports `DownloadsWereSelectable` violated. And `src/README.md` 66 says that a rewrite
"safely rebuilds the cache", and a file rewritten in place that ends longer than it
was is taken for one that grew (`metadata_index.py` 84). With "overwrite" added to the
`Edits` of `MCModelIndexScans.cfg` TLC shows `IndexIsExact` violated.

Each property of a passing run has a mutant: a plausible slip in a mapped definition
(next to it in the module, marked "Mutant") that makes TLC report the property.

### Fairness

`WF(Step(p))`: a process that is not killed keeps running; subprocesses have a timeout
(`backend/samloader.py` 72), SQLite a busy timeout (`db.py` 57). `SF(SyncModel(m))` in
`acquisition_ends`: the daily timer of `src/packaging/systemd` starts a sync, again and
again, and discovery keeps naming the model. Nothing forces a backend, a source or an
operator to succeed: `RetriesSucceed` and `RetriesReachEveryModel` assume that trouble
ends, in those words, in their statements. `RestartsGetIn` assumes that a process is
started again and again and, from some time on, stopped in `migrate` by nothing but the
race itself. `Sync` has no fairness on starting a
command; its liveness property is about models that syncs do keep discovering. While a
download keeps failing it does starve the targets behind it (`cli.py` 276): the model
has these behaviours, and the property does not deny them.

## 4. The theorems

All proofs are complete. They assume only what the modules name: the types of the
constants, the switches being Boolean, `None` and `Bad` being unlike any value they
stand next to, and `ScanDistances` of `TokenScan`, which compares four numbers of the
code (3, 16, 64, 4096). TLC evaluates these assumptions in every run. Two theorems,
`RefreshIsExact` and `LoneAppenderIsExact`, have a hypothesis besides: `Steady`
is what the run `index_scans` sets; for `Lone`, give `MCModelIndexAppends.cfg` one
appender, the symmetry of models and inodes alone, and `IndexIsExact`.

`AcquisitionProofs`, for any processes, models, releases, versions and digests, with
kills, faults and deletions:

- `TypeCorrect`, `MutualExclusion`, `Exclusive` (one verified region per model),
  `FinalZipsVerified`, `DigestsTruthful`, `ExtractedIsComplete`,
  `NeverDownloadedTwice`, and `Implementation`: Acquisition implements `ModelArchive`.

No property here is inductive alone: that no second region becomes verified depends
on what the running process saw when it was selected, still being true. The inductive
invariant is `SafetyInv`, a conjunction of `TypeInv` (types, which registers are set at
which step, a state exactly in rows with a full version, and only the holder of the
lock inside), `Data` (what holds of rows and files at rest) and `Job` (what the process
inside may rely on at its step: no other region is held, the digest it carries is
that of the file it is about to catalogue, and so on). Because the lock is exclusive,
a step of p can only disturb Job of p. Action properties and the refinement are
read off `SafetyInv` and one step.

`ModelIndexProofs`, for any installations, models, inodes, texts and edits:

- `IndexTypeCorrect`;
- `IndexesAreTruthful`: as long as no editor interferes, no index holds a model that
  the catalog does not list;
- `NothingIsLost`: as long as no editor interferes, however many installations append
  at once, the catalog only gains one unlisted model at its end, and stays whole.

Here installations do run at the same time, so the invariant `SafeInv` says for each
what survives the steps of the others: `OpLock` (who appends holds the lock of the
inode it has opened, and past the inode check the path names that inode), `OpCopy`
(a temporary file belongs to one installation and holds what was opened plus one
model that was not in it), `OpIndex` (what is opened, scanned or indexed is listed
now). The key lemmas are `Frozen` (nobody writes an inode another has opened),
`NameMoves` (the path moves only under the lock of the inode it names) and
`ListedAppend`; `ActOwn` and `ActOthers` put them together.

- `RefreshIsExact`: on a catalog that editors only lengthen or replace, that no
  installation appends to and whose file system gives no inode number twice
  (`Steady`), the index after a refresh holds exactly the models of the file as it was
  last seen, for any number of installations and edits, also during a scan.

`Steady` excludes what the code cannot tell from its fingerprint. Real file systems do
give inode numbers again, and a file with the number of the indexed one is told from it
only if it is shorter, or as long with another modification time (`metadata_index.py`
80-89). `stale_append` and the
overwriting editor of section 3 show the property false without it. The invariant
`ExactInv` says of a file in use that its number is one of those `born`, so that no
later file can be mistaken for it; of a row of `external_metadata_state` that the index
is exactly the entries up to its offset (`KnownRight`); of a scan that what it has seen,
with what the index holds unless it rebuilds, is exactly the entries up to its
position (`ReadRight`), and of the commit that it comes after the first `fstat`
(`SelectRight`). It survives edits because the entries up to an offset stay where they
are (`EditLengthens`).

- `LoneAppenderIsExact`: the same of a catalog that one installation alone appends to
  and nobody edits (`Lone`), for the appender and any number of readers, whatever is
  killed, also where inode numbers are given again.

`stale_append` is about an appender and an editor, for which it is false. Without editors every file
that was ever opened is a beginning of the catalog, so numbers and times no longer
matter, and the invariant `LoneInv` compares with the catalog alone: an open file is a
beginning of it (`FilesAgree`), an index lists a beginning of it up to its offset
(`IndexAgrees`), a scan too (`ScanAgrees`). What the appender marks without reading is
right because nobody else moves the end of the catalog (`ReadersStay`): from the
refresh before to the renaming its index ends where the catalog ends, and then lacks
the last entry, its own (`AppendAgrees`). It rests on `SafeInv`.

`SyncProofs`, for any sources, answers, targets and limits, in any order of the
answers, with kills and any operation raising:

- `SyncTypeCorrect`;
- `MergeIsIndependent`: what `discover` stores does not depend on the order in which the
  sources answer;
- `SelectionIsMostRecent`: of each model the region with the most recent record is
  resolved, the most recent models first, and `--limit` drops the oldest only;
- `WereSelectable`: no model whose turn comes is held by any region or was in the catalog
  that its selection asked, though all were selected before the first download and others
  list models meanwhile;
- `ZeroIsComplete`: exit status 0 means every resolved target is held, and extracted
  where that is automatic;
- `SyncKeepsArchive`: Sync implements `ModelArchive`;
- `LastRunTruthful`: a run that ended SUCCESS leaves every source without error, a
  PARTIAL one some source with one.

The inductive invariant `Inv` relates the lists in memory to the tables they were
computed from: `Fetching` (who has answered what), `Tables` (finitely many targets, each
named by a source), `Phases` (which lists are set at which step), `Probing` and
`Looping` (what is still to do is a part of what was selected, in its order, one region
for each model, none of them held or in the catalog that was asked), `Storing` (what of the arranged records
is stored). For `LastRunTruthful` there is `RunInv`: the row of a run in progress is
RUNNING and the checkpoint of a source tells how it ended; a kill leaves RUNNING, of
which nothing is claimed.

Two of these need to know what a sort returns, for any set and order. `EnumerationProofs`
has it: `Ranks` (a finite set with a strict order is enumerated by some sequence, and by
one only), `EnumeratedIs` and `AscendingOrders` (what `Enumerated` returns), `EnumeratedRenamed`
(a renaming that keeps the order keeps the sequence: that is the independence of the
order of answers, the renaming being that of positions), `PartIs`. The library's induction
rules take an operator and cannot be used here; `Least`, that a set of natural numbers that
is not empty has a least member, takes none and serves instead.

`RegistryProofs`, for any number of processes, targets, sources, versions, digests and
scripts, with any statement or commit raising and kills anywhere:

- `RegistryTypeCorrect`, `MigrationsOnce`, `FullSchema`, `CanonicalReleases`,
  `ReleasesObserved`, `ColumnsInAgreement`, `TargetsAtHome`, `CatalogueOrder`, and the
  action properties `NothingIsForgotten` and `ReportsAreStored`.

The inductive invariant `RegInv` has two halves. `ControlInv` says who has a
transaction: only a process in the middle of a call, and of those past `migrate`
only the holder of the process lock. `DataInv` says of the tables, committed or
seen, that they are in `Shape` (the invariants above, for both), that a transaction
only adds to what is committed (`Keeps`), what a process in `migrate` knows of the
scripts (`MigrationInv`), and, through `JobFits`, what the process inside may rely
on at its step: the release of its job is the row of its target and AP, its version
has been observed, and so on. `EveryReleaseObserved` alone does not survive the step
between the two statements of `upsert_observation`; the invariant excepts the row of
the running job there, and needs the explicit transaction to show that no commit
falls in between. That a pending implicit transaction may be committed by any later
call is harmless because `Shape` holds of `seen` after every statement.

`JsonBoundsProofs`, for texts of any length and nesting:

- `ScanIsExact`: the walk accepts a text exactly if it is a JSON object, except where a
  member is too large;
- `SpliceIsCorrect`: the text that is cut and completed is a JSON object again, and
  what is cut away is blank;
- `BoundsTypeCorrect`.

The invariant `BoundsInv` relates scanner and parsers: the stack of the walk is that of
the parser of the whole text, the member is parsed as the text is but for its first
key (`Alike`), and `kept` is the whole but for blanks (`ButBlanks`).

`CatalogBytesProofs`, for texts of any length, reads of any lengths and growth at any
moment, under the specification of the run:

- `NoModelMissed` and `NothingMadeUp`: what `finditer` finds in the whole of what is
  indexed was found by the windows, and what they found stands where they say;
- `BytesTypeCorrect`, `BoundsAreExact` and `AppendKeepsJson`, the last two from
  `JsonBoundsProofs`.

Their substance is in `TokenScanProofs`. `Covering`: a token can begin in another only
behind "SM-", ends with it and holds no hyphen, so that `finditer` takes exactly the
tokens that begin in no other (`Found`). `WindowShows`: a token of the text that ends
behind a point up to which all is found begins late enough for the window to show it,
with the character before it and with the token it may begin in. The invariant
`ScanInv` then says that all is found up to some `hi` no earlier than the offset, and
that the next window begins with the text or `MaxRun + 3` before `hi` (`Searched`), and
that the overlap is the piece of the file before the offset (`Joined`). `hi` may lie
behind the offset: after `Resume` a refresh reads again what an earlier one has found.

Only model-checked are the liveness properties (`RetriesSucceed`, `RetriesReachEveryModel`,
`RestartsGetIn`): fairness and ENABLED are beyond the prover.
Every invariant and every action property of a passing run is a theorem.

## 5. The plan

1. `ReleaseStates`, `Acquisition`, `ModelArchive`, their runs and proofs: done.
2. `ModelIndex`, its runs and proofs: done.
3. `Sync`, its run and proofs: done.
4. `Registry` (observations, target resolution, migrations and transactions), its run
   and proofs: done. It justifies the single steps `Upsert`, `Resolve` and `record_*` of
   `Acquisition`.
5. `TokenScan`, `JsonBounds`, `CatalogBytes`, their run and proofs: done.
   They justify the entries of `ModelIndex`.
6. Left: a formal refinement from `Registry` to the registry part of `Acquisition`;
   the manual target of `download --model`.

## 6. Not modelled

- The HTTP client (`sources/http.py`): rate limit, retries, response limits. Each
  source has a host and a thread of its own and configuration refuses a source that is
  listed twice, so no two threads share a host's slot; what its functions raise is
  `SourceFails` of `Sync`.
- The source parsers, the record analyzer (`metadata_catalog.py`), the normalisation
  of names and versions in `identity.py`: functions of their input, without state.
- Configuration, logging and redaction, packaging: parsing, output and unit files. Two
  switches of the configuration are constants, the timer is a fairness assumption.
- `--dry-run` (an in-memory copy of the registry) and the listing queries.
- Short writes and an editor that grows the catalog while it is copied
  (`metadata_index.py` 218-221): the code has no defence against them.
- Which parts of a token a scan may index beside the models: a read or a refresh that
  ends inside a token, or starts inside one, may index a part of it. The properties say that none is
  missed and none misplaced.

# Filmstock: a specification of its releases

Filmstock turns Wikipedia dumps into SQLite databases and publishes them as a
chain of releases: a monthly *full*, which hosts its databases, and a *daily*
per day, which hosts only patches. A client library brings a local directory to
the newest release, by patches where it can. The databases may be stored
compressed, by a SQLite VFS in C with a commit protocol of its own. This
directory models the two ends of the chain, the publisher and the consumer, and
the compressed storage under them, checks the models with TLC on small instances
and proves most of what is checked, for every instance, with TLAPS.

## 1. Inventory

### Components, their state and their operations

| Component | Source (under `src/`) | State | Operations |
|---|---|---|---|
| Release publisher | `internal/build/publishcmd.go`, `buildscatalog.go`, `bridgeguard.go`, `manifest.go`, `compresscmd.go` | `builds.json`; a directory per build in the release root; a directory per recent build in the work directory | `publish`, `builds`, `manifest`, `compress`, two one-time migrations |
| Consumer updater | `updater.go` | one directory per build, `state.json` | `Update`, `Check`, `Held` |
| Scripts | `scripts/run.sh`, `daily.sh`, `monthly.sh` | stage directory, lock, the current intermediate and resolver cache | daily publish, monthly rebuild, converge, promote |
| Uploader | `scripts/upload-r2.py` | the bucket | copy the release root, catalog last |
| Catch-up and update | `internal/build/catchup.go`, `update.go` | downloaded days | apply the missing days in order |
| Intermediate and import | `internal/build/intermediate.go`, `importcmd.go` | pages, links, `incr_through` | `Put`, `Replace`, `Flush`, `SetMeta` |
| Export and record builders | `internal/build/exportcmd.go`, `extract.go`, `dbwriter.go`, `*_build.go`, ... | none kept | derive every record from stored wikitext |
| Resolvers and index passes | `internal/build/qidmap.go`, `wdedges.go`, `compose.go`, ... | resolver cache tables | build-... and index-... passes |
| Dump reader | `internal/dump/` | worker queues | stream pages of a dump |
| Content hash | `contenthash.go` | none | canonical hash of a database, by rule version |
| Compressed storage | `internal/zstdvfs/*.c` (vendored, `UPSTREAM_COMMIT`) | two header copies, records, page map, free and pending lists | page write, truncate, commit, compaction, rebuild, conversion, recovery |
| SQLite's write-ahead log | `internal/sqlite3/sqlite3-binding.c` (vendored) | frames, `nBackfill`, read marks, locks | read transaction, commit, checkpoint, restart |
| The rest of SQLite, zstd, sqldiff | `internal/sqlite3/`, `zstd_amalgam.c`, `tools/sqldiff/` | | third-party |
| Full-text index, queries, web, wikitext, records, drivers, commands | `fts.go`, `db.go`, `internal/query/`, `cmd/`, `internal/wikitext/`, `internal/record/`, `internal/sqldrv/` | none kept | read-only, or pure text processing |

### How they interact

The scripts call everything as processes and hand over by files. A day's dump is
applied to the intermediate (catch-up), the whole database is exported from it
into a stage directory, and `publish` turns the stage into a release: it links
the databases into the work directory, diffs them against the previous build's
with sqldiff, proves each patch by applying it to a copy, writes the manifest
and, last, the catalog entry. The uploader copies the tree to a bucket. The
consumer reads `builds.json`, then whatever manifests, patches and databases it
decides to ask for, while the tree keeps changing.

The compressed storage sits below SQLite: the shim (`vfs_shim.c`) turns the
pager's reads, writes, syncs and lock calls on the main database file into calls
on a container (`container.c`). Rollback journals and write-ahead logs stay
plain files. A container is copy-on-write: pages are written as records into
free extents, and a commit writes a new page map and new lists and then flips
one of two headers. A reader in WAL mode keeps the generation it found when it
took its read lock, so space is reused only when the shim finds every read lock
free (the gate, `zvGateOk`).

### What is hard

* **Failure.** `publish` and `Update` are long; either may be killed or fail
  between any two writes. Neither uses a transaction across its files. `publish`
  calls `fatal`, which is `os.Exit`, so nothing deferred runs.
* **Shared files.** Databases are placed by hard link, so the stage, the work
  directory and the base build may be one file under several names.
* **Staleness.** The consumer works from one catalog snapshot against a shelf
  that is published to, pruned, and, against the rules, rewritten.
* **Order.** The chain is ordered by content day, ids break ties and are not
  dates; publishes may come in any order of either.
* **Durability and reuse.** The container's header is the only thing that says
  which extents are alive. An extent given up by the commit in flight is still
  named by the durable header, and one given up earlier may still be named by a
  reader's. Writes reach the medium in any order between two barriers, and a
  header may tear.
* **Progress.** A consumer must not stay where it is for ever: not on a pruned
  build, not on a rewritten one, not on a retired lineage.

### What makes each component correct

* Publisher: what is listed never changes, is complete, is what the export
  produced, and can be reached by the routes listed for it; no route rewinds; a
  bridge deletes nothing that still exists; the next build can be diffed.
* Route search: the road it finds can be ridden and costs what it says; no road
  that takes the builds in catalog order is cheaper; a prune leaves one to the tip.
* Updater: what it holds is a whole published build; it never goes back; it
  catches up.
* Scripts: the full contains every delta the tip holds; a half-failed run is not
  uploaded; a day is published once.
* Intermediate: applying a day twice is applying it once; `incr_through` is
  never ahead of the pages.
* Compressed storage: a crash or a failure leaves one of two whole images; what
  is read is what was written; a granule is never in two places; a reader's
  snapshot does not change; the log never forgets what the container lacks, or
  where the code does not keep that, exactly when it does not.

`PROJECT.json` lists the hazards with their lines, and which property covers
each; those without one are the plan of section 8.

## 2. Modules

| Module | What it is |
|---|---|
| `Catalog` | `builds.json` as a function from ids to entries: its order, tip, `nthBack`, `newer`, `guardThrough`, `routes`. Pure operators. |
| `Routes` | `catalog.cheapest`: seeds, one sweep, walk back. Pure operators, no RECURSIVE. |
| `MCRoutes` | a catalog that grows in any order of days and is pruned, and a reference search to check `Routes` against |
| `Publisher` | `CmdPublish` and `CmdBuilds`, phase by phase |
| `Shelf` | the published tree as the consumer sees it, abstracted from how it is written |
| `Updater` | `Update`, step by step, against a `Shelf` that moves |
| `Lineage` | the promise of `Update`: the abstract specification `Updater` implements |
| `AtomicFile` | what the container promises the pager: one whole image to the next. Abstract. |
| `Alloc` | the extent allocator, `alloc.c`. Pure operators. |
| `Records` | records, page map, compaction, and what a commit writes. Pure operators. |
| `Container` | one connection: writes, truncates, rebuild, conversion, commit, failures, crashes |
| `Generations` | when the space of a superseded generation may be reused. Abstract. |
| `WalGate` | readers, writers and checkpoints in WAL mode over a container |
| `MCPublisher`, `MCUpdater`, `MCContainer`, `MCWalGate` | instances for TLC |
| `CatalogProofs` | the catalog's order, and what the route search returns and costs |
| `PublisherProofs`, `RoutesProofs`, `UpdaterProofs` | theorems on the publisher, the catalog that grows and is pruned, the consumer |
| `RecordsProofs`, `ContainerProofs` | theorems on the allocator, compaction and commit; on the container built from them |
| `GenerationsProofs`, `WalGateProofs` | theorems on the protocol of reuse; on the log over a container |

`Catalog` is shared by all: `Publisher` extends it, `Routes` extends it, `Shelf`
extends `Routes` and `Updater` extends `Shelf`. `Updater` instantiates `Lineage`
under a refinement mapping. `Records` extends `Alloc`, and both `Container` and
`WalGate` extend `Records`: the two give one set of operators different states,
`Container` one connection with a disk that can fail, `WalGate` many connections
with a disk that cannot. `Container` instantiates `AtomicFile`, `WalGate`
instantiates `Generations`. `WalGateProofs` instantiates `GenerationsProofs` under
that mapping and so takes over its invariant.

Definitions whose names end in `_something` and whose comment starts with
*Mutant* are plausible bugs of the definition they are named after. Nothing uses
them; each property is tested by putting one in.

### Catalog

Ids are naturals ordered as the id strings are. The JSON array, sorted by
(`through`, `id`) with unique ids, is a function read in that order, so
"replace or append, then sort" is one function update. An `edges` field maps
each source build to a price; a build has at most one route from each source, as
`publish` writes them. Ties in price are broken arbitrarily by the model and by
position in the code.

### Routes and MCRoutes

`cheapest` is the code's function: seeds, one sweep in catalog order, walk back
from the target. `MCRoutes` has one variable, the catalog, and the actions
`Publish` (a daily, or a full that bridges), `PublishBeforeEdges` (an entry as
written before edges existed), `PublishFresh` (`-fresh`, or the first build) and
`Prune`, which removes any build older than the newest full. A publish takes the
tip as its base and may carry one rollup from any listed build. The day guard
compares a new build's day with its base's, so a fresh full, which has no base,
may have any day.

No action asks that the new build become the tip. Of two builds of one day the id
decides, so a daily may sort before the full it patches from: then its route leads
back in catalog order, and a later rollup may start from it. A fresh full of an
older day leaves the tip in the lineage that it meant to end. What the properties
can say of such catalogs is in section 4.

`Put` takes an id that is not listed. An id that was pruned and that a route still
names comes back only where `Reuse`; `publish` itself refuses an id only while its
directory exists, and scripts use dates. The run has `Reuse` FALSE to stay small;
the theorems hold with either value.

### Publisher

| State | Code |
|---|---|
| `cat`, `torn` | `builds.json`; whether a write to it was cut short |
| `disk` | every database file, as the set of paths that name it and its content. `linkOrCopy` adds a name, or copies; writing a file writes it under all its names |
| `rootDirs`, `workDirs` | which build directories exist |
| `patches`, `manifest` | `root/<id>/*.sql.gz`, `root/<id>/manifest.json` |
| `pc`, `job` | the phase of the running `publish`, its arguments and locals |
| `intent` | history: what each listed build's publish was given |

A database is a set of pages, which is what the bridge guard tells apart and
enough to tell two databases apart. The phases are the sections of `CmdPublish`
in its order: `Start` (arguments, base, epoch, `guardThrough`, the directory
must be new), `LinkFile`/`EndLink`, `Diff`, `Rollup`, `Guard`, `HostFile`/
`EndHost`, `WriteManifest`, `OpenCatalog`/`WriteCatalog`, `Prune`. `Stop` may
come after any of them and stands for a check that fails and for a killed
process alike. sqldiff is external and may produce any patch; `verifyPatch`
decides. `Restage` and `Export` are what the scripts do between publishes;
`ClearFailed` is the instruction of `daily.sh:262-268`, with the constant
`CleansWork` for whether the person who follows it removes the work directory
too. There is one publish at a time: the scripts hold a lock.

One `-rollups` span per publish is modelled (the code loops over a list).
`-compress` keeps the content hash and is left out.

### Shelf and Updater

A build's content is its id and how often it was rewritten; content equality is
content-hash equality. A patch is honest, lies, or is missing for a file. A
consumer's file is a content and whether its bytes are still the published ones
(rebuilding the full-text index changes bytes, not content).

The phases of a call are those of `update`: `Call` (catalog, stand pat),
`Choose` (version gate, `cheapest`), `TakeFull` (full road, never downgrade),
`Retake`, `Fetch`/`EndFetch`, `ChooseOnward`, `Wipe`/`Carry`/`Apply`/`Verify`
(`applyChain`), `Finish`, `Commit`/`Record` (`state.json`, truncated and then
written). The catalog is the snapshot `call.view`; everything else is read from
the shelf of the moment. `ChainFails`, `GiveUp`, `NetworkFails` and `Crash` are
the error paths. The shelf may be published to, withdrawn from (only what is
older than the newest full), and, when `Rewrites`, rewritten.

`Withdraw` and `Rewrite` are what an operator does to the tree; no code in `src/`
does, but `updater.go` handles both, and they are modelled from that.

### Alloc and Records

Space is counted in granules of the allocator; granule 0 is the header block.
The lock hole, the byte range SQLite locks at 1 GiB, is `Hole0 .. Hole1-1`.
`fr[]` is sorted and coalesced, so it is the set of its granules and its extents
are the maximal runs; a pending generation is a set as well. Best fit, lowest of
equals, is `Peek`; `Take` is `zalloc_take` with its fall-back to `Extend`, which
crosses the hole; `ResetSpan`, `Release`, `Untake` and `Trim` are the functions
of those names.

A disk maps granules to records. Its granules are the constant `Granules`: all of
them in the theorems, enough that no run fills them in the runs. A record is a page with its content, the node
of the page map, a free list or a pending list; the compressed bytes, checksums
and sizes within a granule are left out. The page map has one node, the root,
which is what the code has up to 256 pages: the levels above rewrite the path to
the root the way the root is rewritten here. `Compact` is `zcompact_step`: runs
between free extents, the highest first, each live record moved down if a lower
gap fits it.

### Container

| State | Code |
|---|---|
| `disk`, `dur` | what a read returns, and what is on the medium |
| `slot`, `slotDur` | the two header copies, in the cache and on the medium |
| `mode`, `hdr`, `which` | the shim's `mode`; `c->hdr`, `c->whichHdr` |
| `tab`, `count` | what `zmap_get` answers, `c->stagedCount` |
| `alloc`, `dirty`, `rb` | `c->alloc`, `c->dirty`, `c->pRb` |
| `pc`, `cm`, `pack` | where `commit_once` is, what it is about to write, the pack loop |
| `staged`, `settled`, `leaky` | history: the transaction's image, the file's, whether a rebuild lost space |

A commit is a `Prepare` (release, trim, compact, place the map and the lists,
cut the file), a `Barrier` with the header write behind it, and `Land` behind
the second barrier. A conversion writes copy B, passes a barrier (`SecondCopy`),
and then writes copy A. A rebuild (`BeginOverwrite`, `RebuildWrite`,
`RebuildTruncate`, `RebuildAbandon`) commits with `ResetSpan` and is followed by
the pack passes. `WriteFails`, `PrepareFails`, `HeaderWriteFails`, `FlipFails`
and `WalkFails` are the error paths; each ends in `Adopt`, which is
`zctr_sync_abort`, or hands the extent back. `Crash` keeps any of old, new and
torn headers, and none or all of the unsynced records; the property
`CommitIsAtomic` looks at every subset of them in every state.

Assumed: the first header of an empty file lands whole (a torn one makes the
file unreadable, as `detect_mode` then finds neither a header nor a plain
database nor zeros); after a failed flip barrier cache and medium agree on the
header; SQLite's hot journal restores page 1 of a plain file whose conversion
was torn; where `Journaled`, a failed write is rolled back, and that committed,
before a VACUUM starts (section 5). Simplified: the lists are loaded at once instead of on first use; the
compaction's byte budget does not run out; of a compaction that fails half-way
the copies into free extents are not kept; `PASS_CAP` and the re-probe at
`ZVFS_PENDING_CAP` are left out; a truncate only shrinks; a rebuild keeps the
page size, so `rebuild_reassemble` does nothing.

### WalGate

| State | Code |
|---|---|
| `wal`, `salt` | the frames of the log, each one transaction of one page; the salt of the log header |
| `nBackfill`, `mark` | `WalCkptInfo` in shared memory |
| `reader` | each reading connection: where `walTryBeginRead` is, its copy of the header, its slot, the container header it adopted, `minFrame` |
| `ck`, `conn` | the checkpoint, and the container of the connection it runs on |
| `disk`, `hdr` | the file |
| `base` | history: the database when the log was last started |
| `lost` | history: the pages that a failed commit dropped after a whole copy |
| `reader[r].late`, `.overtaken` | history: what befell the reader when it started (below) |

`ReadHeader`, `LockZero`, `MarkSlot`, `LockMark` and `BeginRead` are the steps
of `walTryBeginRead`, with a return to `idle` for a retry; `LockMark` adopts the
container's header as `zvShmLock` does. `BeginCkpt` to `EndCkpt` are the steps
of `walCheckpoint`, with `CkptDone`, `ProbeSlot`, `Prepare`, `Flip` and `Land`
for the commit the shim makes at `SQLITE_FCNTL_CKPT_DONE`. A checkpoint may run
on the connection of the one before, with its lists in memory, or on another,
which loads the lists from the file (`Adopted`). One checkpoint runs at a time
(`WAL_CKPT_LOCK`). `RestartLog` is `walRestartLog`, which the end of a RESTART
or TRUNCATE checkpoint also amounts to. The exclusive locks `MarkSlot` and the
gate hold for a moment are part of their steps. Not in this model: crashes and
torn headers (`Container`), growing and shrinking databases, the guard that
refuses to truncate a log the container is behind, the pending-cap re-probe.

Nothing keeps a reader from starting, or a commit from failing, at any moment.
Three things the code does then are more than its comments allow, and history
variables, which no guard reads, tell them apart:

* `late`: the reader took its lock on a slot that the gate had already tried and
  found free (`Passed`), and adopted the header that is about to be replaced. The
  commit goes on with an open gate, so it releases what this reader needs
  (`container.c:520`).
* `overtaken`: a checkpoint that flipped its header after the reader's lock moved
  `nBackfill` before the reader looked at it (finding 6).
* `lost`: the commit at `CKPT_DONE` failed after every page had been copied.
  `zctr_sync_abort` drops the pages, SQLite does not look at the result and counts
  the frames as copied (`sqlite3-binding.c:69843-69856`).

The properties say that nothing else goes wrong, and that each of the three harms
only that reader or those pages.

## 3. Runs

| Run | Question | Result |
|---|---|---|
| `routes` | What is one sweep in catalog order good for, when patches may lead back? Can its road be ridden? Does pruning strand anybody? | holds, 106,312 catalogs |
| `publisher` | Is the released tree immutable, complete and rideable whatever is published, stopped and cleared? | holds, 0.9 million states |
| `publisher_rerun` | ... and when the work directory of a dead publish stays? | violated: finding 1 |
| `publisher_rollup` | ... and when a rollup's source was pruned? | violated: finding 2 |
| `updater` | Does the consumer always hold a whole published build and never go back? | holds, 1.4 million states |
| `updater_live` | Does it catch up, and replace what was rewritten? | holds, 0.6 million states |
| `updater_retake` | Does an interrupted call never damage the build in use? | violated: finding 3 |
| `updater_epoch` | Does opening an epoch reach every consumer? | violated: finding 4 |
| `container` | Is a commit atomic, are reads right and space accounted for, whatever fails? | holds, 160,000 states |
| `container_hole` | Can the compaction always parse what it walks? | violated: finding 5 |
| `walgate` | Do snapshots hold, and does the log lose nothing, while checkpoints commit, fail, compact and recycle, but for the three exceptions of section 2? | holds, 770,000 states |
| `wal_reader` | ... and when a checkpoint ends while a reader starts? | violated: finding 6 |

### Bounds, and why they are enough

* `routes`: four builds over two content days and two epochs, a patch from the tip
  for 2, a rollup for 1, a full for 3. Four builds give a chain, a rollup across
  it, a prune of its middle and a retired epoch at once, and the counterexamples
  to the stronger properties of section 4; two days give ties that only ids break
  and fresh fulls older than the tip. The prices make each of "patch", "rollup"
  and "download" the cheapest somewhere. `MaxThrough`, `MaxEpoch`, `PatchPrice`,
  `RollupPrice` and `FullPrice` name the bounds.
* `publisher`: three builds, so that a rollup has a source that is not the base;
  `KeepTips = 1`, so that pruning happens; ids in any order against two days,
  so ties and reordering happen; one database of one page, as content present
  or absent. A second database would matter for files that debut in a build;
  the proofs cover any number. `MaxEpoch = 1` bounds `-fresh`. The run assumes
  that a dead publish is cleared completely (`CleansWork`) and that a rollup's
  source is still kept (one span, within `KeepTips`); the two violation runs
  drop one assumption each.
* `updater`: three builds, three days, two epochs, two databases (the core, the
  only one `finishBuild` verifies, and another), at most one faulty patch at a
  time (`MaxFaulty`) and one failed or killed call (`MaxFaults`).
* `updater_live`: one database and one epoch with two days, one fault, and in
  exchange rewrites and states left by an older client.

* `container`: two pages and three writes, records of one and two granules, so
  that gaps come in sizes that fit and do not; three generations, so that an
  extent can be given up, released and used again; the lock hole at granule 6,
  where every stream crosses it; 18 granules (`MCGranules`), which no run fills (a
  `Take` beyond would break `TypeOK`); one failure and one crash, each anywhere.
  `container_hole` needs neither.
* `walgate`: two pages, two readers, the two slots they can hold besides slot 0,
  and two transactions, which give partial checkpoints behind a reader, a
  checkpoint by another connection, a restarted log and a generation in limbo
  across two commits. `MaxFaults` is one copying
  that stops after a page, or one commit that fails; a stop before the first page
  is not counted. The hole is granule 8, which the database grows across; of the 20
  granules no run uses more than 18.

`CHECK_DEADLOCK FALSE` is set where the system really stops: in `routes` when
every id is used, in the updater runs when the builds run out and the consumer
holds the newest, in the container runs when the writes and generations are
used up. `walgate` never stops: a reader can always begin.

### Fairness

`FairSpec` assumes weak fairness of the consumer's own steps: a call that is
running runs to its end unless it dies, and its caller calls again. The latter
is not the library's doing: `updater.go` says that nothing happens in the
background and to call it when an update is wanted. Nothing is assumed of the
shelf: it need not ever change, and the network may fail at most `MaxFaults`
times. The route search's phases are left by assumption (`[]<>(pc \notin ...)`),
which is weak fairness of two more actions that are always enabled in their
phase, written so that TLC need not evaluate the search inside an ENABLED.
The storage models state safety only: nothing schedules a checkpoint or a
commit but its caller.

## 4. The properties

Publisher: `ThroughNeverRewinds`, `RoutesReproduce`, `PublishesTheExport`,
`TipHasDiffBase`, `FullsAreHosted`, `NoUnexplainedRemoval`, and the action
property `PublishedIsImmutable`. Route search: `CheapestIsMinimal` (against a
reference that collects the price of every road), `RoadIsRidable`,
`TipIsReachable`. Updater: `HeldIsWhole`, `KeepsPromise` (the refinement of
`Lineage`), `CatchesUp` and `FullsAreRetaken`. Container: `CommitIsAtomic` (the
refinement of `AtomicFile`), `ReadsWhatWasWritten`, `SpaceIsAccounted`. Log:
`SnapshotsHold`, `NothingElseIsLost`, `RecyclesAsPromised` (the refinement
of `Generations`). Each is stated in words above its definition.

`CheapestIsMinimal` says three things: what `cheapest` asks is the price of some
road, it is no more than the price of any road that takes the builds in catalog
order, and if there is such a road it finds one. It does not say that the price is
the least of all: one sweep settles a build before it settles a later one, so a
cheaper road over a patch that leads back may be missed. That takes a daily of the
day of the newest full, which sorts before that full, and a rollup from it.

`TipIsReachable` has a premise, `FullInPlace`: the newest full is of the tip's
epoch and does not bridge from a build after it. Without it pruning can strand
everybody, against `buildscatalog.go:111-112` ("A missing route is not a failure,
only a longer path — which is what makes pruning old builds safe"): full 1 (day 1,
epoch 0), daily 2 (day 3), fresh full 3 (day 2, epoch 1). The tip is 2, the newest
full is 3; prune 1, which is older, and no road leads to 2. The premise is about the
newest full only: dailies that do not become the tip, and rollups, are free.

`CommitIsAtomic` maps the state to the set of images a crash at this moment
could leave in the file, computed from both header copies and every subset of
the unsynced granules they reach, and demands that this set only ever holds the
last acknowledged image, or, while a header is in flight, that and the new one.
An extent reused too early, a header flipped before its records, a compaction
onto a live place: each shows up as a torn image in that set.

`SnapshotsHold` compares what a reader would read of every page, now, with the
database as of the log header it began with, so a checkpoint that recycles, or
counts a frame as copied that the reader's generation lacks, is caught whenever
it happens. It speaks of every reader that is neither late nor overtaken, and of
every page not lost; `EverySnapshotHolds`, without these exceptions, is what the
comments promise and what `wal_reader` violates. `RecyclesAsPromised` also covers
the lists in the file: what another connection would load must be as safe as what
is in memory. A late reader pins nothing there.

Each exception is needed. TLC violates `RecyclesAsPromised` in 13 states if late
readers count as pinning, and `NothingElseIsLost` in 13 states if lost pages count.
The snapshots of late readers hold with two frames and break with three
(`MaxFrames = 3`, `MaxFaults = 0`), in a trace of more than 40 states.

`HeldIsWhole` fails once builds are rewritten in place or an older client's state
is found, because `retakeFull` deletes first; `updater` excludes both and
`updater_retake` shows why. `CatchesUp` is conditional on a shelf that stays
sound and whose epochs do not open with older content; what happens otherwise is
`FullsAreRetaken` and finding 4.

## 5. Findings

1. **A dead publish poisons its re-run.** The deferred clean-up of `CmdPublish`
   never runs, `daily.sh` has the operator remove only the release directory,
   and `linkOrCopy` then copies into whatever the work directory still holds,
   emptying the staged file when both are one.
2. **A pruned rollup source is offered.** The test for the source's databases
   falls back to the release directory, which a daily has and which holds none.
   The catalog gets a route of 0 bytes with no patch behind it.
3. **Taking a build again removes the one in use first.** A failed download then
   leaves nothing; a daily cannot be downloaded at all.
4. **A lineage break may go unnoticed.** A consumer stands pat by content day; a
   fresh full of the same day, or an older one, does not move it. In the run the
   consumer holds full 1, and a fresh full of its day opens the next epoch.
5. **A rebuild loses the gap before the lock hole.** An append across the hole
   lists what lies before it as free; `zalloc_reset_span` then clears the lists.
   The gap holds no record and is in no list, so the compaction, which walks
   records, fails when it reaches it: at once in the pack loop, later in ordinary
   commits, until the next VACUUM. It takes a database whose VACUUM or conversion
   streams across 1 GiB.
6. **A starting reader can miss commits.** It adopts a container header with its
   lock and reads `nBackfill` afterwards. A checkpoint that commits and ends in
   between leaves it with a header that lacks the frames it then skips.

Six more were met while modelling or reading, and are listed as hazards. No run is
given to them. The models show the first two and the fifth (section 4) and the last
(below); the other two are read from the source.

* The gate is tried before the commit and used after the flip: a late reader's
  extents are reused, against `container.c:283-286`, where the gate exists to
  prevent just that.
* SQLite ignores a failed `CKPT_DONE`: after a whole copy committed pages are lost
  to new readers, although `vfs_shim.c:985-988` has the header durable before
  frames may be skipped, and the log may be restarted over the frames.
* SQLite sends `SQLITE_FCNTL_OVERWRITE` for a VACUUM in WAL mode too, where the
  shim's comment says it never does.
* The uploader reads `builds.json` after it has walked the directories
  (`upload-r2.py:112-138`), so the catalog it sends can name a build whose files it
  does not, against its comment at 127-131.
* A prune can strand every consumer when the newest full is not in place, and the
  sweep can miss the cheapest road (section 4).
* An undone take leaves `eof` too low.

The last came out of a proof that would not go through. `zalloc_untake`
(`alloc.c:183`) retracts `eof` when the extent it takes back ends there, and that
extent may have been a free one below `hdr.eof`: "a true undo leaving no trace"
(`alloc.c:176-179`) then leaves `eof` below `hdr.eof`. `zctr_begin_overwrite`
starts its stream at `eof` but reclaims all below `hdr.eof`, and
`zalloc_reset_span` (`container.c:1298`) gives the stream's own live records up;
"nothing below the old eof was ever touched by the append-only rebuild stream"
(`container.c:704-707`) no longer holds. TLC finds it with one page, sizes
1, 1, 1, 4, 1, five writes and one fault, without crashes: three commits, a write
that fails in the free extent at the tail, a VACUUM. It needs a VACUUM between the
failed write and the next ordinary commit. With a rollback journal SQLite writes
the journalled pages back and commits first; with `journal_mode=OFF`, or when
the failed write was a checkpoint's, it does not. The constant `Journaled` keeps
that apart: where it is TRUE, `BeginOverwrite` starts only when `eof` is at
`hdr.eof` or beyond. The run and the theorems have it TRUE.

## 6. What is proved

Every theorem is for all values of the constants that the named assumptions of
its module allow (`PublisherAssumption`, `WalAssumption`, ...): any number of
ids, days, files, pages, spans, readers, slots, and any bounds. What a theorem
assumes beyond that is in its ASSUME and is said here. Of the 24 properties that
passing runs check, 22 are stated by a theorem; the other two are the liveness
properties.

No property below is inductive by itself. Each invariant was checked as an
INVARIANT of a run before it was proved, conjunct by conjunct. Each preservation
proof has one lemma per action.

### Publisher: `PublisherProofs`

The invariant comes in three layers.

    IInv     == TypeOK /\ TreeInv /\ LinkInv /\ RouteInv /\ ThroughNeverRewinds
    FilesInv == Unique /\ RootAlone /\ TipInWork
    TreeIInv == DirsInv /\ KeptInv /\ WorkInv /\ BridgesInv /\ JobInv /\ PublishedInv

* `IInv` gives `PublisherTyped`, `RoutesLeadForward` (`ThroughNeverRewinds`) and
  `CatalogHasTip`. `LinkInv` says that what a phase reads is on the disk because
  an earlier phase put it there; without it `FileAt(p)` is an arbitrary value and
  types are lost. `RouteInv` ties the running job to the catalog: the id is not
  listed yet, the base is the tip that `guardThrough` compared the day with, and
  each route collected so far starts from a listed build no later than the job's
  day. `TreeInv` says that the catalog has a last build, which makes `Latest`
  mean something. `CatalogProofs` has the order these rest on: `Before` is total
  and transitive on a catalog whose days are naturals.
* `FilesInv` adds that a path names one file, that a hosted database has no other
  name, and that the tip is in the work directory. With `KeepTips >= 1` it gives
  `PublishedStays`: nothing that is published ever changes
  (`PublishedIsImmutable`), not even after a publish died and was cleared badly.
  `RootAlone` is the point: files are placed by hard link everywhere else, and a
  write through any of the other names must not reach a hosted file.
* `TreeIInv` relates directories, kept databases, the running publish and what is
  listed: a listed build's work directory holds what its manifest says, the last
  `KeepTips` builds have one, and every phase of the job knows what it has
  linked, hosted, diffed and guarded. `ShipInvariance` proves it, and from it
  follow `PublishedIsTheExport`, `RoutesCanBeRidden` (`RoutesReproduce`),
  `FullsHostTheirDatabases` (`FullsAreHosted`), `BridgesExplainRemovals`
  (`NoUnexplainedRemoval`) and `TipIsADiffBase` (`TipHasDiffBase`).

The last five assume

    Kept == CleansWork /\ KeepTips >= 1 /\ \A n \in Spans : n < KeepTips

that is, a dead publish is cleared from the work directory too, the tip is kept,
and a rollup spans fewer builds than are kept, as in the settings that
`docs/CHAIN.md:417-422` gives (`-rollups 7,30` with `-keep-tips 31`). Findings 1
and 2 are the counterexamples when the first and the last are dropped. TLC
checked the whole invariant on the instances that meet `Kept` with three ids,
two kept tips and span 1 (862,268 states) and with four ids, one kept tip and
span 0 (3.1 million states).

### Route search: `CatalogProofs`, `RoutesProofs`

`CheapestIsARoad`: on any finite catalog, patches that lead back included, what
`cheapest` returns can be ridden, each step being a listed route of
the target's epoch from where the step before it ended. The sweep is a recursive
function over the catalog's order; the proof is by the least build at which the
sweep's invariant fails.

The other three are about the catalogs that publishes, rollups, lineage breaks and
prunes build, of any days, and need no hypothesis on the order in which builds are
published. The invariant is `CatInv`. Its core is conditional: while the newest
full is in place (`FullInPlace`), a chain of builds of the tip's epoch (`IsChain`)
leads from that full to the tip, each with a route from an earlier one. A build
that becomes the tip extends the chain by its route from the tip it was diffed
against; a full that is in place starts a new one; a build that sorts elsewhere
leaves it alone; and a prune removes only what is older than the newest full, so
never a link. `NobodyIsStranded` (`TipIsReachable`) is then that the sweep follows
the chain, from the full a consumer without anything better can download. TLC
checked `CatInv` on the 106,312 catalogs of the run.

`RoadsCanBeRidden` (`RoadIsRidable`) is `CheapestIsARoad` over these catalogs.

`TheCheapestIsTaken` (`CheapestIsMinimal`) compares the sweep with the reference,
`AllPrices`, which collects the price of every road in as many rounds as there are
builds; the code makes one sweep in catalog order and keeps one price for each
build. `SweepSettles` is what one sweep does: the builds before a build in catalog
order have had their turn when its own comes, so its price is no more than its
start, or a patch from any found build before it, offers. That gives one half round
by round: after n rounds no price that the reference has by roads in catalog order
is below the sweep's. For the other half, each turn of the sweep takes its price
from one the reference has already collected, at most one round later
(`CostsAreOfRoads`), so what the sweep charges is the price of a road.

### Consumer: `UpdaterProofs`

`TypesAreRight` holds on any shelf, with rewritten builds and an older client's
state. The others assume

    Immutable == ~Rewrites /\ ~OldClient

builds are not rewritten under their id, and the state records a content hash.
Without it `retakeFull` removes the held copy first: `updater_retake` is the
counterexample. Under it, `HoldsWhatItSays` (`HeldIsWhole`), `CallsLeaveItWhole`
(the property `updater_retake` violates holds here) and `ImplementsLineage`
(`KeepsPromise`): what the consumer holds is whole at every moment, whatever
patches lie or are missing and wherever it dies, and it never moves to older
content. The invariant is

    UInv == TypeInv /\ DaysInv /\ HeldInv /\ RunInv

The call works from an old snapshot of the catalog against the shelf of the
moment, so the invariant has to say what an outdated catalog still tells about a
build that it may no longer list. That is `Covers`: such a build is no newer than
the newest, and if it is not listed, no newer than the newest full. It is why a
consumer on a pruned build that falls back to the newest full does not move back
in time. TLC checked `UInv` on 1,402,378 states.

### Compressed storage: `RecordsProofs`, `ContainerProofs`, `GenerationsProofs`, `WalGateProofs`

Of the allocator, for any lists, lengths and place of the hole, one theorem per
operation: `ReserveKeepsTheGap`, `TakeIsFresh`, `UntakeGivesBack`,
`FreeOnlyPends`, `ReleaseFreesTheOld`, `TrimKeepsSpace`. Each says that the
allocator stays `Sound` (free extents lie between the header and `eof`, outside
the hole) and what becomes of its `Spare` space, the free granules and those
beyond `eof`: only `Take` makes it smaller, by exactly what it hands out, and
only `Release` and `Untake` make it larger. There is no such theorem of
`ResetSpan`: it drops the free list, which is finding 5.

Of what is built on it: `CompactKeepsPages`, that a compaction changes no page's
value, writes only where there was room, and gives up exactly what it moved; and
`CommitReplaces`, that whatever a commit writes before its header leaves every
place of the old generation alone, and that the new header names a whole
generation with the same pages. These and all that follows assume

    Endless == Granules = Nat \ {0}

a disk that no run fills. A full disk makes a write fail, which the model has as
a fault of its own (`WriteFails`, `PrepareFails`; `CopyStops` and `CommitFails` in
`WalGate`).

`ContainerProofs` goes from the operators to the container: every step of it, with
failed writes, failed barriers, torn headers and crashes anywhere. Its theorems
also assume `Journaled` (section 5). Of the structure:

    IInv == KeptInv /\ SlotInv /\ WorkInv /\ StreamInv /\ CommitInv

* `KeptInv`: the generation the adopted header names is whole on the disk, and
  what it needs (`Kept`; the plain database's bytes while converting) is on the
  medium as well. This is what a crash falls back to.
* `SlotInv`: of both header copies, in the cache and on the medium, the one that
  would be picked is the adopted one, or during the flip that or the new one.
* `WorkInv`: the allocator and the map in memory account for every granule once
  (`Ledger`, `Full`), and nothing of `Kept` is to be had: it is in limbo under a
  number that the next release does not reach.
* `StreamInv`: a rebuild's records lie above the old generation and apart from
  what may still be taken.
* `CommitInv`: from the moment the records of a commit are written, the generation
  its header will name is whole, and after the barrier on the medium too.

Each is needed for the next: a write is harmless because what it takes is not
kept (`WorkInv`), a commit builds a whole generation because of `CommitReplaces`
over a sound allocator, and landing is safe because `CommitInv` becomes `KeptInv`.
`WholeGeneration` is `Spec => []IInv`; from it follow `TypeHolds` (`TypeOK`) and
`SpaceHolds` (`SpaceIsAccounted`). Of the contents:

    DataInv: settled is what the adopted generation holds on the medium, staged
             what the map (during a rebuild, the stream) leads to on the disk

(`HoldsItsImage`). With it every image a crash can leave is computed
(`CrashLeavesOne`): `{settled}` up to the data barrier, `{settled, staged}` while
the first header is under way, and `{staged}` when a conversion writes its second
copy. That gives `ReadsHold` (`ReadsWhatWasWritten`) and `CommitHolds`
(`CommitIsAtomic`): every step of the container is a step of `AtomicFile`: ordinary
writes, syncs and `Prepare` are its `Stage`, `Barrier` its `Attempt`, `SecondCopy`
its `Harden`, and `Land`, the failures and the crash its `Settle`. TLC checked
`IInv` and `DataInv` on the 163,912 states of the run before they were proved.

`GenerationsKeepPlaces` proves of the abstract protocol that no place which the
current generation or a reader's generation names may be written. Its invariant

    IInv == TypeInv /\ Separate /\ SavedSeparate /\ PinsSafe

says that spare, limbo and the generation being built are disjoint, the same of
the lists in the file (another connection may take over with them), and that no
reader's generation is in what may be written.

`WalGateProofs` carries that over to the log. The layer below is

    Base == TypeInv /\ LockInv /\ DiskInv /\ (IInv of Generations, mapped)

where `DiskInv` says that the current generation, every reader's and the one
being built are whole on the disk. Every action is a step of `Generations` or
leaves its variables alone, so `RecyclesThePromisedWay` (`RecyclesAsPromised`)
and `TypesHold` come with the induction. The layer above is `LogInv`, about what
the log and the container say together: the container with the frames behind
`nBackfill` on top of it is the database (`CaughtUp`), the same for each reader
with its own header and `minFrame` (`ReaderLog`), and in the middle of a checkpoint
each page is the old one or the frame it is due for (`CkptLog`). From it follow
`NothingIsLost` (`NothingElseIsLost`) and `SnapshotsAreKept`
(`SnapshotsHold`).

All four assume `Endless` and nothing else. Readers start, copies stop and commits
fail wherever the actions let them, and the invariant says of a late or overtaken
reader only what its types are. `Pins` is the reader the gate answers for: one that
holds a slot the gate has tried is late (`LockInv`), so an open gate means that
nobody whose pin counts has one, and `PinsSafe` of `Generations` carries it to the
landing. `CaughtUp` and `ReaderLog` take the lost pages as an argument, which a
failed commit after a whole copy makes larger. TLC checked both layers on the
769,872 states of the run.

## 7. What is only model-checked, and what is not modelled

Only model-checked:

* `CatchesUp` and `FullsAreRetaken`: liveness under fairness is out of the
  prover's reach.
* `Container` without `Journaled`, where `SpaceIsAccounted` fails (section 5);
* the consumer beyond its types when builds are rewritten or the state is an
  older client's.

Not modelled: the components that section 1 lists beyond publisher, updater and
storage, for the reasons `PROJECT.json` gives. Nearly all of the repository's C
is the SQLite and zstd amalgamations: a database engine and a codec whose own
projects test them, of which only the log protocol that the shim builds on is
modelled, since the shim changes what that protocol may assume. In the storage:
what sections Container and WalGate name as left out. In the publisher the migrations
(`backfillThrough`, `backfillEdges`), the stand-alone `manifest` and `compress`
commands, and several rollups in one publish; in the updater `Check`, which
reads only, and the versions of the content-hash rules beyond "newer than the
client's".

## 8. Plan

In this order:

1. **Publisher implements Shelf.** `Shelf` with honest patches as a PROPERTY of
   the publisher, mapping a committed catalog entry to `Release`: the two models
   then compose, and what the consumer assumes is what the publisher does.
2. **Pipeline**: `run.sh`, `daily.sh`, `monthly.sh` and `upload-r2.py` over an
   abstract publisher: the lock, converge, promote, skip the upload after a
   failure, catalog last. Properties: a full contains every delta of the tip it
   bridges from; the bucket's catalog lists only complete builds; a crash in the
   promotion never publishes from the wrong intermediate.
3. **Catchup**: `catchup.go`, `update.go`, `importcmd.go`, `intermediate.go`.
   Properties: applying a day twice is applying it once; `incr_through` is never
   ahead of what is committed; a day is never skipped in silence.
4. **VACUUM in WAL mode**: a rebuild opened over `WalGate`, to settle the hazard
   at `vfs_shim.c:946`; the log guard, which narrows the one at `vfs_shim.c:1020`
   to a restarted log.
5. **Proofs**: the refinement of item 1; what of `Container` holds without
   `Journaled`.
6. Rule versions per client in `Shelf`, for the comparison of hashes made under
   different rules in `changedUnderUs`.

----------------------------- MODULE Publisher -----------------------------
(***************************************************************************)
(* CmdPublish: one finished build becomes one release.                     *)
(*                                                                         *)
(* The release root holds builds.json and a directory per build; the work  *)
(* directory holds every recent build's databases, which the next build is *)
(* diffed against; the stage (-from) holds what the export produced.  The  *)
(* publish is one process that walks fixed phases; it may stop at any of   *)
(* them, by a failed check or a killed process, and leaves on disk what it *)
(* had written: fatal() exits the process, so the deferred clean-up of     *)
(* CmdPublish never runs.                                                  *)
(*                                                                         *)
(* Databases are placed by hard link where the file system allows it, so   *)
(* the disk is a set of files, each with every path that names it: writing *)
(* through one path writes what the others read.                           *)
(***************************************************************************)
EXTENDS Catalog

CONSTANTS Ids,          \* the build ids a publish may be given
          Days,         \* the content days it may be given
          MaxEpoch,     \* the bound on -fresh
          Files,        \* database file names
          Core,         \* filmstock.db, the file guardRemovals opens
          Pages,        \* page ids; a database is the set of pages with a record
          KeepTips,     \* -keep-tips
          Spans,        \* the -rollups spans that may be asked for, 0 for none
          HardLinks,    \* whether os.Link succeeds between the directories
          CleansWork    \* whether clearing a failed publish clears its work directory too

ASSUME PublisherAssumption ==
  /\ Ids \subseteq Nat \ {NoBuild}
  /\ Days \subseteq Nat
  /\ MaxEpoch \in Nat
  /\ Core \in Files /\ IsFiniteSet(Files)
  /\ KeepTips \in Nat /\ Spans \subseteq Nat
  /\ HardLinks \in BOOLEAN /\ CleansWork \in BOOLEAN

VARIABLES cat,        \* builds.json
          torn,       \* whether builds.json was left half-written
          disk,       \* the database files, each with the paths that name it
          rootDirs,   \* the builds with a directory in the release root
          workDirs,   \* the builds with a directory in the work directory
          patches,    \* root/<id>/*.sql.gz
          manifest,   \* root/<id>/manifest.json: the content of each file it names
          pc, job,    \* the running publish: its phase, its arguments and locals
          intent      \* for each listed build, what its publish was given

vars == <<cat, torn, disk, rootDirs, workDirs, patches, manifest, pc, job, intent>>

Contents == SUBSET Pages

Blank == {}

Stage == {<<"stage", NoBuild, f>> : f \in Files}
InRoot(id) == {<<"root", id, f>> : f \in Files}
InWork(id) == {<<"work", id, f>> : f \in Files}
Path == Stage \cup UNION {InRoot(id) \cup InWork(id) : id \in Ids}

File == [names: SUBSET Path, content: Contents]

Patch == [from: Ids, file: Files, base: Contents, result: Contents]

\* A manifest is the content of each database the build has.
Manifests == UNION {[S -> Contents] : S \in SUBSET Files}
NoManifest == [f \in {} |-> Blank]

Phases == {"idle", "link", "diff", "rollup", "guard", "host", "manifest",
           "catalog", "rewrite", "prune"}

NoJob == [id |-> NoBuild, kind |-> "full", base |-> NoBuild, epoch |-> 0, through |-> 0,
          pageSet |-> {}, span |-> 0, todo |-> {}, files |-> {},
          edges |-> NoManifest, given |-> NoManifest]

Exists(p) == \E x \in disk : p \in x.names

FileAt(p) == CHOOSE x \in disk : p \in x.names

\* The disk with one more file, with one file under another path too, with one
\* file's content replaced, and without some paths.
Created(p, content) == disk \cup {[names |-> {p}, content |-> content]}
Linked(src, dst) ==
  (disk \ {FileAt(src)}) \cup {[FileAt(src) EXCEPT !.names = @ \cup {dst}]}
Written(p, content) == (disk \ {FileAt(p)}) \cup {[FileAt(p) EXCEPT !.content = content]}
Removed(gone) ==
  {[x EXCEPT !.names = @ \ gone] : x \in {y \in disk : ~ (y.names \subseteq gone)}}

\* The databases a directory holds, by name.
Held(place, id) ==
  [f \in {g \in Files : Exists(<<place, id, g>>)} |-> FileAt(<<place, id, f>>).content]

----------------------------------------------------------------------------
\* baseDBDir: the work directory's copy where there is one, else the hosted.
baseDBDir(id) == IF id \in workDirs THEN "work" ELSE "root"

\* linkOrCopy and copyFile.  A destination that exists cannot be linked over;
\* it is truncated and then written, which empties the source as well when the
\* two paths already share an inode.
linkOrCopy(src, dst) ==
  disk' = IF ~Exists(dst)
          THEN IF HardLinks THEN Linked(src, dst) ELSE Created(dst, FileAt(src).content)
          ELSE Written(dst, IF FileAt(src) = FileAt(dst) THEN Blank ELSE FileAt(src).content)

\* Mutant: the patch is never applied.
verifyPatch_unapplied(result, want) == TRUE

\* verifyPatch: a patch is kept only if applying it to a copy of its base gives
\* the new build's content.
verifyPatch(result, want) == result = want

\* emitPatches: a diff for each file the source also has.  diff says what each
\* patch makes of its base, for sqldiff may be wrong.
emitPatches(src, diff) ==
  LET from == Held(baseDBDir(src), src)
      here == Held("work", job.id)
      both == job.files \cap DOMAIN from
  IN  /\ \A f \in both : verifyPatch(diff[f], here[f])
      /\ patches' = [patches EXCEPT ![job.id] = @ \cup
            {[from |-> src, file |-> f, base |-> from[f], result |-> diff[f]] : f \in both}]
      /\ job' = [job EXCEPT !.edges =
            [x \in DOMAIN @ \cup {src} |-> IF x = src THEN Cardinality(both) ELSE @[x]]]

\* Mutant: asks the dump about the pages that stay.
guardRemovals_swapped(base, new, pageSet) == (base \cap new) \cap pageSet = {}

\* guardRemovals: a page in the base and not in the new build must be gone from
\* the dump, whose page set it is given.
guardRemovals(base, new, pageSet) == (base \ new) \cap pageSet = {}

\* Mutant: one tip too few.
keep_short(id) ==
  {id} \cup {x \in DOMAIN cat :
               Cardinality({id} \cup {o \in DOMAIN cat : Before(cat, x, o)}) < KeepTips}

\* The builds whose databases stay in work: the new one, then the newest listed
\* for as long as no more than KeepTips are kept.
keep(id) ==
  {id} \cup {x \in DOMAIN cat :
               Cardinality({id} \cup {o \in DOMAIN cat : Before(cat, x, o)}) <= KeepTips}

----------------------------------------------------------------------------
Init ==
  /\ cat = EmptyCatalog /\ torn = FALSE
  /\ disk = {}
  /\ rootDirs = {} /\ workDirs = {}
  /\ patches = [id \in Ids |-> {}]
  /\ manifest = [id \in Ids |-> NoManifest]
  /\ pc = "idle" /\ job = NoJob
  /\ intent = [id \in Ids |-> [files |-> NoManifest, pageSet |-> {}]]

\* The pipeline empties the stage and then exports into it, into new files.
Restage ==
  /\ pc = "idle"
  /\ disk' = Removed(Stage)
  /\ UNCHANGED <<cat, torn, rootDirs, workDirs, patches, manifest, pc, job, intent>>

Export(f, content) ==
  LET staged == <<"stage", NoBuild, f>>
  IN  /\ pc = "idle" /\ ~Exists(staged)
      /\ disk' = Created(staged, content)
      /\ UNCHANGED <<cat, torn, rootDirs, workDirs, patches, manifest, pc, job, intent>>

\* The databases of a build: the export's, completed from the base's.
Completed(staged, carried) ==
  [f \in DOMAIN staged \cup DOMAIN carried |->
     IF f \in DOMAIN staged THEN staged[f] ELSE carried[f]]

\* Mutant: the directory is not looked for.
IsNew_unchecked(id) == TRUE

\* A published build is immutable: its directory must not exist.
IsNew(id) == id \notin rootDirs

\* The checks before anything is written, then the two directories.  -page-set
\* is given where it will be read, which takes a base.
Start(id, kind, fresh, through, pageSet, span) ==
  LET base  == IF fresh THEN NoBuild ELSE Latest(cat)
      epoch == IF Latest(cat) = NoBuild THEN 0 ELSE cat[Latest(cat)].epoch
      staged == Held("stage", NoBuild)
      carried == IF base = NoBuild THEN NoManifest ELSE Held(baseDBDir(base), base)
  IN  /\ pc = "idle" /\ ~torn
      /\ kind = "daily" => Latest(cat) # NoBuild /\ ~fresh
      /\ fresh => epoch < MaxEpoch
      /\ base = NoBuild => pageSet = {}
      /\ guardThrough(cat, base, through)
      /\ IsNew(id)
      /\ rootDirs' = rootDirs \cup {id}
      /\ workDirs' = workDirs \cup {id}
      /\ job' = [id |-> id, kind |-> kind, base |-> base, through |-> through,
                 epoch |-> IF fresh THEN epoch + 1 ELSE epoch, pageSet |-> pageSet, span |-> span,
                 todo |-> DOMAIN staged \cup DOMAIN carried, files |-> {}, edges |-> NoManifest,
                 given |-> Completed(staged, carried)]
      /\ pc' = "link"
      /\ UNCHANGED <<cat, torn, disk, patches, manifest, intent>>

\* Mutant: the base's database wins over the staged one.
LinkFile_carryFirst(f) ==
  /\ pc = "link" /\ f \in job.todo
  /\ linkOrCopy(IF job.base # NoBuild /\ Exists(<<baseDBDir(job.base), job.base, f>>)
                THEN <<baseDBDir(job.base), job.base, f>>
                ELSE <<"stage", NoBuild, f>>,
                <<"work", job.id, f>>)
  /\ job' = [job EXCEPT !.todo = @ \ {f}, !.files = @ \cup {f}]
  /\ UNCHANGED <<cat, torn, rootDirs, workDirs, patches, manifest, pc, intent>>

\* One database into the work directory: the staged one, or the base's when the
\* export did not produce it.
LinkFile(f) ==
  /\ pc = "link" /\ f \in job.todo
  /\ linkOrCopy(IF Exists(<<"stage", NoBuild, f>>) THEN <<"stage", NoBuild, f>>
                ELSE <<baseDBDir(job.base), job.base, f>>,
                <<"work", job.id, f>>)
  /\ job' = [job EXCEPT !.todo = @ \ {f}, !.files = @ \cup {f}]
  /\ UNCHANGED <<cat, torn, rootDirs, workDirs, patches, manifest, pc, intent>>

EndLink ==
  /\ pc = "link" /\ job.todo = {} /\ job.files # {}
  /\ pc' = "diff"
  /\ UNCHANGED <<cat, torn, disk, rootDirs, workDirs, patches, manifest, job, intent>>

\* The default route: from the base, a patch or a bridge.
Diff(diff) ==
  /\ pc = "diff"
  /\ IF job.base = NoBuild THEN UNCHANGED <<patches, job>> ELSE emitPatches(job.base, diff)
  /\ pc' = "rollup"
  /\ UNCHANGED <<cat, torn, disk, rootDirs, workDirs, manifest, intent>>

\* Mutant: a span longer than the chain is not skipped; the directory it then
\* names is the work directory itself.
Rollup_tooLong(diff) ==
  LET src == nthBack(cat, job.span)
      offered == job.base # NoBuild /\ job.span > 0 /\ src # job.base
  IN  /\ pc = "rollup"
      /\ IF offered THEN emitPatches(src, diff) ELSE UNCHANGED <<patches, job>>
      /\ pc' = "guard"
      /\ UNCHANGED <<cat, torn, disk, rootDirs, workDirs, manifest, intent>>

\* A rollup, offered when its source's directory is still on disk.
Rollup(diff) ==
  LET src == nthBack(cat, job.span)
      offered == /\ job.base # NoBuild /\ job.span > 0 /\ src \notin {NoBuild, job.base}
                 /\ src \in workDirs \cup rootDirs
  IN  /\ pc = "rollup"
      /\ IF offered THEN emitPatches(src, diff) ELSE UNCHANGED <<patches, job>>
      /\ pc' = "guard"
      /\ UNCHANGED <<cat, torn, disk, rootDirs, workDirs, manifest, intent>>

\* The bridge guard, on the core database of a full that bridges.
Guard ==
  /\ pc = "guard"
  /\ job.kind = "full" /\ job.base # NoBuild /\ Core \in job.files
       => LET base == Held(baseDBDir(job.base), job.base)
          IN  guardRemovals(IF Core \in DOMAIN base THEN base[Core] ELSE Blank,
                            Held("work", job.id)[Core], job.pageSet)
  /\ pc' = "host"
  /\ UNCHANGED <<cat, torn, disk, rootDirs, workDirs, patches, manifest, job, intent>>

\* A full hosts copies of its databases; a daily hosts none.  One file at a time.
HostFile(f) ==
  LET hosted == <<"root", job.id, f>>
  IN  /\ pc = "host" /\ job.kind = "full" /\ f \in job.files /\ ~Exists(hosted)
      /\ disk' = Created(hosted, FileAt(<<"work", job.id, f>>).content)
      /\ UNCHANGED <<cat, torn, rootDirs, workDirs, patches, manifest, pc, job, intent>>

EndHost ==
  /\ pc = "host"
  /\ job.kind = "full" => \A f \in job.files : Exists(<<"root", job.id, f>>)
  /\ pc' = "manifest"
  /\ UNCHANGED <<cat, torn, disk, rootDirs, workDirs, patches, manifest, job, intent>>

\* writeManifest: the hosted file's content for a full, the work file's for a daily.
WriteManifest ==
  LET place == IF job.kind = "full" THEN "root" ELSE "work"
  IN  /\ pc = "manifest"
      /\ manifest' = [manifest EXCEPT ![job.id] =
                        [f \in job.files |-> FileAt(<<place, job.id, f>>).content]]
      /\ pc' = "catalog"
      /\ UNCHANGED <<cat, torn, disk, rootDirs, workDirs, patches, job, intent>>

\* CmdBuilds reads the catalog and then writes it over: first the file is
\* truncated, then it holds the new catalog.  That is the commit.
OpenCatalog ==
  /\ pc = "catalog"
  /\ job.kind = "daily" => Listed(cat, job.base)
  /\ torn' = TRUE
  /\ pc' = "rewrite"
  /\ UNCHANGED <<cat, disk, rootDirs, workDirs, patches, manifest, job, intent>>

WriteCatalog ==
  /\ pc = "rewrite"
  /\ cat' = Recorded(cat, job.id,
              [kind |-> job.kind, through |-> job.through, epoch |-> job.epoch,
               parent |-> IF job.kind = "daily" THEN job.base ELSE NoBuild,
               bridgeFrom |-> IF job.kind = "full" THEN job.base ELSE NoBuild,
               edges |-> job.edges,
               bytes |-> IF job.kind = "full" THEN Cardinality(job.files) ELSE 0])
  /\ torn' = FALSE
  /\ intent' = [intent EXCEPT ![job.id] = [files |-> job.given, pageSet |-> job.pageSet]]
  /\ pc' = "prune"
  /\ UNCHANGED <<disk, rootDirs, workDirs, patches, manifest, job>>

\* Mutant: it is the release root whose old directories are emptied.
Prune_root ==
  /\ pc = "prune"
  /\ workDirs' = workDirs \cap keep(job.id)
  /\ disk' = Removed(UNION {InRoot(id) : id \in Ids \ keep(job.id)})
  /\ pc' = "idle" /\ job' = NoJob
  /\ UNCHANGED <<cat, torn, rootDirs, patches, manifest, intent>>

\* Every work directory that is not kept goes, a failed publish's with them.
Prune ==
  /\ pc = "prune"
  /\ workDirs' = workDirs \cap keep(job.id)
  /\ disk' = Removed(UNION {InWork(id) : id \in Ids \ keep(job.id)})
  /\ pc' = "idle" /\ job' = NoJob
  /\ UNCHANGED <<cat, torn, rootDirs, patches, manifest, intent>>

\* The process stops, at a failed check or killed, leaving what it has written.
Stop ==
  /\ pc # "idle"
  /\ pc' = "idle" /\ job' = NoJob
  /\ UNCHANGED <<cat, torn, disk, rootDirs, workDirs, patches, manifest, intent>>

\* Somebody removes a directory that a publish died in, so that it may be re-run.
ClearFailed(id) ==
  /\ pc = "idle" /\ ~torn
  /\ id \in rootDirs /\ ~Listed(cat, id)
  /\ rootDirs' = rootDirs \ {id}
  /\ workDirs' = IF CleansWork THEN workDirs \ {id} ELSE workDirs
  /\ disk' = Removed(InRoot(id) \cup (IF CleansWork THEN InWork(id) ELSE {}))
  /\ patches' = [patches EXCEPT ![id] = {}]
  /\ manifest' = [manifest EXCEPT ![id] = NoManifest]
  /\ UNCHANGED <<cat, torn, pc, job, intent>>

Next ==
  \/ Restage
  \/ \E f \in Files, c \in Contents : Export(f, c)
  \/ \E id \in Ids, kind \in Kinds, fresh \in BOOLEAN, d \in Days, n \in Spans :
       \E ps \in IF kind = "full" THEN SUBSET Pages ELSE {{}} : Start(id, kind, fresh, d, ps, n)
  \/ \E f \in Files : LinkFile(f) \/ HostFile(f)
  \/ \E diff \in [Files -> Contents] : Diff(diff) \/ Rollup(diff)
  \/ EndLink \/ Guard \/ EndHost \/ WriteManifest \/ OpenCatalog \/ WriteCatalog \/ Prune
  \/ Stop
  \/ \E id \in Ids : ClearFailed(id)

Spec == Init /\ [][Next]_vars

----------------------------------------------------------------------------
IsJob(j) ==
  /\ j \in [id: Ids \cup {NoBuild}, kind: Kinds, base: Ids \cup {NoBuild}, epoch: Nat,
            through: Nat, pageSet: SUBSET Pages, span: Nat, todo: SUBSET Files,
            files: SUBSET Files, edges: [DOMAIN j.edges -> Nat], given: Manifests]
  /\ DOMAIN j.edges \subseteq Ids

\* Every variable has its type.
TypeOK ==
  /\ IsCatalog(cat, Ids) /\ torn \in BOOLEAN
  /\ disk \subseteq File
  /\ rootDirs \subseteq Ids /\ workDirs \subseteq Ids
  /\ patches \in [Ids -> SUBSET Patch]
  /\ manifest \in [Ids -> Manifests]
  /\ pc \in Phases /\ IsJob(job)
  /\ intent \in [Ids -> [files: Manifests, pageSet: SUBSET Pages]]

\* No route rewinds: a build's content day is never before that of a build a
\* route into it starts from, whether a patch, a bridge or a rollup, and
\* whatever order the builds were published in.
ThroughNeverRewinds ==
  \A id \in DOMAIN cat : \A src \in DOMAIN cat[id].edges :
    Listed(cat, src) /\ cat[src].through <= cat[id].through

\* Every route the catalog offers can be ridden: for each file both builds have
\* there is a patch, and it turns the source's published content into the
\* target's.
RoutesReproduce ==
  \A id \in DOMAIN cat : \A src \in DOMAIN cat[id].edges :
    \A f \in DOMAIN manifest[id] \cap DOMAIN manifest[src] :
      [from |-> src, file |-> f, base |-> manifest[src][f], result |-> manifest[id][f]]
        \in patches[id]

\* What a build's manifest describes is what the publish was given: the export
\* that was staged, completed from the base.
PublishesTheExport == \A id \in DOMAIN cat : manifest[id] = intent[id].files

\* Between publishes the tip's databases are in the work directory, as
\* published: they are what the next build is diffed against.
TipHasDiffBase ==
  pc = "idle" /\ Latest(cat) # NoBuild =>
    Latest(cat) \in workDirs /\ Held("work", Latest(cat)) = manifest[Latest(cat)]

\* A full listed in the catalog hosts every database its manifest names.
FullsAreHosted ==
  \A id \in DOMAIN cat : cat[id].kind = "full" => Held("root", id) = manifest[id]

\* A bridge removes no page that is still in the dump the full was built from.
NoUnexplainedRemoval ==
  \A id \in DOMAIN cat :
    LET base == cat[id].bridgeFrom
    IN  base # NoBuild /\ Core \in DOMAIN manifest[id] \cap DOMAIN manifest[base] =>
          (manifest[base][Core] \ manifest[id][Core]) \cap intent[id].pageSet = {}

\* A published build is immutable: nothing under its directory changes and its
\* entry stays as it was written, whatever is published, stopped or cleared later.
PublishedIsImmutable ==
  [][\A id \in DOMAIN cat :
       /\ Listed(cat', id) /\ cat'[id] = cat[id]
       /\ id \in rootDirs'
       /\ manifest'[id] = manifest[id] /\ patches'[id] = patches[id]
       /\ Held("root", id)' = Held("root", id)]_vars

=============================================================================

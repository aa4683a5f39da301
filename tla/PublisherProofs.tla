-------------------------- MODULE PublisherProofs --------------------------
(***************************************************************************)
(* What holds of CmdPublish for any ids, days, databases and pages.        *)
(*                                                                         *)
(* First, of its state: every variable keeps its type, and no route in the *)
(* catalog rewinds.                                                        *)
(*                                                                         *)
(* Neither is inductive.  A path that a step reads must name a file, which *)
(* is so because an earlier phase has put it there; a route starts no      *)
(* later than the build it leads to because the route's source is no later *)
(* than the tip, which was the base when the through day was checked, and  *)
(* still is when the catalog is written.  That is what IInv adds.          *)
(*                                                                         *)
(* Then of the files themselves.  Whatever a failed publish leaves behind, *)
(* nothing that is published changes (PublishedStays).  For a pipeline     *)
(* that clears the work directory of a failed publish and whose rollups    *)
(* reach no further back than the databases it keeps: what is published is *)
(* what was exported, every route can be ridden, fulls are hosted, no      *)
(* bridge removes a page that the dump still has, and the tip's databases  *)
(* are there to diff against.                                              *)
(***************************************************************************)
EXTENDS Publisher, CatalogProofs, FiniteSetTheorems

\* The catalog has a tip, and every build in it has a directory.
TreeInv ==
  /\ HasLast(cat, DOMAIN cat)
  /\ DOMAIN cat \subseteq rootDirs

\* While a publish runs, what it links is on the disk, and so is what it has
\* linked; and until its entry is written every route starts from a listed build
\* that is no later than its own day, its base among them.
LinkInv ==
  /\ pc = "link" => \A f \in job.todo :
       \/ Exists(<<"stage", NoBuild, f>>)
       \/ job.base # NoBuild /\ Exists(<<baseDBDir(job.base), job.base, f>>)
  /\ pc \notin {"idle", "rewrite", "prune"} => \A f \in job.files : Exists(<<"work", job.id, f>>)
  /\ pc = "manifest" /\ job.kind = "full" => \A f \in job.files : Exists(<<"root", job.id, f>>)

RouteInv ==
  pc \notin {"idle", "prune"} =>
    /\ job.id \in (Ids \cap rootDirs) \ DOMAIN cat
    /\ job.base \in {NoBuild, Latest(cat)}
    /\ job.base # NoBuild => job.base \in DOMAIN cat /\ cat[job.base].through <= job.through
    /\ \A src \in DOMAIN job.edges : src \in DOMAIN cat /\ cat[src].through <= job.through

IInv == TypeOK /\ TreeInv /\ LinkInv /\ RouteInv /\ ThroughNeverRewinds

----------------------------------------------------------------------------
\* The disk: what its operations keep.

LEMMA FileAtIsAFile ==
  ASSUME NEW p, Exists(p)
  PROVE  FileAt(p) \in disk /\ p \in FileAt(p).names
BY DEF Exists, FileAt

LEMMA HeldIsAManifest ==
  ASSUME disk \subseteq File, NEW place, NEW id
  PROVE  Held(place, id) \in Manifests
<1> DEFINE S == {g \in Files : Exists(<<place, id, g>>)}
<1>1. \A f \in S : FileAt(<<place, id, f>>).content \in Contents
  BY FileAtIsAFile DEF File
<1>2. Held(place, id) \in [S -> Contents]
  BY <1>1 DEF Held
<1>3. S \in SUBSET Files
  OBVIOUS
<1> HIDE DEF S
<1>4. QED BY <1>2, <1>3 DEF Manifests

\* A manifest's domain is a set of files and its values are contents.
LEMMA ManifestElements ==
  ASSUME NEW m \in Manifests
  PROVE  /\ DOMAIN m \subseteq Files
         /\ \A f \in DOMAIN m : m[f] \in Contents
         /\ m = [f \in DOMAIN m |-> m[f]]
<1>1. PICK S \in SUBSET Files : m \in [S -> Contents]
  BY DEF Manifests
<1>2. QED BY <1>1

LEMMA FunctionIsAManifest ==
  ASSUME NEW S \in SUBSET Files, NEW m \in [S -> Contents]
  PROVE  m \in Manifests
BY DEF Manifests

LEMMA PathsArePaths ==
  ASSUME NEW f \in Files, NEW id \in Ids
  PROVE  /\ <<"stage", NoBuild, f>> \in Path
         /\ <<"root", id, f>> \in Path
         /\ <<"work", id, f>> \in Path
BY DEF Path, Stage, InRoot, InWork

LEMMA CreatedKeeps ==
  ASSUME disk \subseteq File, NEW p \in Path, NEW c \in Contents, disk' = Created(p, c)
  PROVE  /\ disk' \subseteq File
         /\ \A q : Exists(q) => Exists(q)'
         /\ Exists(p)'
<1> DEFINE x == [names |-> {p}, content |-> c]
<1>1. disk' = disk \cup {x} BY DEF Created
<1>2. x \in File /\ x.names = {p} BY DEF File
<1> HIDE DEF x
<1>3. QED BY <1>1, <1>2 DEF Exists

LEMMA LinkedKeeps ==
  ASSUME disk \subseteq File, NEW src, Exists(src), NEW dst \in Path, disk' = Linked(src, dst)
  PROVE  /\ disk' \subseteq File
         /\ \A q : Exists(q) => Exists(q)'
         /\ Exists(dst)'
<1> DEFINE x == FileAt(src)
           y == [x EXCEPT !.names = @ \cup {dst}]
<1>1. x \in disk BY FileAtIsAFile
<1>2. disk' = (disk \ {x}) \cup {y} BY DEF Linked
<1>3. y \in File /\ y.names = x.names \cup {dst} BY <1>1 DEF File
<1> HIDE DEF x, y
<1>4. \A q : Exists(q) => Exists(q)' BY <1>1, <1>2, <1>3 DEF Exists
<1>5. QED BY <1>2, <1>3, <1>4 DEF Exists

LEMMA WrittenKeeps ==
  ASSUME disk \subseteq File, NEW p, Exists(p), NEW c \in Contents, disk' = Written(p, c)
  PROVE  /\ disk' \subseteq File
         /\ \A q : Exists(q) => Exists(q)'
<1> DEFINE x == FileAt(p)
           y == [x EXCEPT !.content = c]
<1>1. x \in disk BY FileAtIsAFile
<1>2. disk' = (disk \ {x}) \cup {y} BY DEF Written
<1>3. y \in File /\ y.names = x.names BY <1>1 DEF File
<1> HIDE DEF x, y
<1>4. QED BY <1>1, <1>2, <1>3 DEF Exists

LEMMA RemovedKeeps ==
  ASSUME disk \subseteq File, NEW gone
  PROVE  Removed(gone) \subseteq File
BY DEF Removed, File

\* linkOrCopy leaves every path in place, and makes the destination one.
LEMMA LinkOrCopyKeeps ==
  ASSUME disk \subseteq File, NEW src, Exists(src), NEW dst \in Path, linkOrCopy(src, dst)
  PROVE  /\ disk' \subseteq File
         /\ \A q : Exists(q) => Exists(q)'
         /\ Exists(dst)'
<1>1. FileAt(src).content \in Contents /\ Blank \in Contents
  BY FileAtIsAFile DEF File, Contents, Blank
<1>2. CASE ~Exists(dst) /\ HardLinks
  BY <1>2, LinkedKeeps DEF linkOrCopy
<1>3. CASE ~Exists(dst) /\ ~HardLinks
  BY <1>1, <1>3, CreatedKeeps DEF linkOrCopy
<1>4. CASE Exists(dst)
  <2>1. PICK c \in Contents : disk' = Written(dst, c)
    BY <1>1, <1>4 DEF linkOrCopy
  <2>2. QED BY <1>4, <2>1, WrittenKeeps
<1>5. QED BY <1>2, <1>3, <1>4

----------------------------------------------------------------------------
\* What a publish writes has the type it should.

LEMMA PatchesAreTyped ==
  ASSUME TypeOK, job.id \in Ids, NEW src \in Ids, NEW diff \in [Files -> Contents],
         emitPatches(src, diff)
  PROVE  /\ patches' \in [Ids -> SUBSET Patch]
         /\ IsJob(job')
         /\ job' = [job EXCEPT !.edges = job'.edges]
         /\ DOMAIN job'.edges = DOMAIN job.edges \cup {src}
<1> DEFINE from == Held(baseDBDir(src), src)
           both == job.files \cap DOMAIN from
           new == {[from |-> src, file |-> f, base |-> from[f], result |-> diff[f]] : f \in both}
           edges == [x \in DOMAIN job.edges \cup {src} |->
                       IF x = src THEN Cardinality(both) ELSE job.edges[x]]
<1>1. IsJob(job) /\ disk \subseteq File /\ patches \in [Ids -> SUBSET Patch]
  BY DEF TypeOK
<1>2. from \in Manifests
  BY <1>1, HeldIsAManifest
<1>3. patches' = [patches EXCEPT ![job.id] = @ \cup new] /\ job' = [job EXCEPT !.edges = edges]
  BY DEF emitPatches
<1>4. both \subseteq Files /\ \A f \in both : from[f] \in Contents
  BY <1>2, ManifestElements
<1>5. new \subseteq Patch
  BY <1>4 DEF Patch
<1>6. Cardinality(both) \in Nat
  BY <1>4, PublisherAssumption, FS_Subset, FS_CardinalityType DEF PublisherAssumption
<1>7. edges \in [DOMAIN job.edges \cup {src} -> Nat] /\ DOMAIN edges = DOMAIN job.edges \cup {src}
  BY <1>1, <1>6 DEF IsJob
<1> HIDE DEF new, edges, from, both
<1>8. patches' \in [Ids -> SUBSET Patch]
  BY <1>1, <1>3, <1>5
<1>9. /\ job'.edges = edges
      /\ job' = [job EXCEPT !.edges = edges]
  BY <1>1, <1>3 DEF IsJob
<1>10. DOMAIN job.edges \cup {src} \subseteq Ids
  BY <1>1 DEF IsJob
<1>11. IsJob(job')
  BY <1>1, <1>7, <1>9, <1>10 DEF IsJob
<1>12. QED BY <1>7, <1>8, <1>9, <1>11

\* The entry a publish writes is one, if its bytes are a number.
LEMMA EntryIsAnEntry ==
  ASSUME NEW j, IsJob(j), NEW bytes \in Nat
  PROVE  IsEntry([kind |-> j.kind, through |-> j.through, epoch |-> j.epoch,
                  parent |-> IF j.kind = "daily" THEN j.base ELSE NoBuild,
                  bridgeFrom |-> IF j.kind = "full" THEN j.base ELSE NoBuild,
                  edges |-> j.edges, bytes |-> bytes], Ids)
<1>1. /\ j.kind \in Kinds /\ j.through \in Nat /\ j.epoch \in Nat
      /\ j.base \in Ids \cup {NoBuild}
      /\ j.edges \in [DOMAIN j.edges -> Nat] /\ DOMAIN j.edges \subseteq Ids
  BY DEF IsJob
<1>2. QED BY <1>1 DEF IsEntry

\* A typed catalog of naturals can be sorted.
LEMMA CatalogIsOrdered ==
  ASSUME NEW c, IsCatalog(c, Ids)
  PROVE  Ordered(c)
BY PublisherAssumption DEF PublisherAssumption, IsCatalog, IsEntry, Ordered

LEMMA RecordedIsACatalog ==
  ASSUME NEW c, IsCatalog(c, Ids), NEW id \in Ids, NEW e, IsEntry(e, Ids)
  PROVE  IsCatalog(Recorded(c, id, e), Ids)
BY DEF IsCatalog, Recorded

----------------------------------------------------------------------------
\* The initial state, and one lemma for each phase of a publish.

LEMMA NoManifestIsEmpty ==
  NoManifest \in Manifests /\ DOMAIN NoManifest = {}
<1>1. NoManifest \in [{} -> Contents] /\ {} \in SUBSET Files
  BY DEF NoManifest
<1>2. QED BY <1>1, FunctionIsAManifest

LEMMA NoJobIsAJob == IsJob(NoJob)
BY NoManifestIsEmpty DEF IsJob, NoJob, NoManifest, NoBuild, Kinds

LEMMA InitIInv == Init => IInv
<1> SUFFICES ASSUME Init PROVE IInv
  OBVIOUS
<1> USE DEF Init
<1>1. DOMAIN EmptyCatalog = {}
  BY DEF EmptyCatalog
<1>2. IsCatalog(cat, Ids)
  BY <1>1 DEF IsCatalog
<1>3. TypeOK
  BY <1>2, NoManifestIsEmpty, NoJobIsAJob DEF TypeOK, Phases
<1>4. TreeInv
  BY <1>1 DEF TreeInv, HasLast
<1>5. LinkInv /\ RouteInv
  BY DEF LinkInv, RouteInv
<1>6. ThroughNeverRewinds
  BY <1>1 DEF ThroughNeverRewinds
<1>7. QED BY <1>3, <1>4, <1>5, <1>6 DEF IInv

\* No publish runs: the stage changes, or a failed publish is cleared away.
LEMMA IdleStep ==
  ASSUME IInv,
         \/ Restage
         \/ \E f \in Files, c \in Contents : Export(f, c)
         \/ \E id \in Ids : ClearFailed(id)
  PROVE  IInv'
<1>1. /\ pc = "idle" /\ UNCHANGED <<cat, torn, pc, job, intent>>
      /\ disk' \subseteq File
  <2>1. disk \subseteq File BY DEF IInv, TypeOK
  <2>2. CASE Restage BY <2>1, <2>2, RemovedKeeps DEF Restage
  <2>3. CASE \E f \in Files, c \in Contents : Export(f, c)
    <3>1. PICK f \in Files, c \in Contents : Export(f, c) BY <2>3
    <3>2. <<"stage", NoBuild, f>> \in Path BY DEF Path, Stage
    <3>3. QED BY <2>1, <3>1, <3>2, CreatedKeeps DEF Export
  <2>4. CASE \E id \in Ids : ClearFailed(id)
    BY <2>1, <2>4, RemovedKeeps DEF ClearFailed
  <2>5. QED BY <2>2, <2>3, <2>4
<1>2. /\ rootDirs' \subseteq Ids /\ workDirs' \subseteq Ids /\ DOMAIN cat \subseteq rootDirs'
      /\ patches' \in [Ids -> SUBSET Patch] /\ manifest' \in [Ids -> Manifests]
  <2>1. CASE \E id \in Ids : ClearFailed(id)
    BY <2>1, NoManifestIsEmpty DEF ClearFailed, Listed, IInv, TypeOK, TreeInv
  <2>2. CASE ~ \E id \in Ids : ClearFailed(id)
    BY <2>2 DEF Restage, Export, IInv, TypeOK, TreeInv
  <2>3. QED BY <2>1, <2>2
<1>3. TypeOK'
  BY <1>1, <1>2 DEF IInv, TypeOK
<1>4. TreeInv' /\ ThroughNeverRewinds'
  BY <1>1, <1>2 DEF IInv, TreeInv, ThroughNeverRewinds
<1>5. LinkInv' /\ RouteInv'
  BY <1>1 DEF LinkInv, RouteInv
<1>6. QED BY <1>3, <1>4, <1>5 DEF IInv

\* A publish stops wherever it was.
LEMMA StopStep ==
  ASSUME IInv, Stop
  PROVE  IInv'
<1>1. TypeOK'
  BY NoJobIsAJob DEF IInv, TypeOK, Stop, Phases
<1>2. TreeInv' /\ ThroughNeverRewinds'
  BY DEF IInv, TreeInv, ThroughNeverRewinds, Stop
<1>3. LinkInv' /\ RouteInv'
  BY DEF LinkInv, RouteInv, Stop
<1>4. QED BY <1>1, <1>2, <1>3 DEF IInv

\* A publish starts: its base is the tip, and no later than the build itself.
LEMMA StartStep ==
  ASSUME IInv, NEW id \in Ids, NEW kind \in Kinds, NEW fresh \in BOOLEAN, NEW d \in Days,
         NEW ps \in SUBSET Pages, NEW n \in Spans, Start(id, kind, fresh, d, ps, n)
  PROVE  IInv'
<1> DEFINE base == IF fresh THEN NoBuild ELSE Latest(cat)
           staged == Held("stage", NoBuild)
           carried == IF base = NoBuild THEN NoManifest ELSE Held(baseDBDir(base), base)
           epoch == IF Latest(cat) = NoBuild THEN 0 ELSE cat[Latest(cat)].epoch
<1>1. /\ guardThrough(cat, base, d) /\ id \notin rootDirs
      /\ rootDirs' = rootDirs \cup {id} /\ workDirs' = workDirs \cup {id}
      /\ pc' = "link"
      /\ job' = [id |-> id, kind |-> kind, base |-> base, through |-> d,
                 epoch |-> IF fresh THEN epoch + 1 ELSE epoch, pageSet |-> ps, span |-> n,
                 todo |-> DOMAIN staged \cup DOMAIN carried, files |-> {}, edges |-> NoManifest,
                 given |-> Completed(staged, carried)]
      /\ UNCHANGED <<cat, torn, disk, patches, manifest, intent>>
  BY DEF Start, IsNew
<1>2. base # NoBuild => base \in DOMAIN cat /\ cat[base].through <= d
  <2>1. SUFFICES ASSUME base # NoBuild PROVE base \in DOMAIN cat /\ cat[base].through <= d
    OBVIOUS
  <2>2. base \in DOMAIN cat /\ d >= cat[base].through
    BY <1>1, <2>1 DEF guardThrough, Listed
  <2>3. d \in Nat /\ cat[base].through \in Nat
    BY <2>2, PublisherAssumption DEF PublisherAssumption, IInv, TypeOK, IsCatalog, IsEntry
  <2> HIDE DEF base
  <2>4. QED BY <2>2, <2>3
<1>3. epoch \in Nat
  <2>1. CASE DOMAIN cat = {}
    BY <2>1 DEF Latest, LastOf
  <2>2. CASE DOMAIN cat # {}
    <3>1. Ordered(cat)
      BY CatalogIsOrdered DEF IInv, TypeOK
    <3>2. Latest(cat) \in DOMAIN cat
      BY <2>2, <3>1, LatestIsLatest DEF IInv, TreeInv
    <3>3. QED BY <3>2 DEF IInv, TypeOK, IsCatalog, IsEntry
  <2>3. QED BY <2>1, <2>2
<1>4. staged \in Manifests /\ carried \in Manifests
  BY NoManifestIsEmpty, HeldIsAManifest DEF IInv, TypeOK
<1>5. /\ DOMAIN staged \subseteq Files /\ DOMAIN carried \subseteq Files
      /\ Completed(staged, carried) \in Manifests
  <2>1. /\ DOMAIN staged \subseteq Files /\ \A f \in DOMAIN staged : staged[f] \in Contents
        /\ DOMAIN carried \subseteq Files /\ \A f \in DOMAIN carried : carried[f] \in Contents
    BY <1>4, ManifestElements
  <2> HIDE DEF staged, carried
  <2>2. Completed(staged, carried) \in [DOMAIN staged \cup DOMAIN carried -> Contents]
    BY <2>1 DEF Completed
  <2>3. QED BY <2>1, <2>2, FunctionIsAManifest
<1>6. \A f \in DOMAIN staged \cup DOMAIN carried :
        \/ Exists(<<"stage", NoBuild, f>>)
        \/ base # NoBuild /\ Exists(<<baseDBDir(base), base, f>>)
  BY NoManifestIsEmpty DEF Held
<1>7. base # NoBuild => id # base /\ baseDBDir(base)' = baseDBDir(base)
  BY <1>1, <1>2 DEF baseDBDir, IInv, TreeInv
<1>8. base \in Ids \cup {NoBuild} /\ base \in {NoBuild, Latest(cat)}
  BY <1>2 DEF IInv, TypeOK, IsCatalog
<1> HIDE DEF staged, carried, base, epoch
<1>9. IsJob(job')
  <2>1. d \in Nat /\ n \in Nat
    BY PublisherAssumption DEF PublisherAssumption
  <2>2. job'.edges = NoManifest /\ NoManifest \in [DOMAIN NoManifest -> Nat]
    BY <1>1 DEF NoManifest
  <2>3. QED BY <1>1, <1>3, <1>5, <1>8, <2>1, <2>2, NoManifestIsEmpty DEF IsJob
<1>10. TypeOK'
  BY <1>1, <1>9 DEF IInv, TypeOK, Phases
<1>11. TreeInv' /\ ThroughNeverRewinds'
  BY <1>1 DEF IInv, TreeInv, ThroughNeverRewinds
<1>12. LinkInv'
  BY <1>1, <1>6, <1>7 DEF LinkInv, Exists, baseDBDir
<1>13. RouteInv'
  BY <1>1, <1>2, <1>8, NoManifestIsEmpty DEF RouteInv, IInv, TreeInv
<1>14. QED BY <1>10, <1>11, <1>12, <1>13 DEF IInv

\* A step that leaves the catalog and the published tree as they were, and only
\* adds to the disk, keeps what was there.
LEMMA PathsStay ==
  ASSUME IInv, UNCHANGED <<cat, torn, rootDirs, workDirs, manifest, intent>>,
         disk' \subseteq File, patches' \in [Ids -> SUBSET Patch], pc' \in Phases, IsJob(job')
  PROVE  TypeOK' /\ TreeInv' /\ ThroughNeverRewinds'
<1>1. TypeOK' BY DEF IInv, TypeOK
<1>2. TreeInv' /\ ThroughNeverRewinds'
  BY DEF IInv, TreeInv, ThroughNeverRewinds
<1>3. QED BY <1>1, <1>2

\* The databases are linked: the source of each is on the disk.
LEMMA LinkStep ==
  ASSUME IInv, NEW f \in Files, LinkFile(f)
  PROVE  IInv'
<1> DEFINE src == IF Exists(<<"stage", NoBuild, f>>) THEN <<"stage", NoBuild, f>>
                  ELSE <<baseDBDir(job.base), job.base, f>>
           dst == <<"work", job.id, f>>
<1>1. /\ pc = "link" /\ f \in job.todo
      /\ linkOrCopy(src, dst)
      /\ job' = [job EXCEPT !.todo = @ \ {f}, !.files = @ \cup {f}]
      /\ UNCHANGED <<cat, torn, rootDirs, workDirs, patches, manifest, pc, intent>>
  BY DEF LinkFile
<1>2. Exists(src)
  BY <1>1 DEF IInv, LinkInv
<1>3. job.id \in Ids /\ dst \in Path
  BY <1>1, PathsArePaths DEF IInv, RouteInv
<1>4. disk \subseteq File /\ IsJob(job)
  BY DEF IInv, TypeOK
<1> HIDE DEF src
<1>5. disk' \subseteq File /\ (\A q : Exists(q) => Exists(q)') /\ Exists(dst)'
  BY <1>1, <1>2, <1>3, <1>4, LinkOrCopyKeeps
<1>6. /\ job'.id = job.id /\ job'.base = job.base /\ job'.kind = job.kind
      /\ job'.through = job.through /\ job'.edges = job.edges
      /\ job'.todo = job.todo \ {f} /\ job'.files = job.files \cup {f}
      /\ IsJob(job')
  BY <1>1, <1>4 DEF IsJob
<1>7. TypeOK' /\ TreeInv' /\ ThroughNeverRewinds'
  BY <1>1, <1>5, <1>6, PathsStay DEF IInv, TypeOK
<1>8. LinkInv'
  <2>1. baseDBDir(job.base)' = baseDBDir(job.base)
    BY <1>1, <1>6 DEF baseDBDir
  <2>2. ASSUME NEW g \in job'.todo
        PROVE  \/ Exists(<<"stage", NoBuild, g>>)'
               \/ job'.base # NoBuild /\ Exists(<<baseDBDir(job.base), job.base, g>>)'
    <3>1. \/ Exists(<<"stage", NoBuild, g>>)
          \/ job.base # NoBuild /\ Exists(<<baseDBDir(job.base), job.base, g>>)
      BY <1>1, <1>6 DEF IInv, LinkInv
    <3>2. <<baseDBDir(job.base), job.base, g>>' = <<baseDBDir(job.base), job.base, g>>
      BY <1>6, <2>1
    <3>3. QED BY <1>5, <1>6, <3>1, <3>2 DEF Exists
  <2>3. ASSUME NEW g \in job'.files PROVE Exists(<<"work", job.id, g>>)'
    BY <1>1, <1>5, <1>6 DEF IInv, LinkInv
  <2>4. QED BY <1>1, <1>6, <2>1, <2>2, <2>3 DEF LinkInv, Exists, baseDBDir
<1>9. RouteInv'
  BY <1>1, <1>6 DEF IInv, RouteInv
<1>10. QED BY <1>7, <1>8, <1>9 DEF IInv

\* The phases that only decide whether to go on.
LEMMA PhaseStep ==
  ASSUME IInv, EndLink \/ Guard \/ EndHost \/ OpenCatalog
  PROVE  IInv'
<1>1. /\ pc \in {"link", "guard", "host", "catalog"}
      /\ pc' \in {"diff", "host", "manifest", "rewrite"}
      /\ UNCHANGED <<cat, disk, rootDirs, workDirs, patches, manifest, job, intent>>
      /\ torn' \in BOOLEAN
  BY DEF EndLink, Guard, EndHost, OpenCatalog, IInv, TypeOK
<1>2. TypeOK'
  BY <1>1 DEF IInv, TypeOK, Phases
<1>3. TreeInv' /\ ThroughNeverRewinds'
  BY <1>1 DEF IInv, TreeInv, ThroughNeverRewinds
<1>4. RouteInv'
  BY <1>1 DEF IInv, RouteInv
<1>5. pc' = "manifest" /\ job.kind = "full" => \A f \in job.files : Exists(<<"root", job.id, f>>)
  BY DEF EndLink, Guard, EndHost, OpenCatalog
<1>6. LinkInv'
  BY <1>1, <1>5 DEF IInv, LinkInv, Exists
<1>7. QED BY <1>2, <1>3, <1>4, <1>6 DEF IInv

\* A route is offered, from the base or from further back: its source is no later
\* than the base, which is the tip.
LEMMA RouteStep ==
  ASSUME IInv, NEW diff \in [Files -> Contents], Diff(diff) \/ Rollup(diff)
  PROVE  IInv'
<1>1. /\ pc \in {"diff", "rollup"} /\ pc' \in {"rollup", "guard"}
      /\ UNCHANGED <<cat, torn, disk, rootDirs, workDirs, manifest, intent>>
  BY DEF Diff, Rollup
<1>2. job.id \in Ids /\ IsJob(job)
  BY <1>1 DEF IInv, TypeOK, RouteInv
<1>3. CASE UNCHANGED <<patches, job>>
  <2>1. TypeOK' /\ TreeInv' /\ ThroughNeverRewinds'
    BY <1>1, <1>2, <1>3, PathsStay DEF IInv, TypeOK, Phases
  <2>2. LinkInv' /\ RouteInv'
    BY <1>1, <1>3 DEF IInv, LinkInv, RouteInv, Exists
  <2>3. QED BY <2>1, <2>2 DEF IInv
<1>4. ASSUME NEW src \in DOMAIN cat, cat[src].through <= job.through, emitPatches(src, diff)
      PROVE  IInv'
  <2>1. src \in Ids
    BY DEF IInv, TypeOK, IsCatalog
  <2>2. /\ patches' \in [Ids -> SUBSET Patch] /\ IsJob(job')
        /\ job' = [job EXCEPT !.edges = job'.edges]
        /\ DOMAIN job'.edges = DOMAIN job.edges \cup {src}
    BY <1>2, <1>4, <2>1, PatchesAreTyped DEF IInv
  <2>3. /\ job'.id = job.id /\ job'.base = job.base /\ job'.through = job.through
        /\ job'.files = job.files
    BY <1>2, <2>2 DEF IsJob
  <2>4. TypeOK' /\ TreeInv' /\ ThroughNeverRewinds'
    BY <1>1, <2>2, PathsStay DEF IInv, TypeOK, Phases
  <2>5. LinkInv'
    BY <1>1, <2>3 DEF IInv, LinkInv, Exists
  <2>6. RouteInv'
    BY <1>1, <1>4, <2>2, <2>3 DEF IInv, RouteInv
  <2>7. QED BY <2>4, <2>5, <2>6 DEF IInv
<1>5. CASE Diff(diff)
  <2>1. CASE job.base = NoBuild
    BY <1>3, <1>5, <2>1 DEF Diff
  <2>2. CASE job.base # NoBuild
    <3>1. job.base \in DOMAIN cat /\ cat[job.base].through <= job.through
      BY <1>1, <2>2 DEF IInv, RouteInv
    <3>2. QED BY <1>4, <1>5, <2>2, <3>1 DEF Diff
  <2>3. QED BY <2>1, <2>2
<1>6. CASE Rollup(diff)
  <2>1. CASE UNCHANGED <<patches, job>>
    BY <1>3, <2>1
  <2>2. CASE /\ job.base # NoBuild /\ nthBack(cat, job.span) # NoBuild
             /\ emitPatches(nthBack(cat, job.span), diff)
    <3> DEFINE src == nthBack(cat, job.span)
    <3>1. src \in DOMAIN cat
      BY <2>2 DEF nthBack
    <3>2. /\ job.base = Latest(cat) /\ job.base \in DOMAIN cat
          /\ cat[job.base].through <= job.through
      BY <1>1, <2>2 DEF IInv, RouteInv
    <3>3. Ordered(cat) /\ HasLast(cat, DOMAIN cat)
      BY CatalogIsOrdered DEF IInv, TypeOK, TreeInv
    <3>4. cat[src].through <= cat[job.base].through
      BY <3>1, <3>2, <3>3, LatestIsLatest
    <3>5. /\ cat[src].through \in Nat /\ cat[job.base].through \in Nat /\ job.through \in Nat
      BY <1>2, <3>1, <3>2, <3>3 DEF Ordered, IsJob
    <3> HIDE DEF src
    <3>6. cat[src].through <= job.through
      BY <3>2, <3>4, <3>5
    <3>7. emitPatches(src, diff)
      BY <2>2 DEF src
    <3>8. QED BY <1>4, <3>1, <3>6, <3>7
  <2>3. QED BY <1>6, <2>1, <2>2 DEF Rollup
<1>7. QED BY <1>5, <1>6

\* A full hosts a copy of a database that it has linked.
LEMMA HostStep ==
  ASSUME IInv, NEW f \in Files, HostFile(f)
  PROVE  IInv'
<1> DEFINE work == <<"work", job.id, f>>
           hosted == <<"root", job.id, f>>
<1>1. /\ pc = "host" /\ f \in job.files
      /\ disk' = Created(hosted, FileAt(work).content)
      /\ UNCHANGED <<cat, torn, rootDirs, workDirs, patches, manifest, pc, job, intent>>
  BY DEF HostFile
<1>2. hosted \in Path /\ disk \subseteq File
  BY <1>1, PathsArePaths DEF IInv, RouteInv, TypeOK
<1>3. FileAt(work).content \in Contents
  <2>1. FileAt(work) \in disk BY <1>1, FileAtIsAFile DEF IInv, LinkInv
  <2>2. QED BY <1>2, <2>1 DEF File
<1> HIDE DEF work, hosted
<1>4. disk' \subseteq File /\ (\A q : Exists(q) => Exists(q)')
  BY <1>1, <1>2, <1>3, CreatedKeeps
<1>5. TypeOK' /\ TreeInv' /\ ThroughNeverRewinds'
  BY <1>1, <1>4, PathsStay DEF IInv, TypeOK
<1>6. RouteInv'
  BY <1>1 DEF IInv, RouteInv
<1>7. ASSUME NEW g \in job'.files PROVE Exists(<<"work", job.id, g>>)'
  BY <1>1, <1>4 DEF IInv, LinkInv
<1>8. LinkInv'
  BY <1>1, <1>7 DEF LinkInv
<1>9. QED BY <1>5, <1>6, <1>8 DEF IInv

\* The manifest is written from databases that are there.
LEMMA ManifestStep ==
  ASSUME IInv, WriteManifest
  PROVE  IInv'
<1> DEFINE place == IF job.kind = "full" THEN "root" ELSE "work"
           m == [f \in job.files |-> FileAt(<<place, job.id, f>>).content]
<1>1. /\ pc = "manifest" /\ pc' = "catalog"
      /\ manifest' = [manifest EXCEPT ![job.id] = m]
      /\ UNCHANGED <<cat, torn, disk, rootDirs, workDirs, patches, job, intent>>
  BY DEF WriteManifest
<1>2. job.files \in SUBSET Files /\ disk \subseteq File
  BY DEF IInv, TypeOK, IsJob
<1>3. ASSUME NEW f \in job.files
      PROVE  FileAt(<<place, job.id, f>>).content \in Contents
  <2>1. Exists(<<place, job.id, f>>)
    BY <1>1 DEF IInv, LinkInv
  <2>2. FileAt(<<place, job.id, f>>) \in disk
    BY <2>1, FileAtIsAFile
  <2>3. QED BY <1>2, <2>2 DEF File
<1>4. m \in Manifests
  <2>1. m \in [job.files -> Contents] BY <1>3
  <2> HIDE DEF m
  <2>2. QED BY <1>2, <2>1, FunctionIsAManifest
<1> HIDE DEF m
<1>5. TypeOK'
  BY <1>1, <1>4 DEF IInv, TypeOK, Phases
<1>6. TreeInv' /\ ThroughNeverRewinds' /\ RouteInv'
  BY <1>1 DEF IInv, TreeInv, ThroughNeverRewinds, RouteInv
<1>7. LinkInv'
  BY <1>1 DEF IInv, LinkInv, Exists
<1>8. QED BY <1>5, <1>6, <1>7 DEF IInv

\* The catalog is written: the new build is one more, with routes that start from
\* builds no later than it.
LEMMA CatalogStep ==
  ASSUME IInv, WriteCatalog
  PROVE  IInv'
<1> DEFINE bytes == IF job.kind = "full" THEN Cardinality(job.files) ELSE 0
           e == [kind |-> job.kind, through |-> job.through, epoch |-> job.epoch,
                 parent |-> IF job.kind = "daily" THEN job.base ELSE NoBuild,
                 bridgeFrom |-> IF job.kind = "full" THEN job.base ELSE NoBuild,
                 edges |-> job.edges, bytes |-> bytes]
<1>1. /\ pc = "rewrite" /\ pc' = "prune" /\ torn' = FALSE
      /\ cat' = Recorded(cat, job.id, e)
      /\ intent' = [intent EXCEPT ![job.id] = [files |-> job.given, pageSet |-> job.pageSet]]
      /\ UNCHANGED <<disk, rootDirs, workDirs, patches, manifest, job>>
  BY DEF WriteCatalog
<1>2. IsCatalog(cat, Ids) /\ IsJob(job)
  BY DEF IInv, TypeOK
<1>3. /\ job.id \in Ids \ DOMAIN cat
      /\ \A src \in DOMAIN job.edges : src \in DOMAIN cat /\ cat[src].through <= job.through
  BY <1>1 DEF IInv, RouteInv
<1>4. bytes \in Nat
  BY <1>2, PublisherAssumption, FS_Subset, FS_CardinalityType DEF PublisherAssumption, IsJob
<1>5. IsEntry(e, Ids) /\ e.edges = job.edges /\ e.through = job.through /\ e.through \in Nat
  <2> HIDE DEF bytes
  <2>1. QED BY <1>2, <1>4, EntryIsAnEntry DEF IsJob
<1> HIDE DEF e
<1>6. IsCatalog(cat', Ids)
  BY <1>1, <1>2, <1>3, <1>5, RecordedIsACatalog
<1>7. /\ DOMAIN cat' = DOMAIN cat \cup {job.id} /\ cat'[job.id] = e
      /\ \A id \in DOMAIN cat : cat'[id] = cat[id]
  BY <1>1, <1>3 DEF Recorded
<1>8. TypeOK'
  <2>1. job.given \in Manifests /\ job.pageSet \in SUBSET Pages BY <1>2 DEF IsJob
  <2>2. QED BY <1>1, <1>6, <2>1 DEF IInv, TypeOK, Phases
<1>9. TreeInv'
  <2>1. job.id \in Nat /\ Ordered(cat)
    BY <1>2, <1>3, CatalogIsOrdered, PublisherAssumption DEF PublisherAssumption
  <2>2. HasLast(cat', DOMAIN cat')
    BY <1>1, <1>3, <1>5, <2>1, RecordedHasLast DEF IInv, TreeInv
  <2>3. job.id \in rootDirs
    BY <1>1 DEF IInv, RouteInv
  <2>4. QED BY <1>1, <1>7, <2>2, <2>3 DEF IInv, TreeInv
<1>10. ThroughNeverRewinds'
  <2>1. ASSUME NEW id \in DOMAIN cat', NEW src \in DOMAIN cat'[id].edges
        PROVE  src \in DOMAIN cat' /\ cat'[src].through <= cat'[id].through
    <3>1. CASE id = job.id
      BY <1>3, <1>5, <1>7, <3>1
    <3>2. CASE id # job.id
      BY <1>7, <3>2 DEF IInv, ThroughNeverRewinds, Listed
    <3>3. QED BY <3>1, <3>2
  <2>2. QED BY <2>1 DEF ThroughNeverRewinds, Listed
<1>11. LinkInv' /\ RouteInv'
  BY <1>1 DEF LinkInv, RouteInv
<1>12. QED BY <1>8, <1>9, <1>10, <1>11 DEF IInv

\* The work directories that are not kept go.
LEMMA PruneStep ==
  ASSUME IInv, Prune
  PROVE  IInv'
<1>1. /\ pc' = "idle" /\ job' = NoJob /\ workDirs' \subseteq workDirs
      /\ UNCHANGED <<cat, torn, rootDirs, patches, manifest, intent>>
  BY DEF Prune
<1>2. disk' \subseteq File
  BY RemovedKeeps DEF IInv, TypeOK, Prune
<1>3. TypeOK'
  BY <1>1, <1>2, NoJobIsAJob DEF IInv, TypeOK, Phases
<1>4. TreeInv' /\ ThroughNeverRewinds'
  BY <1>1 DEF IInv, TreeInv, ThroughNeverRewinds
<1>5. LinkInv' /\ RouteInv'
  BY <1>1 DEF LinkInv, RouteInv
<1>6. QED BY <1>3, <1>4, <1>5 DEF IInv

LEMMA StutterStep ==
  ASSUME IInv, UNCHANGED vars
  PROVE  IInv'
<1> USE DEF vars
<1>1. TypeOK' BY DEF IInv, TypeOK
<1>2. TreeInv' /\ ThroughNeverRewinds' BY DEF IInv, TreeInv, ThroughNeverRewinds
<1>3. LinkInv' /\ RouteInv' BY DEF IInv, LinkInv, RouteInv, Exists, baseDBDir
<1>4. QED BY <1>1, <1>2, <1>3 DEF IInv

----------------------------------------------------------------------------
\* Every step of every publish keeps the invariant.
LEMMA NextIInv == IInv /\ [Next]_vars => IInv'
<1> SUFFICES ASSUME IInv, [Next]_vars PROVE IInv'
  OBVIOUS
<1>1. CASE \/ Restage
           \/ \E f \in Files, c \in Contents : Export(f, c)
           \/ \E id \in Ids : ClearFailed(id)
  BY <1>1, IdleStep
<1>2. CASE \E id \in Ids, kind \in Kinds, fresh \in BOOLEAN, d \in Days, n \in Spans :
             \E ps \in IF kind = "full" THEN SUBSET Pages ELSE {{}} :
               Start(id, kind, fresh, d, ps, n)
  BY <1>2, StartStep
<1>3. CASE \E f \in Files : LinkFile(f) \/ HostFile(f)
  BY <1>3, LinkStep, HostStep
<1>4. CASE \E diff \in [Files -> Contents] : Diff(diff) \/ Rollup(diff)
  BY <1>4, RouteStep
<1>5. CASE EndLink \/ Guard \/ EndHost \/ OpenCatalog
  BY <1>5, PhaseStep
<1>6. CASE WriteManifest
  BY <1>6, ManifestStep
<1>7. CASE WriteCatalog
  BY <1>7, CatalogStep
<1>8. CASE Prune
  BY <1>8, PruneStep
<1>9. CASE Stop
  BY <1>9, StopStep
<1>10. CASE UNCHANGED vars
  BY <1>10, StutterStep
<1>11. QED
  BY <1>1, <1>2, <1>3, <1>4, <1>5, <1>6, <1>7, <1>8, <1>9, <1>10 DEF Next

LEMMA Invariance == Spec => []IInv
BY InitIInv, NextIInv, PTL DEF Spec

\* Every variable of the publisher has its type, in every state of every publish.
THEOREM PublisherTyped == Spec => []TypeOK
<1>1. IInv => TypeOK BY DEF IInv
<1>2. QED BY <1>1, Invariance, PTL

\* No route rewinds: whatever is published, in whatever order, with whatever
\* days, and wherever a publish stops, a route only leads forward in content.
THEOREM RoutesLeadForward == Spec => []ThroughNeverRewinds
<1>1. IInv => ThroughNeverRewinds BY DEF IInv
<1>2. QED BY <1>1, Invariance, PTL

\* The catalog always has a tip, and every listed build a directory: what
\* CmdPublish diffs against is defined by the catalog alone.
THEOREM CatalogHasTip == Spec => [](HasLast(cat, DOMAIN cat) /\ DOMAIN cat \subseteq rootDirs)
<1>1. IInv => HasLast(cat, DOMAIN cat) /\ DOMAIN cat \subseteq rootDirs BY DEF IInv, TreeInv
<1>2. QED BY <1>1, Invariance, PTL

----------------------------------------------------------------------------
(* The files *)

ContentAt(p) == FileAt(p).content

\* No path names two files.
Unique == \A x, y \in disk : \A p \in x.names : p \in y.names => x = y

\* The step leaves what is under path p as it is.
Same(p) == (Exists(p)' <=> Exists(p)) /\ (Exists(p) => ContentAt(p)' = ContentAt(p))

----------------------------------------------------------------------------
\* What each change of the disk does to the paths.

\* A file with a path is the file at that path.
LEMMA FileAtIs ==
  ASSUME Unique, NEW x \in disk, NEW p \in x.names
  PROVE  Exists(p) /\ FileAt(p) = x
<1>1. Exists(p) BY DEF Exists
<1>2. FileAt(p) \in disk /\ p \in FileAt(p).names
  BY <1>1, FileAtIsAFile
<1> QED BY <1>1, <1>2 DEF Unique

\* A file that a step keeps, with its content, is found where it was.
LEMMA KeptFileIsSame ==
  ASSUME Unique, Unique', NEW p,
         \A x \in disk : p \in x.names => \E y \in disk' : p \in y.names /\ y.content = x.content,
         \A y \in disk' : p \in y.names => \E x \in disk : p \in x.names
  PROVE  Same(p)
<1>1. Exists(p)' <=> Exists(p)
  BY DEF Exists
<1>2. ASSUME Exists(p) PROVE ContentAt(p)' = ContentAt(p)
  <2>1. FileAt(p) \in disk /\ p \in FileAt(p).names
    BY <1>2, FileAtIsAFile
  <2>2. PICK y \in disk' : p \in y.names /\ y.content = FileAt(p).content
    BY <2>1
  <2>3. Exists(p)'
    BY <1>1, <1>2
  <2>4. FileAt(p)' \in disk' /\ p \in FileAt(p)'.names
    BY <2>3 DEF Exists, FileAt
  <2>5. FileAt(p)' = y
    BY <2>2, <2>4 DEF Unique
  <2> QED BY <2>2, <2>5 DEF ContentAt
<1> QED BY <1>1, <1>2 DEF Same

LEMMA CreatedEffect ==
  ASSUME Unique, NEW p, ~Exists(p), NEW c, disk' = Created(p, c)
  PROVE  /\ Unique'
         /\ Exists(p)' /\ ContentAt(p)' = c
         /\ \A q : q # p => Same(q)
<1> DEFINE x == [names |-> {p}, content |-> c]
<1>1. disk' = disk \cup {x} /\ x.names = {p} /\ x.content = c
  BY DEF Created
<1> HIDE DEF x
<1>2. Unique'
  BY <1>1 DEF Unique, Exists
<1>3. Exists(p)' /\ FileAt(p)' = x
  <2>1. Exists(p)' BY <1>1 DEF Exists
  <2>2. FileAt(p)' \in disk' /\ p \in FileAt(p)'.names
    BY <2>1 DEF Exists, FileAt
  <2> QED BY <1>1, <2>1, <2>2 DEF Exists
<1>4. ASSUME NEW q, q # p PROVE Same(q)
  BY <1>1, <1>2, <1>4, KeptFileIsSame
<1> QED BY <1>1, <1>2, <1>3, <1>4 DEF ContentAt

LEMMA LinkedEffect ==
  ASSUME disk \subseteq File, Unique, NEW src, Exists(src), NEW dst, ~Exists(dst),
         disk' = Linked(src, dst)
  PROVE  /\ Unique'
         /\ Exists(dst)' /\ ContentAt(dst)' = ContentAt(src)
         /\ \A q : q # dst => Same(q)
<1> DEFINE x == FileAt(src)
           y == [x EXCEPT !.names = @ \cup {dst}]
<1>1. x \in disk /\ src \in x.names
  BY FileAtIsAFile
<1>2. y.names = x.names \cup {dst} /\ y.content = x.content
  BY <1>1 DEF File
<1>3. disk' = (disk \ {x}) \cup {y}
  BY DEF Linked
<1> HIDE DEF x, y
<1>4. \A z \in disk : dst \notin z.names
  BY DEF Exists
<1>5. Unique'
  BY <1>1, <1>2, <1>3, <1>4 DEF Unique
<1>6. Exists(dst)' /\ FileAt(dst)' = y
  <2>1. y \in disk' /\ dst \in y.names BY <1>2, <1>3
  <2>2. Exists(dst)' BY <2>1 DEF Exists
  <2>3. FileAt(dst)' \in disk' /\ dst \in FileAt(dst)'.names
    BY <2>2 DEF Exists, FileAt
  <2> QED BY <1>5, <2>1, <2>2, <2>3 DEF Unique
<1>7. ASSUME NEW q, q # dst PROVE Same(q)
  <2>1. \A z \in disk : q \in z.names => \E w \in disk' : q \in w.names /\ w.content = z.content
    BY <1>2, <1>3
  <2>2. \A w \in disk' : q \in w.names => \E z \in disk : q \in z.names
    BY <1>1, <1>2, <1>3, <1>7
  <2> QED BY <1>5, <2>1, <2>2, KeptFileIsSame
<1> QED BY <1>2, <1>5, <1>6, <1>7 DEF ContentAt, x

\* Writing through one path of a file leaves the other files alone.
LEMMA WrittenEffect ==
  ASSUME disk \subseteq File, Unique, NEW p, Exists(p), NEW c, disk' = Written(p, c)
  PROVE  /\ Unique'
         /\ \A q : q \notin FileAt(p).names => Same(q)
<1> DEFINE x == FileAt(p)
           y == [x EXCEPT !.content = c]
<1>1. x \in disk /\ p \in x.names
  BY FileAtIsAFile
<1>2. y.names = x.names
  BY <1>1 DEF File
<1>3. disk' = (disk \ {x}) \cup {y}
  BY DEF Written
<1> HIDE DEF x, y
<1>4. Unique'
  BY <1>1, <1>2, <1>3 DEF Unique
<1>5. ASSUME NEW q, q \notin x.names PROVE Same(q)
  BY <1>1, <1>2, <1>3, <1>4, <1>5, KeptFileIsSame
<1> QED BY <1>4, <1>5 DEF x

LEMMA RemovedEffect ==
  ASSUME disk \subseteq File, Unique, NEW gone, disk' = Removed(gone)
  PROVE  /\ Unique'
         /\ \A q \in gone : ~Exists(q)'
         /\ \A q : q \notin gone => Same(q)
<1> DEFINE left(x) == [x EXCEPT !.names = @ \ gone]
<1>1. disk' = {left(x) : x \in {y \in disk : ~ (y.names \subseteq gone)}}
  BY DEF Removed
<1>2. \A x \in disk : left(x).names = x.names \ gone /\ left(x).content = x.content
  BY DEF File
<1> HIDE DEF left
<1>3. Unique'
  BY <1>1, <1>2 DEF Unique
<1>4. ASSUME NEW q \in gone PROVE ~Exists(q)'
  BY <1>1, <1>2 DEF Exists
<1>5. ASSUME NEW q, q \notin gone PROVE Same(q)
  <2>1. ASSUME NEW x \in disk, q \in x.names
        PROVE  \E y \in disk' : q \in y.names /\ y.content = x.content
    BY <1>1, <1>2, <1>5, <2>1
  <2>2. \A y \in disk' : q \in y.names => \E x \in disk : q \in x.names
    BY <1>1, <1>2
  <2> QED BY <1>3, <2>1, <2>2, KeptFileIsSame
<1> QED BY <1>3, <1>4, <1>5

\* A directory none of whose paths a step touches holds what it held.
LEMMA HeldStays ==
  ASSUME NEW place, NEW id, \A f \in Files : Same(<<place, id, f>>)
  PROVE  Held(place, id)' = Held(place, id)
<1> DEFINE S == {g \in Files : Exists(<<place, id, g>>)}
           T == {g \in Files : Exists(<<place, id, g>>)'}
<1>1. S = T
  BY DEF Same
<1>2. \A f \in S : FileAt(<<place, id, f>>)'.content = FileAt(<<place, id, f>>).content
  BY DEF Same, ContentAt
<1>3. Held(place, id) = [f \in S |-> FileAt(<<place, id, f>>).content]
  BY DEF Held
<1>4. Held(place, id)' = [f \in T |-> FileAt(<<place, id, f>>)'.content]
  BY DEF Held
<1> HIDE DEF S, T
<1> QED BY <1>1, <1>2, <1>3, <1>4


----------------------------------------------------------------------------
(* Nothing that is published changes. *)

\* A hosted database is a file of its own, so that no write through a work
\* directory reaches it.
RootAlone ==
  \A x \in disk, id \in Ids, f \in Files :
    <<"root", id, f>> \in x.names => x.names = {<<"root", id, f>>}

\* The tip's databases are in the work directory, and so are the running publish's:
\* what is linked comes from there, or from the stage, never from the release root.
TipInWork ==
  /\ DOMAIN cat # {} => Latest(cat) \in workDirs
  /\ pc # "idle" => job.id \in workDirs

FilesInv == Unique /\ RootAlone /\ TipInWork

\* The hosted databases of the listed builds stay as they are.
HostedStay == \A id \in DOMAIN cat, f \in Files : Same(<<"root", id, f>>)

LEMMA CreatedAlone ==
  ASSUME RootAlone, NEW p, NEW c, disk' = Created(p, c)
  PROVE  RootAlone'
BY DEF RootAlone, Created

LEMMA LinkedAlone ==
  ASSUME disk \subseteq File, RootAlone, NEW src, Exists(src), NEW dst,
         \A id \in Ids, f \in Files : <<"root", id, f>> # src /\ <<"root", id, f>> # dst,
         disk' = Linked(src, dst)
  PROVE  RootAlone'
<1> DEFINE x == FileAt(src)
           y == [x EXCEPT !.names = @ \cup {dst}]
<1>1. x \in disk /\ src \in x.names
  BY FileAtIsAFile
<1>2. y.names = x.names \cup {dst}
  BY <1>1 DEF File
<1>3. disk' = (disk \ {x}) \cup {y}
  BY DEF Linked
<1> HIDE DEF x, y
<1>4. ASSUME NEW id \in Ids, NEW f \in Files PROVE <<"root", id, f>> \notin y.names
  <2>1. <<"root", id, f>> \in x.names => x.names = {<<"root", id, f>>}
    BY <1>1 DEF RootAlone
  <2>2. <<"root", id, f>> \notin x.names
    BY <1>1, <2>1
  <2> QED BY <1>2, <2>2
<1> QED BY <1>3, <1>4 DEF RootAlone

LEMMA WrittenAlone ==
  ASSUME disk \subseteq File, RootAlone, NEW p, Exists(p), NEW c, disk' = Written(p, c)
  PROVE  RootAlone'
<1> DEFINE x == FileAt(p)
           y == [x EXCEPT !.content = c]
<1>1. x \in disk
  BY FileAtIsAFile
<1>2. y.names = x.names
  BY <1>1 DEF File
<1>3. disk' = (disk \ {x}) \cup {y}
  BY DEF Written
<1> HIDE DEF x, y
<1> QED BY <1>1, <1>2, <1>3 DEF RootAlone

LEMMA RemovedAlone ==
  ASSUME disk \subseteq File, RootAlone, NEW gone, disk' = Removed(gone)
  PROVE  RootAlone'
<1> DEFINE left(x) == [x EXCEPT !.names = @ \ gone]
<1>1. disk' = {left(x) : x \in {y \in disk : ~ (y.names \subseteq gone)}}
  BY DEF Removed
<1>2. \A x \in disk : left(x).names = x.names \ gone
  BY DEF File
<1> HIDE DEF left
<1> QED BY <1>1, <1>2 DEF RootAlone

\* A database is linked: not out of the release root, and not into it.
LEMMA LinkKeepsFiles ==
  ASSUME IInv, FilesInv, NEW f \in Files, LinkFile(f)
  PROVE  Unique' /\ RootAlone' /\ HostedStay
<1> DEFINE stage == <<"stage", NoBuild, f>>
           src == IF Exists(stage) THEN stage ELSE <<baseDBDir(job.base), job.base, f>>
           dst == <<"work", job.id, f>>
<1>1. pc = "link" /\ f \in job.todo /\ linkOrCopy(src, dst)
  BY DEF LinkFile
<1>2. Exists(src)
  BY <1>1 DEF IInv, LinkInv
<1>3. disk \subseteq File /\ Unique /\ RootAlone
  BY DEF IInv, TypeOK, FilesInv
<1>4. src \in {stage, <<"work", job.base, f>>}
  <2>1. CASE Exists(stage) BY <2>1
  <2>2. CASE ~Exists(stage)
    <3>1. job.base # NoBuild
      BY <1>1, <2>2 DEF IInv, LinkInv
    <3>2. job.base = Latest(cat) /\ DOMAIN cat # {}
      BY <1>1, <3>1 DEF IInv, RouteInv
    <3>3. baseDBDir(job.base) = "work"
      BY <3>2 DEF FilesInv, TipInWork, baseDBDir
    <3> QED BY <2>2, <3>3
  <2> QED BY <2>1, <2>2
<1>5. \A id \in Ids, g \in Files : <<"root", id, g>> # src /\ <<"root", id, g>> # dst
  BY <1>4
<1> HIDE DEF src, dst
<1>6. CASE ~Exists(dst) /\ HardLinks
  <2>1. disk' = Linked(src, dst)
    BY <1>1, <1>6 DEF linkOrCopy
  <2>2. Unique' /\ \A q : q # dst => Same(q)
    BY <1>2, <1>3, <1>6, <2>1, LinkedEffect
  <2>3. RootAlone'
    BY <1>2, <1>3, <1>5, <2>1, LinkedAlone
  <2>4. HostedStay
    BY <1>5, <2>2 DEF HostedStay, IInv, TypeOK, IsCatalog
  <2> QED BY <2>2, <2>3, <2>4
<1>7. CASE ~Exists(dst) /\ ~HardLinks
  <2>1. disk' = Created(dst, FileAt(src).content)
    BY <1>1, <1>7 DEF linkOrCopy
  <2>2. Unique' /\ \A q : q # dst => Same(q)
    BY <1>3, <1>7, <2>1, CreatedEffect
  <2>3. RootAlone'
    BY <1>3, <2>1, CreatedAlone
  <2>4. HostedStay
    BY <1>5, <2>2 DEF HostedStay, IInv, TypeOK, IsCatalog
  <2> QED BY <2>2, <2>3, <2>4
<1>8. CASE Exists(dst)
  <2>1. PICK c : disk' = Written(dst, c)
    BY <1>1, <1>8 DEF linkOrCopy
  <2>2. Unique' /\ \A q : q \notin FileAt(dst).names => Same(q)
    BY <1>3, <1>8, <2>1, WrittenEffect
  <2>3. RootAlone'
    BY <1>3, <1>8, <2>1, WrittenAlone
  <2>4. \A id \in Ids, g \in Files : <<"root", id, g>> \notin FileAt(dst).names
    <3>1. FileAt(dst) \in disk /\ dst \in FileAt(dst).names
      BY <1>8, FileAtIsAFile
    <3> TAKE id \in Ids, g \in Files
    <3>2. <<"root", id, g>> \in FileAt(dst).names => FileAt(dst).names = {<<"root", id, g>>}
      BY <1>3, <3>1 DEF RootAlone
    <3> QED BY <1>5, <3>1, <3>2
  <2>5. HostedStay
    BY <2>2, <2>4 DEF HostedStay, IInv, TypeOK, IsCatalog
  <2> QED BY <2>2, <2>3, <2>5
<1> QED BY <1>6, <1>7, <1>8

\* Where the disk does not change, nothing on it does.
LEMMA QuietDisk ==
  ASSUME UNCHANGED disk
  PROVE  \A q : Same(q)
BY DEF Same, Exists, ContentAt, FileAt

\* Every step leaves the hosted databases of the listed builds alone.
LEMMA StepKeepsFiles ==
  ASSUME IInv, FilesInv, [Next]_vars
  PROVE  Unique' /\ RootAlone' /\ HostedStay
<1>1. disk \subseteq File /\ Unique /\ RootAlone /\ DOMAIN cat \subseteq Ids
  BY DEF IInv, TypeOK, IsCatalog, FilesInv
<1>2. CASE UNCHANGED disk
  BY <1>1, <1>2, QuietDisk DEF Unique, RootAlone, HostedStay
<1>3. CASE Restage
  BY <1>1, <1>3, RemovedEffect, RemovedAlone DEF Restage, Stage, HostedStay
<1>4. ASSUME NEW f \in Files, NEW c \in Contents, Export(f, c)
      PROVE  Unique' /\ RootAlone' /\ HostedStay
  BY <1>1, <1>4, CreatedEffect, CreatedAlone DEF Export, HostedStay
<1>5. ASSUME NEW f \in Files, LinkFile(f)
      PROVE  Unique' /\ RootAlone' /\ HostedStay
  BY <1>5, LinkKeepsFiles
<1>6. ASSUME NEW f \in Files, HostFile(f)
      PROVE  Unique' /\ RootAlone' /\ HostedStay
  <2> DEFINE hosted == <<"root", job.id, f>>
  <2>1. job.id \notin DOMAIN cat /\ ~Exists(hosted)
        /\ disk' = Created(hosted, FileAt(<<"work", job.id, f>>).content)
    BY <1>6 DEF HostFile, IInv, RouteInv
  <2>2. \A id \in DOMAIN cat, g \in Files : <<"root", id, g>> # hosted
    BY <2>1
  <2> HIDE DEF hosted
  <2> QED BY <1>1, <2>1, <2>2, CreatedEffect, CreatedAlone DEF HostedStay
<1>7. CASE Prune
  <2> DEFINE gone == UNION {InWork(id) : id \in Ids \ keep(job.id)}
  <2>1. disk' = Removed(gone)
    BY <1>7 DEF Prune
  <2>2. \A id \in Ids, f \in Files : <<"root", id, f>> \notin gone
    BY DEF InWork
  <2> HIDE DEF gone
  <2> QED BY <1>1, <2>1, <2>2, RemovedEffect, RemovedAlone DEF HostedStay
<1>8. ASSUME NEW id \in Ids, ClearFailed(id)
      PROVE  Unique' /\ RootAlone' /\ HostedStay
  <2> DEFINE gone == InRoot(id) \cup (IF CleansWork THEN InWork(id) ELSE {})
  <2>1. disk' = Removed(gone) /\ id \notin DOMAIN cat
    BY <1>8 DEF ClearFailed, Listed
  <2>2. \A b \in DOMAIN cat, f \in Files : <<"root", b, f>> \notin gone
    BY <2>1 DEF InRoot, InWork
  <2> HIDE DEF gone
  <2> QED BY <1>1, <2>1, <2>2, RemovedEffect, RemovedAlone DEF HostedStay
<1> QED
  BY <1>2, <1>3, <1>4, <1>5, <1>6, <1>7, <1>8
  DEF Next, vars, Start, EndLink, Diff, Rollup, Guard, EndHost, WriteManifest, OpenCatalog,
      WriteCatalog, Stop

\* The tip stays in the work directory: it is one of the builds that pruning keeps.
LEMMA TipStaysInWork ==
  ASSUME KeepTips >= 1, IInv, IInv', FilesInv, [Next]_vars
  PROVE  TipInWork'
<1>1. Ordered(cat) /\ HasLast(cat, DOMAIN cat) /\ DOMAIN cat \subseteq Ids
  BY CatalogIsOrdered DEF IInv, TypeOK, TreeInv, IsCatalog
<1>2. TipInWork
  BY DEF FilesInv
<1>3. CASE Prune
  <2>1. UNCHANGED cat /\ pc' = "idle" /\ workDirs' = workDirs \cap keep(job.id)
    BY <1>3 DEF Prune
  <2>2. ASSUME DOMAIN cat # {} PROVE Latest(cat) \in keep(job.id)
    <3>1. Latest(cat) \in DOMAIN cat
      BY <1>1, <2>2, LatestIsLatest
    <3>2. {job.id} \cup {o \in DOMAIN cat : Before(cat, Latest(cat), o)} = {job.id}
      BY <1>1, <2>2, NoneAfterLatest
    <3>3. Cardinality({job.id}) <= KeepTips
      BY FS_Singleton, PublisherAssumption DEF PublisherAssumption
    <3> QED BY <3>1, <3>2, <3>3 DEF keep
  <2> QED BY <1>2, <2>1, <2>2 DEF TipInWork
<1>4. CASE WriteCatalog
  <2> DEFINE e == [kind |-> job.kind, through |-> job.through, epoch |-> job.epoch,
                   parent |-> IF job.kind = "daily" THEN job.base ELSE NoBuild,
                   bridgeFrom |-> IF job.kind = "full" THEN job.base ELSE NoBuild,
                   edges |-> job.edges,
                   bytes |-> IF job.kind = "full" THEN Cardinality(job.files) ELSE 0]
  <2>1. pc = "rewrite" /\ cat' = Recorded(cat, job.id, e) /\ UNCHANGED <<workDirs, job>>
    BY <1>4 DEF WriteCatalog
  <2>2. job.id \in Ids /\ job.id \in Nat /\ job.id \notin DOMAIN cat
    BY <2>1, PublisherAssumption DEF PublisherAssumption, IInv, RouteInv
  <2>3. e.through = job.through /\ job.through \in Nat
    BY DEF IInv, TypeOK, IsJob
  <2> HIDE DEF e
  <2>4. Latest(cat') \in {Latest(cat), job.id} \cap workDirs
    <3>1. CASE DOMAIN cat = {}
      <4>1. DOMAIN cat' = {job.id}
        BY <2>1, <3>1 DEF Recorded
      <4>2. Latest(cat') \in DOMAIN cat'
        BY <4>1 DEF Latest, LastOf
      <4> QED BY <1>2, <2>1, <4>1, <4>2 DEF TipInWork
    <3>2. CASE DOMAIN cat # {}
      <4>1. Latest(cat') \in {Latest(cat), job.id}
        BY <1>1, <2>1, <2>2, <2>3, <3>2, RecordedLatest
      <4> QED BY <1>2, <2>1, <3>2, <4>1 DEF TipInWork
    <3> QED BY <3>1, <3>2
  <2> QED BY <1>2, <2>1, <2>4 DEF TipInWork
<1>5. ASSUME NEW id \in Ids, ClearFailed(id)
      PROVE  TipInWork'
  <2>1. UNCHANGED <<cat, pc>> /\ pc = "idle" /\ workDirs \ {id} \subseteq workDirs'
        /\ id \notin DOMAIN cat
    BY <1>5 DEF ClearFailed, Listed
  <2>2. DOMAIN cat # {} => Latest(cat) \in DOMAIN cat
    BY <1>1, LatestIsLatest
  <2> QED BY <1>2, <2>1, <2>2 DEF TipInWork
<1>6. ASSUME UNCHANGED cat, workDirs \subseteq workDirs', pc' # "idle" => job'.id \in workDirs'
      PROVE  TipInWork'
  BY <1>2, <1>6 DEF TipInWork
<1>7. ASSUME NEW id \in Ids, NEW kind \in Kinds, NEW fresh \in BOOLEAN, NEW d \in Days,
             NEW ps \in SUBSET Pages, NEW n \in Spans, Start(id, kind, fresh, d, ps, n)
      PROVE  TipInWork'
  BY <1>6, <1>7 DEF Start
<1>8. CASE UNCHANGED <<cat, workDirs>> /\ (pc' # "idle" => pc # "idle" /\ job'.id = job.id)
  BY <1>2, <1>6, <1>8 DEF TipInWork
<1>9. IsJob(job)
  BY DEF IInv, TypeOK
<1>10. ASSUME NEW f \in Files, LinkFile(f) \/ HostFile(f)
       PROVE  TipInWork'
  BY <1>8, <1>9, <1>10 DEF LinkFile, HostFile, IsJob
<1>11. ASSUME NEW diff \in [Files -> Contents], Diff(diff) \/ Rollup(diff)
       PROVE  TipInWork'
  BY <1>8, <1>9, <1>11 DEF Diff, Rollup, emitPatches, IsJob
<1>12. ASSUME NEW f \in Files, NEW c \in Contents, Export(f, c)
       PROVE  TipInWork'
  BY <1>8, <1>12 DEF Export
<1>13. CASE \/ Restage \/ EndLink \/ Guard \/ EndHost \/ WriteManifest \/ OpenCatalog \/ Stop
            \/ UNCHANGED vars
  BY <1>8, <1>13
  DEF Restage, EndLink, Guard, EndHost, WriteManifest, OpenCatalog, Stop, vars
<1> QED
  BY <1>3, <1>4, <1>5, <1>7, <1>10, <1>11, <1>12, <1>13 DEF Next

LEMMA InitFilesInv == Init => FilesInv
BY DEF Init, EmptyCatalog, FilesInv, Unique, RootAlone, TipInWork

\* What each step leaves of the catalog, the directories, the manifests and the patches.
LEMMA WhatAStepWrites ==
  ASSUME [Next]_vars
  PROVE  /\ WriteCatalog \/ UNCHANGED cat
         /\ (\E id \in Ids : ClearFailed(id)) \/ rootDirs \subseteq rootDirs'
         /\ WriteManifest \/ (\E id \in Ids : ClearFailed(id)) \/ UNCHANGED manifest
         /\ \/ \E diff \in [Files -> Contents] : Diff(diff) \/ Rollup(diff)
            \/ \E id \in Ids : ClearFailed(id)
            \/ UNCHANGED patches
<1> DEFINE Leaves == UNCHANGED <<cat, manifest, patches>> /\ rootDirs \subseteq rootDirs'
<1>1. CASE Restage \/ EndLink \/ Guard \/ EndHost \/ OpenCatalog \/ Prune \/ Stop \/ UNCHANGED vars
  <2>1. Leaves
    BY <1>1 DEF Restage, EndLink, Guard, EndHost, OpenCatalog, Prune, Stop, vars
  <2> QED BY <2>1
<1>2. CASE \E f \in Files, c \in Contents : Export(f, c)
  <2>1. Leaves
    BY <1>2 DEF Export
  <2> QED BY <2>1
<1>3. CASE \E f \in Files : LinkFile(f) \/ HostFile(f)
  <2>1. Leaves
    BY <1>3 DEF LinkFile, HostFile
  <2> QED BY <2>1
<1>4. ASSUME NEW id \in Ids, NEW kind \in Kinds, NEW fresh \in BOOLEAN, NEW d \in Days,
             NEW n \in Spans, NEW ps \in IF kind = "full" THEN SUBSET Pages ELSE {{}},
             Start(id, kind, fresh, d, ps, n)
      PROVE  Leaves
  BY <1>4 DEF Start
<1>5. CASE \E diff \in [Files -> Contents] : Diff(diff) \/ Rollup(diff)
  <2>1. UNCHANGED <<cat, rootDirs, manifest>>
    BY <1>5 DEF Diff, Rollup
  <2> QED BY <1>5, <2>1
<1>6. CASE WriteManifest
  <2>1. UNCHANGED <<cat, rootDirs, patches>>
    BY <1>6 DEF WriteManifest
  <2> QED BY <1>6, <2>1
<1>7. CASE WriteCatalog
  <2>1. UNCHANGED <<rootDirs, manifest, patches>>
    BY <1>7 DEF WriteCatalog
  <2> QED BY <1>7, <2>1
<1>8. CASE \E id \in Ids : ClearFailed(id)
  <2>1. UNCHANGED cat
    BY <1>8 DEF ClearFailed
  <2> QED BY <1>8, <2>1
<1> QED
  BY <1>1, <1>2, <1>3, <1>4, <1>5, <1>6, <1>7, <1>8 DEF Next

\* What a step does to what is published: nothing.
LEMMA StepPublishes ==
  ASSUME IInv, FilesInv, [Next]_vars, NEW id \in DOMAIN cat
  PROVE  /\ Listed(cat', id) /\ cat'[id] = cat[id]
         /\ id \in rootDirs'
         /\ manifest'[id] = manifest[id] /\ patches'[id] = patches[id]
         /\ Held("root", id)' = Held("root", id)
<1>1. /\ id \in Ids /\ id \in rootDirs
      /\ pc \notin {"idle", "prune"} => id # job.id
  BY DEF IInv, TypeOK, IsCatalog, TreeInv, RouteInv
<1>2. manifest \in [Ids -> Manifests] /\ patches \in [Ids -> SUBSET Patch]
  BY DEF IInv, TypeOK
<1>3. ASSUME NEW b \in Ids, ClearFailed(b)
      PROVE  id \in rootDirs' /\ manifest'[id] = manifest[id] /\ patches'[id] = patches[id]
  BY <1>1, <1>2, <1>3 DEF ClearFailed, Listed
<1>4. Held("root", id)' = Held("root", id)
  <2>1. \A f \in Files : Same(<<"root", id, f>>)
    BY StepKeepsFiles DEF HostedStay
  <2> QED BY <2>1, HeldStays
<1>5. id \in DOMAIN cat' /\ cat'[id] = cat[id]
  <2>1. CASE WriteCatalog
    BY <1>1, <2>1 DEF WriteCatalog, Recorded
  <2> QED BY <2>1, WhatAStepWrites
<1>6. id \in rootDirs'
  BY <1>1, <1>3, WhatAStepWrites
<1>7. manifest'[id] = manifest[id]
  <2>1. CASE WriteManifest
    BY <1>1, <1>2, <2>1 DEF WriteManifest
  <2> QED BY <1>3, <2>1, WhatAStepWrites
<1>8. patches'[id] = patches[id]
  <2>1. ASSUME NEW src, NEW diff, id # job.id, emitPatches(src, diff)
        PROVE  patches'[id] = patches[id]
    BY <1>1, <1>2, <2>1 DEF emitPatches
  <2>2. ASSUME NEW diff \in [Files -> Contents], Diff(diff) \/ Rollup(diff)
        PROVE  patches'[id] = patches[id]
    BY <1>1, <2>1, <2>2 DEF Diff, Rollup
  <2> QED BY <1>3, <2>2, WhatAStepWrites
<1> QED BY <1>4, <1>5, <1>6, <1>7, <1>8 DEF Listed

\* A published build is immutable, for any builds, files and pages, wherever a
\* publish stops, and whatever a dead one left in its work directory: it takes only
\* that the tip's databases are kept, so that nothing is linked out of the release
\* root.
THEOREM PublishedStays ==
  ASSUME KeepTips >= 1
  PROVE  Spec => PublishedIsImmutable
<1>1. Init => FilesInv
  BY InitFilesInv
<1>2. IInv /\ IInv' /\ FilesInv /\ [Next]_vars => FilesInv'
  BY StepKeepsFiles, TipStaysInWork DEF FilesInv
<1>3. IInv /\ FilesInv /\ [Next]_vars =>
        [\A id \in DOMAIN cat :
           /\ Listed(cat', id) /\ cat'[id] = cat[id]
           /\ id \in rootDirs'
           /\ manifest'[id] = manifest[id] /\ patches'[id] = patches[id]
           /\ Held("root", id)' = Held("root", id)]_vars
  BY StepPublishes
<1> QED BY <1>1, <1>2, <1>3, Invariance, PTL DEF Spec, PublishedIsImmutable

----------------------------------------------------------------------------
(* What is published is what was exported, and every route can be ridden. *)

Later(x) == {o \in DOMAIN cat : Before(cat, x, o)}

\* A database is in a directory that is there, and a build with a work directory has
\* its release directory: clearing a failed publish clears both.
DirsInv ==
  /\ \A id \in Ids, f \in Files :
       /\ Exists(<<"work", id, f>>) => id \in workDirs
       /\ Exists(<<"root", id, f>>) => id \in rootDirs
  /\ workDirs \subseteq rootDirs

\* The last KeepTips builds are in the work directory, whatever order they were
\* published in.
KeptInv ==
  /\ IsFiniteSet(DOMAIN cat)
  /\ \A x \in DOMAIN cat : Cardinality(Later(x)) < KeepTips => x \in workDirs

\* A listed build's work directory holds what its manifest describes.
WorkInv == \A id \in DOMAIN cat : id \in workDirs => Held("work", id) = manifest[id]

BridgesInv == \A id \in DOMAIN cat : cat[id].bridgeFrom \in DOMAIN cat \cup {NoBuild}

\* What publish j has linked, what it has hosted, what it has yet to link, what its
\* routes make of each database, and what its bridge may remove.
WorkHas(j) ==
  \A f \in Files :
    /\ Exists(<<"work", j.id, f>>) <=> f \in j.files
    /\ f \in j.files => ContentAt(<<"work", j.id, f>>) = j.given[f]

RootHas(j) ==
  \A f \in Files : Exists(<<"root", j.id, f>>) =>
    f \in j.files /\ j.kind = "full" /\ ContentAt(<<"root", j.id, f>>) = j.given[f]

Sources(j) ==
  \A f \in j.todo :
    \/ Exists(<<"stage", NoBuild, f>>) /\ ContentAt(<<"stage", NoBuild, f>>) = j.given[f]
    \/ /\ ~Exists(<<"stage", NoBuild, f>>) /\ j.base \in DOMAIN cat \cap workDirs
       /\ Exists(<<"work", j.base, f>>) /\ ContentAt(<<"work", j.base, f>>) = j.given[f]

Edges(j) ==
  \A src \in DOMAIN j.edges : \A f \in j.files \cap DOMAIN manifest[src] :
    [from |-> src, file |-> f, base |-> manifest[src][f], result |-> j.given[f]] \in patches[j.id]

Guarded(j) ==
  j.kind = "full" /\ j.base # NoBuild /\ Core \in j.files \cap DOMAIN manifest[j.base] =>
    (manifest[j.base][Core] \ j.given[Core]) \cap j.pageSet = {}

\* The running publish is making what it was given.
JobInv ==
  pc \notin {"idle", "prune"} =>
    /\ job.span \in Spans
    /\ WorkHas(job) /\ RootHas(job) /\ Edges(job)
    /\ pc = "link" => /\ DOMAIN job.edges = {}
                      /\ job.todo = DOMAIN job.given \ job.files
                      /\ job.files \subseteq DOMAIN job.given
                      /\ Sources(job)
    /\ pc # "link" => job.files = DOMAIN job.given
    /\ pc \in {"host", "manifest", "catalog", "rewrite"} => Guarded(job)
    /\ pc \in {"manifest", "catalog", "rewrite"} /\ job.kind = "full" =>
         \A f \in job.files : Exists(<<"root", job.id, f>>)
    /\ pc \in {"catalog", "rewrite"} => manifest[job.id] = job.given

\* What is published.
PublishedInv ==
  /\ PublishesTheExport /\ FullsAreHosted
  /\ RoutesReproduce /\ NoUnexplainedRemoval

TreeIInv ==
  /\ DirsInv /\ KeptInv /\ WorkInv /\ BridgesInv
  /\ JobInv /\ PublishedInv

----------------------------------------------------------------------------
\* Which paths a step may touch, and what becomes of them.

\* A link makes the destination a path with the content the publish was given, and
\* touches no other: nothing was at the destination.
LEMMA LinkEffect ==
  ASSUME IInv, FilesInv, JobInv, NEW f \in Files, LinkFile(f), NEW id, id = job.id
  PROVE  /\ pc = "link" /\ f \in job.todo
         /\ \A q : q # <<"work", id, f>> => Same(q)
         /\ Exists(<<"work", id, f>>)' /\ ContentAt(<<"work", id, f>>)' = job.given[f]
<1> DEFINE stage == <<"stage", NoBuild, f>>
           src == IF Exists(stage) THEN stage ELSE <<baseDBDir(job.base), job.base, f>>
           dst == <<"work", id, f>>
<1>1. pc = "link" /\ f \in job.todo /\ linkOrCopy(src, dst)
  BY DEF LinkFile
<1>2. disk \subseteq File /\ Unique
  BY DEF IInv, TypeOK, FilesInv
<1>3. ~Exists(dst)
  BY <1>1 DEF JobInv, WorkHas
<1>4. Exists(src) /\ ContentAt(src) = job.given[f]
  <2>1. Sources(job)
    BY <1>1 DEF JobInv
  <2>2. CASE Exists(stage)
    BY <1>1, <2>1, <2>2 DEF Sources
  <2>3. CASE ~Exists(stage)
    <3>1. /\ job.base \in workDirs
          /\ Exists(<<"work", job.base, f>>) /\ ContentAt(<<"work", job.base, f>>) = job.given[f]
      BY <1>1, <2>1, <2>3 DEF Sources
    <3> QED BY <2>3, <3>1 DEF baseDBDir
  <2> QED BY <2>2, <2>3
<1> HIDE DEF src, dst
<1>5. CASE HardLinks
  <2>1. disk' = Linked(src, dst)
    BY <1>1, <1>3, <1>5 DEF linkOrCopy
  <2>2. Exists(dst)' /\ ContentAt(dst)' = ContentAt(src) /\ \A q : q # dst => Same(q)
    BY <1>2, <1>3, <1>4, <2>1, LinkedEffect
  <2> QED BY <1>1, <1>4, <2>2 DEF dst
<1>6. CASE ~HardLinks
  <2>1. disk' = Created(dst, FileAt(src).content)
    BY <1>1, <1>3, <1>6 DEF linkOrCopy
  <2>2. Exists(dst)' /\ ContentAt(dst)' = FileAt(src).content /\ \A q : q # dst => Same(q)
    BY <1>2, <1>3, <2>1, CreatedEffect
  <2> QED BY <1>1, <1>4, <2>2 DEF dst, ContentAt
<1> QED BY <1>5, <1>6

\* A hosted copy has the content of the database in the work directory.
LEMMA HostEffect ==
  ASSUME IInv, FilesInv, JobInv, NEW f \in Files, HostFile(f), NEW id, id = job.id
  PROVE  /\ pc = "host" /\ job.kind = "full" /\ f \in job.files
         /\ \A q : q # <<"root", id, f>> => Same(q)
         /\ Exists(<<"root", id, f>>)' /\ ContentAt(<<"root", id, f>>)' = job.given[f]
<1> DEFINE hosted == <<"root", id, f>>
           work == <<"work", id, f>>
<1>1. /\ pc = "host" /\ job.kind = "full" /\ f \in job.files /\ ~Exists(hosted)
      /\ disk' = Created(hosted, FileAt(work).content)
  BY DEF HostFile
<1>2. FileAt(work).content = job.given[f]
  BY <1>1 DEF JobInv, WorkHas, ContentAt
<1>3. Unique
  BY DEF FilesInv
<1> HIDE DEF hosted, work
<1>4. Exists(hosted)' /\ ContentAt(hosted)' = FileAt(work).content /\ \A q : q # hosted => Same(q)
  BY <1>1, <1>3, CreatedEffect
<1> QED BY <1>1, <1>2, <1>4 DEF hosted

\* The databases of a build change only by being linked, hosted, pruned or cleared.
Touches(id, f) ==
  /\ \/ Same(<<"work", id, f>>)
     \/ LinkFile(f) /\ id = job.id
     \/ Prune /\ id \notin keep(job.id) /\ ~Exists(<<"work", id, f>>)'
     \/ ClearFailed(id) /\ CleansWork /\ ~Exists(<<"work", id, f>>)'
  /\ \/ Same(<<"root", id, f>>)
     \/ HostFile(f) /\ id = job.id
     \/ ClearFailed(id) /\ ~Exists(<<"root", id, f>>)'
  /\ pc = "idle" \/ Same(<<"stage", NoBuild, f>>)

LEMMA StepTouches ==
  ASSUME IInv, FilesInv, JobInv, [Next]_vars, NEW id \in Ids, NEW f \in Files
  PROVE  Touches(id, f)
<1> DEFINE work == <<"work", id, f>>
           root == <<"root", id, f>>
           stage == <<"stage", NoBuild, f>>
<1>1. disk \subseteq File /\ Unique /\ DOMAIN cat \subseteq Ids
  BY DEF IInv, TypeOK, IsCatalog, FilesInv
<1>2. CASE UNCHANGED disk
  BY <1>2, QuietDisk DEF Touches
<1>3. CASE Restage
  <2>1. disk' = Removed(Stage) /\ pc = "idle"
    BY <1>3 DEF Restage
  <2>2. work \notin Stage /\ root \notin Stage
    BY DEF Stage
  <2> HIDE DEF work, root
  <2>3. Same(work) /\ Same(root)
    BY <1>1, <2>1, <2>2, RemovedEffect
  <2> QED BY <2>1, <2>3 DEF Touches, work, root
<1>4. ASSUME NEW g \in Files, NEW c \in Contents, Export(g, c)
      PROVE  Touches(id, f)
  <2> DEFINE staged == <<"stage", NoBuild, g>>
  <2>1. disk' = Created(staged, c) /\ ~Exists(staged) /\ pc = "idle"
    BY <1>4 DEF Export
  <2>2. work # staged /\ root # staged
    OBVIOUS
  <2> HIDE DEF work, root, staged
  <2>3. Same(work) /\ Same(root)
    BY <1>1, <2>1, <2>2, CreatedEffect
  <2> QED BY <2>1, <2>3 DEF Touches, work, root
<1>5. ASSUME NEW g \in Files, LinkFile(g)
      PROVE  Touches(id, f)
  <2>1. PICK b : b = job.id
    OBVIOUS
  <2>2. \A q : q # <<"work", b, g>> => Same(q)
    BY <1>5, <2>1, LinkEffect
  <2>3. Same(root) /\ Same(stage)
    BY <2>2
  <2>4. CASE id = b /\ f = g
    BY <1>5, <2>1, <2>3, <2>4 DEF Touches
  <2>5. CASE ~(id = b /\ f = g)
    BY <2>2, <2>3, <2>5 DEF Touches
  <2> QED BY <2>4, <2>5
<1>6. ASSUME NEW g \in Files, HostFile(g)
      PROVE  Touches(id, f)
  <2>1. PICK b : b = job.id
    OBVIOUS
  <2>2. \A q : q # <<"root", b, g>> => Same(q)
    BY <1>6, <2>1, HostEffect
  <2>3. Same(work) /\ Same(stage)
    BY <2>2
  <2>4. CASE id = b /\ f = g
    BY <1>6, <2>1, <2>3, <2>4 DEF Touches
  <2>5. CASE ~(id = b /\ f = g)
    BY <2>2, <2>3, <2>5 DEF Touches
  <2> QED BY <2>4, <2>5
<1>7. CASE Prune
  <2> DEFINE gone == UNION {InWork(b) : b \in Ids \ keep(job.id)}
  <2>1. disk' = Removed(gone)
    BY <1>7 DEF Prune
  <2>2. root \notin gone /\ stage \notin gone
    BY DEF InWork
  <2>3. work \in gone <=> id \notin keep(job.id)
    BY DEF InWork
  <2> HIDE DEF gone, work, root, stage
  <2>4. (\A q \in gone : ~Exists(q)') /\ (\A q : q \notin gone => Same(q))
    BY <1>1, <2>1, RemovedEffect
  <2>5. Same(root) /\ Same(stage)
    BY <2>2, <2>4
  <2>6. CASE work \in gone
    <3>1. ~Exists(work)'
      BY <2>4, <2>6
    <3> QED BY <1>7, <2>3, <2>5, <2>6, <3>1 DEF Touches, work, root, stage
  <2>7. CASE work \notin gone
    <3>1. Same(work)
      BY <2>4, <2>7
    <3> QED BY <2>5, <3>1 DEF Touches, work, root, stage
  <2> QED BY <2>6, <2>7
<1>8. ASSUME NEW b \in Ids, ClearFailed(b)
      PROVE  Touches(id, f)
  <2> DEFINE gone == InRoot(b) \cup (IF CleansWork THEN InWork(b) ELSE {})
  <2>1. disk' = Removed(gone) /\ pc = "idle"
    BY <1>8 DEF ClearFailed
  <2>2. (root \in gone <=> id = b) /\ (work \in gone <=> id = b /\ CleansWork)
    BY PublisherAssumption DEF PublisherAssumption, InRoot, InWork
  <2> HIDE DEF gone, work, root
  <2>3. (\A q \in gone : ~Exists(q)') /\ (\A q : q \notin gone => Same(q))
    BY <1>1, <2>1, RemovedEffect
  <2>4. CASE id # b
    <3>1. Same(work) /\ Same(root)
      BY <2>2, <2>3, <2>4
    <3> QED BY <2>1, <3>1 DEF Touches, work, root
  <2>5. CASE id = b
    <3>1. ~Exists(root)'
      BY <2>2, <2>3, <2>5
    <3>2. IF CleansWork THEN ~Exists(work)' ELSE Same(work)
      BY <2>2, <2>3, <2>5
    <3> QED BY <1>8, <2>1, <2>5, <3>1, <3>2 DEF Touches, work, root
  <2> QED BY <2>4, <2>5
<1>9. CASE UNCHANGED vars
  BY <1>2, <1>9 DEF vars
<1>10. ASSUME NEW b \in Ids, NEW kind \in Kinds, NEW fresh \in BOOLEAN, NEW d \in Days,
              NEW n \in Spans, NEW ps \in IF kind = "full" THEN SUBSET Pages ELSE {{}},
             Start(b, kind, fresh, d, ps, n)
       PROVE  Touches(id, f)
  BY <1>2, <1>10 DEF Start
<1>11. ASSUME NEW diff \in [Files -> Contents], Diff(diff) \/ Rollup(diff)
       PROVE  Touches(id, f)
  BY <1>2, <1>11 DEF Diff, Rollup
<1>12. CASE EndLink \/ Guard \/ EndHost \/ WriteManifest \/ OpenCatalog \/ WriteCatalog \/ Stop
  BY <1>2, <1>12 DEF EndLink, Guard, EndHost, WriteManifest, OpenCatalog, WriteCatalog, Stop
<1> QED
  BY <1>3, <1>4, <1>5, <1>6, <1>7, <1>8, <1>9, <1>10, <1>11, <1>12 DEF Next

----------------------------------------------------------------------------
\* The directories, and which builds' databases are kept.

\* What a step does to the directories.
LEMMA WhatAStepDirs ==
  ASSUME [Next]_vars
  PROVE  \/ /\ rootDirs \subseteq rootDirs' /\ workDirs \subseteq workDirs'
            /\ \A b : b \in workDirs' \ workDirs => b \in rootDirs'
         \/ Prune
         \/ \E b \in Ids : ClearFailed(b)
<1> DEFINE Grows == /\ rootDirs \subseteq rootDirs' /\ workDirs \subseteq workDirs'
                    /\ \A b : b \in workDirs' \ workDirs => b \in rootDirs'
<1>1. ASSUME UNCHANGED <<rootDirs, workDirs>> PROVE Grows
  BY <1>1
<1>2. ASSUME NEW b \in Ids, NEW kind \in Kinds, NEW fresh \in BOOLEAN, NEW d \in Days,
             NEW n \in Spans, NEW ps \in IF kind = "full" THEN SUBSET Pages ELSE {{}},
             Start(b, kind, fresh, d, ps, n)
      PROVE  Grows
  BY <1>2 DEF Start
<1>3. CASE \E f \in Files : LinkFile(f) \/ HostFile(f)
  BY <1>1, <1>3 DEF LinkFile, HostFile
<1>4. CASE \E diff \in [Files -> Contents] : Diff(diff) \/ Rollup(diff)
  BY <1>1, <1>4 DEF Diff, Rollup
<1>5. CASE \E f \in Files, c \in Contents : Export(f, c)
  BY <1>1, <1>5 DEF Export
<1>6. CASE \/ Restage \/ EndLink \/ Guard \/ EndHost \/ WriteManifest \/ OpenCatalog
           \/ WriteCatalog \/ Stop \/ UNCHANGED vars
  BY <1>1, <1>6
  DEF Restage, EndLink, Guard, EndHost, WriteManifest, OpenCatalog, WriteCatalog, Stop, vars
<1>7. CASE Prune \/ \E b \in Ids : ClearFailed(b)
  BY <1>7
<1> QED BY <1>2, <1>3, <1>4, <1>5, <1>6, <1>7 DEF Next

\* What pruning and clearing remove is gone.
LEMMA GoneAfter ==
  ASSUME IInv, FilesInv, NEW id \in Ids, NEW f \in Files
  PROVE  /\ Prune /\ id \notin keep(job.id) => ~Exists(<<"work", id, f>>)'
         /\ ClearFailed(id) => ~Exists(<<"root", id, f>>)'
         /\ ClearFailed(id) /\ CleansWork => ~Exists(<<"work", id, f>>)'
<1> DEFINE work == <<"work", id, f>>
           root == <<"root", id, f>>
<1>1. disk \subseteq File /\ Unique
  BY DEF IInv, TypeOK, FilesInv
<1>2. ASSUME Prune, id \notin keep(job.id) PROVE ~Exists(work)'
  <2> DEFINE gone == UNION {InWork(b) : b \in Ids \ keep(job.id)}
  <2>1. disk' = Removed(gone)
    BY <1>2 DEF Prune
  <2>2. work \in gone
    BY <1>2 DEF InWork
  <2> HIDE DEF gone, work
  <2> QED BY <1>1, <2>1, <2>2, RemovedEffect
<1>3. ASSUME ClearFailed(id) PROVE ~Exists(root)' /\ (CleansWork => ~Exists(work)')
  <2> DEFINE gone == InRoot(id) \cup (IF CleansWork THEN InWork(id) ELSE {})
  <2>1. disk' = Removed(gone)
    BY <1>3 DEF ClearFailed
  <2>2. root \in gone /\ (CleansWork => work \in gone)
    BY DEF InRoot, InWork
  <2> HIDE DEF gone, work, root
  <2>3. \A q \in gone : ~Exists(q)'
    BY <1>1, <2>1, RemovedEffect
  <2> QED BY <2>2, <2>3
<1> QED BY <1>2, <1>3

LEMMA DirsStep ==
  ASSUME CleansWork, IInv, FilesInv, JobInv, DirsInv, [Next]_vars
  PROVE  DirsInv'
<1>1. workDirs' \subseteq rootDirs'
  <2>1. CASE Prune
    BY <2>1 DEF Prune, DirsInv
  <2>2. CASE \E b \in Ids : ClearFailed(b)
    BY <2>2 DEF ClearFailed, DirsInv
  <2> QED BY <2>1, <2>2, WhatAStepDirs DEF DirsInv
<1>2. ASSUME NEW id \in Ids, NEW f \in Files, Exists(<<"work", id, f>>)'
      PROVE  id \in workDirs'
  <2>1. \/ Same(<<"work", id, f>>)
        \/ LinkFile(f) /\ id = job.id
    BY <1>2, StepTouches DEF Touches
  <2>2. CASE LinkFile(f) /\ id = job.id
    BY <2>2 DEF LinkFile, FilesInv, TipInWork
  <2>3. CASE Same(<<"work", id, f>>)
    <3>1. Exists(<<"work", id, f>>) /\ id \in workDirs
      BY <1>2, <2>3 DEF Same, DirsInv
    <3>2. CASE Prune
      BY <1>2, <3>1, <3>2, GoneAfter DEF Prune
    <3>3. ASSUME NEW b \in Ids, ClearFailed(b)
          PROVE  id \in workDirs'
      <4>1. CASE id = b
        BY <1>2, <3>3, <4>1, GoneAfter
      <4>2. CASE id # b
        BY <3>1, <3>3, <4>2 DEF ClearFailed
      <4> QED BY <4>1, <4>2
    <3> QED BY <3>1, <3>2, <3>3, WhatAStepDirs
  <2> QED BY <2>1, <2>2, <2>3
<1>3. ASSUME NEW id \in Ids, NEW f \in Files, Exists(<<"root", id, f>>)'
      PROVE  id \in rootDirs'
  <2>1. \/ Same(<<"root", id, f>>)
        \/ HostFile(f) /\ id = job.id
    BY <1>3, StepTouches DEF Touches
  <2>2. CASE HostFile(f) /\ id = job.id
    BY <2>2 DEF HostFile, IInv, RouteInv
  <2>3. CASE Same(<<"root", id, f>>)
    <3>1. Exists(<<"root", id, f>>) /\ id \in rootDirs
      BY <1>3, <2>3 DEF Same, DirsInv
    <3>2. CASE Prune
      BY <3>1, <3>2 DEF Prune
    <3>3. ASSUME NEW b \in Ids, ClearFailed(b)
          PROVE  id \in rootDirs'
      <4>1. CASE id = b
        BY <1>3, <3>3, <4>1, GoneAfter
      <4>2. CASE id # b
        BY <3>1, <3>3, <4>2 DEF ClearFailed
      <4> QED BY <4>1, <4>2
    <3> QED BY <3>1, <3>2, <3>3, WhatAStepDirs
  <2> QED BY <2>1, <2>2, <2>3
<1> QED BY <1>1, <1>2, <1>3 DEF DirsInv

\* Recording a build can only move a listed one further from the tip; and pruning
\* keeps what is fewer than KeepTips from it.
LEMMA KeptStep ==
  ASSUME IInv, FilesInv, KeptInv, [Next]_vars
  PROVE  KeptInv'
<1>1. DOMAIN cat \subseteq Ids
  BY DEF IInv, TypeOK, IsCatalog
<1>2. CASE WriteCatalog
  <2>1. PICK e : /\ cat' = Recorded(cat, job.id, e) /\ pc = "rewrite"
                 /\ UNCHANGED <<workDirs, job>>
    BY <1>2 DEF WriteCatalog
  <2>2. job.id \in workDirs /\ job.id \notin DOMAIN cat
    BY <2>1 DEF FilesInv, TipInWork, IInv, RouteInv
  <2>3. DOMAIN cat' = DOMAIN cat \cup {job.id} /\ \A x \in DOMAIN cat : cat'[x] = cat[x]
    BY <2>1, <2>2 DEF Recorded
  <2>4. IsFiniteSet(DOMAIN cat')
    BY <2>3, FS_AddElement DEF KeptInv
  <2>5. ASSUME NEW x \in DOMAIN cat', Cardinality(Later(x)') < KeepTips
        PROVE  x \in workDirs'
    <3>1. CASE x = job.id
      BY <2>1, <2>2, <3>1
    <3>2. CASE x # job.id
      <4>1. x \in DOMAIN cat /\ Later(x) \subseteq Later(x)'
        BY <2>3, <3>2 DEF Later, Before
      <4>2. IsFiniteSet(Later(x)')
        BY <2>4, FS_Subset DEF Later
      <4>3. /\ Cardinality(Later(x)) <= Cardinality(Later(x)')
            /\ Cardinality(Later(x)) \in Nat /\ Cardinality(Later(x)') \in Nat
        BY <4>1, <4>2, FS_Subset, FS_CardinalityType
      <4>4. Cardinality(Later(x)) < KeepTips
        BY <2>5, <4>3, PublisherAssumption DEF PublisherAssumption
      <4> QED BY <2>1, <4>1, <4>4 DEF KeptInv
    <3> QED BY <3>1, <3>2
  <2> QED BY <2>4, <2>5 DEF KeptInv
<1>3. CASE UNCHANGED cat
  <2>1. \A x : Later(x)' = Later(x)
    BY <1>3 DEF Later, Before
  <2>2. ASSUME NEW x \in DOMAIN cat, Cardinality(Later(x)) < KeepTips
        PROVE  x \in workDirs'
    <3>1. x \in workDirs
      BY <2>2 DEF KeptInv
    <3>2. CASE Prune
      <4> DEFINE L == {o \in DOMAIN cat : Before(cat, x, o)}
      <4>1. IsFiniteSet(L) /\ Cardinality(L) < KeepTips
        BY <2>2, FS_Subset DEF KeptInv, Later
      <4> HIDE DEF L
      <4>2. L \cup {job.id} = {job.id} \cup L
        OBVIOUS
      <4>3. /\ Cardinality(L \cup {job.id}) \in {Cardinality(L), Cardinality(L) + 1}
            /\ Cardinality(L) \in Nat
        BY <4>1, FS_AddElement, FS_CardinalityType
      <4> DEFINE few == Cardinality(L)
                 more == Cardinality(L \cup {job.id})
      <4> HIDE DEF few, more
      <4>4. more <= KeepTips
        <5>1. few < KeepTips /\ few \in Nat /\ more \in {few, few + 1} /\ KeepTips \in Nat
          BY <4>1, <4>3, PublisherAssumption DEF PublisherAssumption, few, more
        <5> QED BY <5>1
      <4>5. x \in keep(job.id)
        BY <2>2, <4>2, <4>4 DEF keep, L, more
      <4> QED BY <3>1, <3>2, <4>5 DEF Prune
    <3>3. CASE \E b \in Ids : ClearFailed(b)
      BY <2>2, <3>1, <3>3 DEF ClearFailed, Listed
    <3> QED BY <3>1, <3>2, <3>3, WhatAStepDirs
  <2> QED BY <1>3, <2>1, <2>2 DEF KeptInv
<1> QED BY <1>2, <1>3, WhatAStepWrites

\* Pruning leaves every build it keeps its databases, and nothing else touches those
\* of a listed build.
LEMMA WorkStays ==
  ASSUME IInv, FilesInv, JobInv, [Next]_vars, NEW id \in DOMAIN cat, id \in workDirs'
  PROVE  Held("work", id)' = Held("work", id)
<1>1. id \in Ids /\ (pc = "link" => id # job.id)
  BY DEF IInv, TypeOK, IsCatalog, RouteInv
<1>2. ASSUME NEW f \in Files PROVE Same(<<"work", id, f>>)
  <2>1. Touches(id, f)
    BY <1>1, StepTouches
  <2>2. ~(LinkFile(f) /\ id = job.id)
    BY <1>1 DEF LinkFile
  <2>3. ~(Prune /\ id \notin keep(job.id))
    BY DEF Prune
  <2>4. ~ClearFailed(id)
    BY DEF ClearFailed, Listed
  <2> QED BY <2>1, <2>2, <2>3, <2>4 DEF Touches
<1> QED BY <1>2, HeldStays

\* A listed build that has a work directory had one before.
LEMMA ListedWorkDir ==
  ASSUME IInv, [Next]_vars, NEW id \in DOMAIN cat, id \in workDirs'
  PROVE  id \in workDirs
<1>1. id \in rootDirs
  BY DEF IInv, TreeInv
<1>2. ASSUME NEW b \in Ids, NEW kind \in Kinds, NEW fresh \in BOOLEAN, NEW d \in Days,
             NEW n \in Spans, NEW ps \in IF kind = "full" THEN SUBSET Pages ELSE {{}},
             Start(b, kind, fresh, d, ps, n)
      PROVE  id \in workDirs
  BY <1>1, <1>2 DEF Start, IsNew
<1>3. CASE \E f \in Files : LinkFile(f) \/ HostFile(f)
  BY <1>3 DEF LinkFile, HostFile
<1>4. CASE \E diff \in [Files -> Contents] : Diff(diff) \/ Rollup(diff)
  BY <1>4 DEF Diff, Rollup
<1>5. CASE \E f \in Files, c \in Contents : Export(f, c)
  BY <1>5 DEF Export
<1>6. CASE Prune \/ \E b \in Ids : ClearFailed(b)
  BY <1>6 DEF Prune, ClearFailed
<1>7. CASE \/ Restage \/ EndLink \/ Guard \/ EndHost \/ WriteManifest \/ OpenCatalog
           \/ WriteCatalog \/ Stop \/ UNCHANGED vars
  BY <1>7
  DEF Restage, EndLink, Guard, EndHost, WriteManifest, OpenCatalog, WriteCatalog, Stop, vars
<1> QED BY <1>2, <1>3, <1>4, <1>5, <1>6, <1>7 DEF Next

----------------------------------------------------------------------------
\* The running publish makes what it was given: one lemma for each phase.

\* The base is in the work directory, which holds what its manifest describes.
LEMMA BaseIsThere ==
  ASSUME IInv, FilesInv, WorkInv, pc \notin {"idle", "prune"}, job.base # NoBuild
  PROVE  /\ job.base \in DOMAIN cat \cap workDirs
         /\ Held(baseDBDir(job.base), job.base) = manifest[job.base]
<1>1. job.base \in DOMAIN cat /\ job.base = Latest(cat)
  BY DEF IInv, RouteInv
<1>2. job.base \in workDirs
  BY <1>1 DEF FilesInv, TipInWork
<1> QED BY <1>1, <1>2 DEF WorkInv, baseDBDir

\* The work directory holds exactly what was given, once everything is linked.
LEMMA WorkIsGiven ==
  ASSUME IInv, JobInv, pc \notin {"idle", "prune", "link"}
  PROVE  Held("work", job.id) = job.given
<1> DEFINE S == {g \in Files : Exists(<<"work", job.id, g>>)}
           T == DOMAIN job.given
<1>1. job.given \in Manifests
  BY DEF IInv, TypeOK, IsJob
<1>2. T \subseteq Files /\ job.given = [f \in T |-> job.given[f]]
  BY <1>1, ManifestElements
<1>3. WorkHas(job) /\ job.files = T
  BY DEF JobInv
<1>4. S = T /\ \A f \in S : FileAt(<<"work", job.id, f>>).content = job.given[f]
  BY <1>2, <1>3 DEF WorkHas, ContentAt
<1>5. Held("work", job.id) = [f \in S |-> FileAt(<<"work", job.id, f>>).content]
  BY DEF Held
<1> HIDE DEF S, T
<1> QED BY <1>2, <1>4, <1>5

\* So does the release directory of a full, once everything is hosted.
LEMMA RootIsGiven ==
  ASSUME IInv, JobInv, pc \in {"manifest", "catalog", "rewrite"}, job.kind = "full"
  PROVE  Held("root", job.id) = job.given
<1> DEFINE S == {g \in Files : Exists(<<"root", job.id, g>>)}
           T == DOMAIN job.given
<1>1. job.given \in Manifests
  BY DEF IInv, TypeOK, IsJob
<1>2. T \subseteq Files /\ job.given = [f \in T |-> job.given[f]]
  BY <1>1, ManifestElements
<1>3. RootHas(job) /\ job.files = T /\ \A f \in job.files : Exists(<<"root", job.id, f>>)
  BY DEF JobInv
<1>4. S = T /\ \A f \in S : FileAt(<<"root", job.id, f>>).content = job.given[f]
  BY <1>2, <1>3 DEF RootHas, ContentAt
<1>5. Held("root", job.id) = [f \in S |-> FileAt(<<"root", job.id, f>>).content]
  BY DEF Held
<1> HIDE DEF S, T
<1> QED BY <1>2, <1>4, <1>5

\* A phase that touches no database leaves what there is of them.
LEMMA QuietJob ==
  ASSUME IInv, pc \notin {"idle", "prune"},
         UNCHANGED <<cat, disk, workDirs, patches, job>>,
         \A src \in DOMAIN cat : manifest'[src] = manifest[src]
  PROVE  /\ WorkHas(job) => WorkHas(job)'
         /\ RootHas(job) => RootHas(job)'
         /\ Sources(job) => Sources(job)'
         /\ Edges(job) => Edges(job)'
         /\ Guarded(job) => Guarded(job)'
<1>1. \A q : (Exists(q)' <=> Exists(q)) /\ ContentAt(q)' = ContentAt(q)
  BY DEF Exists, ContentAt, FileAt
<1>2. WorkHas(job) => WorkHas(job)'
  BY <1>1 DEF WorkHas
<1>3. RootHas(job) => RootHas(job)'
  BY <1>1 DEF RootHas
<1>4. Sources(job) => Sources(job)'
  BY <1>1 DEF Sources
<1>5. \A src \in DOMAIN job.edges : manifest'[src] = manifest[src]
  BY DEF IInv, RouteInv
<1>6. Edges(job) => Edges(job)'
  BY <1>5 DEF Edges
<1>7. job.base # NoBuild => manifest'[job.base] = manifest[job.base]
  BY DEF IInv, RouteInv
<1>8. Guarded(job) => Guarded(job)'
  BY <1>7 DEF Guarded
<1> QED BY <1>2, <1>3, <1>4, <1>6, <1>8

\* The guard compares the published databases with the new ones.
LEMMA GuardGuards ==
  ASSUME IInv, FilesInv, WorkInv, JobInv, Guard
  PROVE  Guarded(job)
<1> DEFINE base == Held(baseDBDir(job.base), job.base)
<1>1. SUFFICES ASSUME job.kind = "full", job.base # NoBuild,
                      Core \in job.files \cap DOMAIN manifest[job.base]
               PROVE  (manifest[job.base][Core] \ job.given[Core]) \cap job.pageSet = {}
  BY DEF Guarded
<1>2. pc = "guard"
      /\ guardRemovals(IF Core \in DOMAIN base THEN base[Core] ELSE Blank,
                       Held("work", job.id)[Core], job.pageSet)
  BY <1>1 DEF Guard
<1>3. base = manifest[job.base]
  BY <1>1, <1>2, BaseIsThere
<1>4. Held("work", job.id) = job.given
  BY <1>2, WorkIsGiven
<1> HIDE DEF base
<1> QED BY <1>1, <1>2, <1>3, <1>4 DEF guardRemovals

\* The manifest describes what was given.
LEMMA ManifestIsGiven ==
  ASSUME IInv, JobInv, WriteManifest
  PROVE  manifest'[job.id] = job.given
<1> DEFINE place == IF job.kind = "full" THEN "root" ELSE "work"
           m == [f \in job.files |-> FileAt(<<place, job.id, f>>).content]
<1>1. pc = "manifest" /\ manifest' = [manifest EXCEPT ![job.id] = m]
  BY DEF WriteManifest
<1>2. job.id \in Ids /\ manifest \in [Ids -> Manifests] /\ job.given \in Manifests
  BY <1>1 DEF IInv, TypeOK, RouteInv, IsJob
<1>3. /\ WorkHas(job) /\ RootHas(job) /\ job.files = DOMAIN job.given
      /\ job.kind = "full" => \A f \in job.files : Exists(<<"root", job.id, f>>)
  BY <1>1 DEF JobInv
<1>4. DOMAIN job.given \subseteq Files /\ job.given = [f \in DOMAIN job.given |-> job.given[f]]
  BY <1>2, ManifestElements
<1>5. ASSUME NEW f \in job.files PROVE FileAt(<<place, job.id, f>>).content = job.given[f]
  <2>1. f \in Files
    BY <1>3, <1>4
  <2>2. CASE job.kind = "full"
    BY <1>3, <2>1, <2>2 DEF RootHas, ContentAt
  <2>3. CASE job.kind # "full"
    BY <1>3, <2>1, <2>3 DEF WorkHas, ContentAt
  <2> QED BY <2>2, <2>3
<1>6. m = job.given
  BY <1>3, <1>4, <1>5
<1> HIDE DEF m
<1> QED BY <1>1, <1>2, <1>6

\* The phases that change no database and no patch.
LEMMA PhaseJobStep ==
  ASSUME IInv, FilesInv, WorkInv, JobInv, [Next]_vars,
         EndLink \/ Guard \/ EndHost \/ WriteManifest \/ OpenCatalog
  PROVE  JobInv'
<1>1. /\ pc \in {"link", "guard", "host", "manifest", "catalog"}
      /\ UNCHANGED <<cat, disk, workDirs, patches, job>>
  BY DEF EndLink, Guard, EndHost, WriteManifest, OpenCatalog
<1>2. \A src \in DOMAIN cat : manifest'[src] = manifest[src]
  BY StepPublishes
<1>3. job.span \in Spans /\ WorkHas(job) /\ RootHas(job) /\ Edges(job)
  BY <1>1 DEF JobInv
<1>4. job'.span \in Spans /\ WorkHas(job)' /\ RootHas(job)' /\ Edges(job)'
      /\ (Guarded(job) => Guarded(job)')
  BY <1>1, <1>2, <1>3, QuietJob
<1>5. CASE EndLink
  <2>1. job.files = DOMAIN job.given /\ pc' = "diff"
    BY <1>5 DEF EndLink, JobInv
  <2> QED BY <1>1, <1>4, <2>1 DEF JobInv
<1>6. CASE Guard
  <2>1. Guarded(job)' /\ pc' = "host" /\ job.files = DOMAIN job.given
    BY <1>4, <1>6, GuardGuards DEF Guard, JobInv
  <2> QED BY <1>1, <1>4, <2>1 DEF JobInv
<1>7. CASE EndHost
  <2>1. /\ Guarded(job)' /\ pc' = "manifest" /\ job.files = DOMAIN job.given
        /\ job.kind = "full" => \A f \in job.files : Exists(<<"root", job.id, f>>)
    BY <1>4, <1>7 DEF EndHost, JobInv
  <2>2. (job.kind = "full" => \A f \in job.files : Exists(<<"root", job.id, f>>))'
    BY <1>1, <2>1 DEF Exists
  <2> QED BY <1>1, <1>4, <2>1, <2>2 DEF JobInv
<1>8. CASE WriteManifest \/ OpenCatalog
  <2>1. /\ Guarded(job)' /\ pc' \in {"catalog", "rewrite"} /\ job.files = DOMAIN job.given
        /\ job.kind = "full" => \A f \in job.files : Exists(<<"root", job.id, f>>)
    BY <1>4, <1>8 DEF WriteManifest, OpenCatalog, JobInv
  <2>2. (job.kind = "full" => \A f \in job.files : Exists(<<"root", job.id, f>>))'
    BY <1>1, <2>1 DEF Exists
  <2>3. manifest'[job.id] = job.given
    <3>1. CASE WriteManifest
      BY <3>1, ManifestIsGiven
    <3>2. CASE OpenCatalog
      BY <3>2 DEF OpenCatalog, JobInv
    <3> QED BY <1>8, <3>1, <3>2
  <2> QED BY <1>1, <1>4, <2>1, <2>2, <2>3 DEF JobInv
<1> QED BY <1>5, <1>6, <1>7, <1>8

\* A patch is emitted from a published build to the one being made: verifyPatch saw it
\* turn the one's database into the other's.
LEMMA EmitKeepsEdges ==
  ASSUME IInv, JobInv, WorkInv, pc \in {"diff", "rollup"}, UNCHANGED manifest,
         NEW src \in DOMAIN cat \cap workDirs, NEW diff \in [Files -> Contents],
         emitPatches(src, diff)
  PROVE  Edges(job)'
<1> DEFINE both == job.files \cap DOMAIN manifest[src]
           new == {[from |-> src, file |-> f, base |-> manifest[src][f],
                    result |-> diff[f]] : f \in both}
<1>1. Held(baseDBDir(src), src) = manifest[src]
  BY DEF WorkInv, baseDBDir
<1>2. Held("work", job.id) = job.given
  BY WorkIsGiven
<1>3. /\ \A f \in both : diff[f] = job.given[f]
      /\ patches' = [patches EXCEPT ![job.id] = @ \cup new]
  BY <1>1, <1>2 DEF emitPatches, verifyPatch
<1>4. TypeOK /\ job.id \in Ids /\ src \in Ids /\ IsJob(job) /\ patches \in [Ids -> SUBSET Patch]
  BY DEF IInv, TypeOK, RouteInv, IsCatalog
<1>5. /\ DOMAIN job'.edges = DOMAIN job.edges \cup {src}
      /\ job' = [job EXCEPT !.edges = job'.edges]
  BY <1>4, PatchesAreTyped
<1>6. job'.id = job.id /\ job'.files = job.files /\ job'.given = job.given
  BY <1>4, <1>5 DEF IsJob
<1> HIDE DEF new
<1>7. patches'[job.id] = patches[job.id] \cup new
  BY <1>3, <1>4
<1>8. ASSUME NEW s \in DOMAIN job.edges \cup {src}, NEW f \in job.files \cap DOMAIN manifest[s]
      PROVE  [from |-> s, file |-> f, base |-> manifest[s][f], result |-> job.given[f]]
               \in patches'[job.id]
  <2>1. CASE s \in DOMAIN job.edges
    BY <1>7, <1>8, <2>1 DEF JobInv, Edges
  <2>2. CASE s = src
    BY <1>3, <1>7, <1>8, <2>2 DEF new
  <2> QED BY <2>1, <2>2
<1> QED BY <1>5, <1>6, <1>8 DEF Edges

\* The default route starts from the base, a rollup from a build no further back than
\* the databases that are kept.
LEMMA EmitJobStep ==
  ASSUME \A n \in Spans : n < KeepTips, IInv, FilesInv, KeptInv, WorkInv, JobInv, [Next]_vars,
         NEW diff \in [Files -> Contents], Diff(diff) \/ Rollup(diff)
  PROVE  JobInv'
<1>1. /\ pc \in {"diff", "rollup"} /\ pc' \in {"rollup", "guard"}
      /\ UNCHANGED <<cat, disk, rootDirs, workDirs, manifest>>
  BY DEF Diff, Rollup
<1>2. \/ UNCHANGED <<patches, job>>
      \/ \E src \in DOMAIN cat \cap workDirs : emitPatches(src, diff)
  <2>1. CASE Diff(diff)
    <3>1. job.base = NoBuild => UNCHANGED <<patches, job>>
      BY <2>1 DEF Diff
    <3>2. job.base # NoBuild => emitPatches(job.base, diff)
      BY <2>1 DEF Diff
    <3> QED BY <1>1, <3>1, <3>2, BaseIsThere
  <2>2. CASE Rollup(diff)
    <3> DEFINE src == nthBack(cat, job.span)
               here == {id \in DOMAIN cat : Cardinality(Later(id)) = job.span}
    <3>1. \/ UNCHANGED <<patches, job>>
          \/ src # NoBuild /\ emitPatches(src, diff)
      BY <2>2 DEF Rollup
    <3>2. ASSUME src # NoBuild PROVE src \in DOMAIN cat \cap workDirs
      <4>1. src = IF here = {} THEN NoBuild ELSE CHOOSE id \in here : TRUE
        BY DEF nthBack, Later
      <4> HIDE DEF src, here
      <4>2. src \in here
        BY <3>2, <4>1
      <4>3. src \in DOMAIN cat /\ Cardinality(Later(src)) = job.span
        BY <4>2 DEF here
      <4>4. job.span \in Spans
        BY <1>1 DEF JobInv
      <4>5. Cardinality(Later(src)) < KeepTips
        BY <4>3, <4>4
      <4> QED BY <4>3, <4>5 DEF KeptInv
    <3> HIDE DEF src
    <3> QED BY <3>1, <3>2
  <2> QED BY <2>1, <2>2
<1>3. job.span \in Spans /\ WorkHas(job) /\ RootHas(job) /\ Edges(job) /\ job.files = DOMAIN job.given
  BY <1>1 DEF JobInv
<1>4. CASE UNCHANGED <<patches, job>>
  <2>1. WorkHas(job)' /\ RootHas(job)' /\ Edges(job)'
    BY <1>1, <1>3, <1>4, QuietJob
  <2> QED BY <1>1, <1>3, <1>4, <2>1 DEF JobInv
<1>5. ASSUME NEW src \in DOMAIN cat \cap workDirs, emitPatches(src, diff)
      PROVE  JobInv'
  <2>1. Edges(job)'
    BY <1>1, <1>5, EmitKeepsEdges
  <2>2. TypeOK /\ job.id \in Ids /\ src \in Ids /\ IsJob(job)
    BY <1>1 DEF IInv, TypeOK, RouteInv, IsCatalog
  <2>3. job' = [job EXCEPT !.edges = job'.edges]
    BY <1>5, <2>2, PatchesAreTyped
  <2>4. /\ job'.id = job.id /\ job'.files = job.files /\ job'.given = job.given
        /\ job'.kind = job.kind /\ job'.span = job.span
    BY <2>2, <2>3 DEF IsJob
  <2>5. \A q : (Exists(q)' <=> Exists(q)) /\ ContentAt(q)' = ContentAt(q)
    BY <1>1 DEF Exists, ContentAt, FileAt
  <2>6. WorkHas(job)' /\ RootHas(job)'
    BY <1>3, <2>4, <2>5 DEF WorkHas, RootHas
  <2> QED BY <1>1, <1>3, <2>1, <2>4, <2>6 DEF JobInv
<1> QED BY <1>2, <1>4, <1>5

\* A copy is hosted.
LEMMA HostJobStep ==
  ASSUME IInv, FilesInv, JobInv, [Next]_vars, NEW f \in Files, HostFile(f)
  PROVE  JobInv'
<1>1. PICK id : id = job.id
  OBVIOUS
<1>2. /\ pc = "host" /\ job.kind = "full" /\ f \in job.files
      /\ \A q : q # <<"root", id, f>> => Same(q)
      /\ Exists(<<"root", id, f>>)' /\ ContentAt(<<"root", id, f>>)' = job.given[f]
  BY <1>1, HostEffect
<1>3. UNCHANGED <<cat, workDirs, patches, manifest, pc, job>>
  BY DEF HostFile
<1>4. /\ job.span \in Spans /\ WorkHas(job) /\ RootHas(job) /\ Edges(job)
      /\ job.files = DOMAIN job.given /\ Guarded(job)
  BY <1>2 DEF JobInv
<1>5. WorkHas(job)'
  <2>1. \A g \in Files : Same(<<"work", id, g>>)
    BY <1>2
  <2> QED BY <1>1, <1>3, <1>4, <2>1 DEF WorkHas, Same
<1>6. RootHas(job)'
  <2>1. \A g \in Files : g # f => Same(<<"root", id, g>>)
    BY <1>2
  <2>2. ASSUME NEW g \in Files, Exists(<<"root", id, g>>)'
        PROVE  g \in job.files /\ ContentAt(<<"root", id, g>>)' = job.given[g]
    <3>1. CASE g = f
      BY <1>2, <3>1
    <3>2. CASE g # f
      BY <1>1, <1>4, <2>1, <2>2, <3>2 DEF RootHas, Same
    <3> QED BY <3>1, <3>2
  <2> QED BY <1>1, <1>2, <1>3, <2>2 DEF RootHas
<1>7. Edges(job)' /\ Guarded(job)'
  BY <1>3, <1>4 DEF Edges, Guarded
<1> QED BY <1>2, <1>3, <1>4, <1>5, <1>6, <1>7 DEF JobInv

\* A database is linked.
LEMMA LinkJobStep ==
  ASSUME IInv, FilesInv, JobInv, [Next]_vars, NEW f \in Files, LinkFile(f)
  PROVE  JobInv'
<1>1. PICK id : id = job.id
  OBVIOUS
<1>2. /\ pc = "link" /\ f \in job.todo
      /\ \A q : q # <<"work", id, f>> => Same(q)
      /\ Exists(<<"work", id, f>>)' /\ ContentAt(<<"work", id, f>>)' = job.given[f]
  BY <1>1, LinkEffect
<1>3. /\ UNCHANGED <<cat, workDirs, patches, manifest, pc>>
      /\ job' = [job EXCEPT !.todo = @ \ {f}, !.files = @ \cup {f}]
  BY DEF LinkFile
<1>4. IsJob(job)
  BY DEF IInv, TypeOK
<1>5. /\ job'.id = id /\ job'.base = job.base /\ job'.kind = job.kind
      /\ job'.given = job.given /\ job'.edges = job.edges /\ job'.span = job.span
      /\ job'.todo = job.todo \ {f} /\ job'.files = job.files \cup {f}
  BY <1>1, <1>3, <1>4 DEF IsJob
<1>6. /\ job.span \in Spans /\ WorkHas(job) /\ RootHas(job) /\ Sources(job)
      /\ DOMAIN job.edges = {}
      /\ job.todo = DOMAIN job.given \ job.files /\ job.files \subseteq DOMAIN job.given
  BY <1>2 DEF JobInv
<1>7. WorkHas(job)'
  <2>1. \A g \in Files : g # f => Same(<<"work", id, g>>)
    BY <1>2
  <2>2. ASSUME NEW g \in Files
        PROVE  /\ Exists(<<"work", id, g>>)' <=> g \in job'.files
               /\ g \in job'.files => ContentAt(<<"work", id, g>>)' = job.given[g]
    <3>1. CASE g = f
      BY <1>2, <1>5, <3>1
    <3>2. CASE g # f
      BY <1>1, <1>5, <1>6, <2>1, <3>2 DEF WorkHas, Same
    <3> QED BY <3>1, <3>2
  <2> QED BY <1>5, <2>2 DEF WorkHas
<1>8. RootHas(job)'
  <2>1. \A g \in Files : Same(<<"root", id, g>>)
    BY <1>2
  <2> QED BY <1>1, <1>5, <1>6, <2>1 DEF RootHas, Same
<1>9. Sources(job)'
  <2> SUFFICES ASSUME NEW g \in job'.todo
               PROVE  (\/ Exists(<<"stage", NoBuild, g>>)
                          /\ ContentAt(<<"stage", NoBuild, g>>) = job.given[g]
                       \/ /\ ~Exists(<<"stage", NoBuild, g>>) /\ job.base \in DOMAIN cat \cap workDirs
                          /\ Exists(<<"work", job.base, g>>)
                          /\ ContentAt(<<"work", job.base, g>>) = job.given[g])'
    BY DEF Sources
  <2>1. g \in job.todo /\ g # f
    BY <1>5
  <2>2. PICK base : base = job.base
    OBVIOUS
  <2>3. Same(<<"stage", NoBuild, g>>) /\ Same(<<"work", base, g>>)
    <3>1. <<"work", base, g>> # <<"work", id, f>>
      BY <2>1
    <3> QED BY <1>2, <3>1
  <2>4. CASE Exists(<<"stage", NoBuild, g>>)
    BY <1>5, <1>6, <2>1, <2>3, <2>4 DEF Sources, Same
  <2>5. CASE ~Exists(<<"stage", NoBuild, g>>)
    <3>1. /\ base \in DOMAIN cat \cap workDirs
          /\ Exists(<<"work", base, g>>) /\ ContentAt(<<"work", base, g>>) = job.given[g]
      BY <1>6, <2>1, <2>2, <2>5 DEF Sources
    <3>2. /\ Exists(<<"work", base, g>>)' /\ ContentAt(<<"work", base, g>>)' = job.given[g]
          /\ ~Exists(<<"stage", NoBuild, g>>)'
      BY <2>3, <2>5, <3>1 DEF Same
    <3> QED BY <1>3, <1>5, <2>2, <3>1, <3>2
  <2> QED BY <2>4, <2>5
<1>10. Edges(job)' /\ DOMAIN job'.edges = {}
  BY <1>5, <1>6 DEF Edges
<1>11. job'.todo = DOMAIN job'.given \ job'.files /\ job'.files \subseteq DOMAIN job'.given
  BY <1>2, <1>5, <1>6
<1> QED BY <1>2, <1>3, <1>5, <1>6, <1>7, <1>8, <1>9, <1>10, <1>11 DEF JobInv

\* A publish starts: nothing of its own is anywhere yet, and what it was given is on the
\* stage, or else in the base's work directory.
LEMMA StartJobStep ==
  ASSUME IInv, FilesInv, DirsInv,
         NEW id \in Ids, NEW kind \in Kinds, NEW fresh \in BOOLEAN, NEW d \in Days,
         NEW n \in Spans, NEW ps, Start(id, kind, fresh, d, ps, n)
  PROVE  JobInv'
<1> DEFINE base == IF fresh THEN NoBuild ELSE Latest(cat)
           staged == Held("stage", NoBuild)
           carried == IF base = NoBuild THEN NoManifest ELSE Held(baseDBDir(base), base)
<1>1. /\ id \notin rootDirs /\ workDirs' = workDirs \cup {id} /\ pc' = "link"
      /\ UNCHANGED <<cat, disk>>
      /\ job'.id = id /\ job'.kind = kind /\ job'.base = base /\ job'.span = n
      /\ job'.todo = DOMAIN staged \cup DOMAIN carried /\ job'.files = {}
      /\ job'.edges = NoManifest /\ job'.given = Completed(staged, carried)
  BY DEF Start, IsNew
<1>2. \A q : (Exists(q)' <=> Exists(q)) /\ ContentAt(q)' = ContentAt(q)
  BY <1>1 DEF Exists, ContentAt, FileAt
<1>3. \A f \in Files : ~Exists(<<"work", id, f>>) /\ ~Exists(<<"root", id, f>>)
  BY <1>1 DEF DirsInv
<1>4. WorkHas(job)' /\ RootHas(job)'
  BY <1>1, <1>2, <1>3 DEF WorkHas, RootHas
<1>5. ASSUME base # NoBuild
      PROVE  base \in DOMAIN cat \cap workDirs /\ carried = Held("work", base)
  <2>1. DOMAIN cat # {} /\ base = Latest(cat)
    BY <1>5 DEF Latest, LastOf
  <2>2. base \in DOMAIN cat
    <3>1. Ordered(cat) /\ HasLast(cat, DOMAIN cat)
      BY CatalogIsOrdered DEF IInv, TypeOK, TreeInv
    <3> QED BY <2>1, <3>1, LatestIsLatest
  <2>3. base \in workDirs
    BY <2>1 DEF FilesInv, TipInWork
  <2> HIDE DEF base
  <2> QED BY <1>5, <2>2, <2>3 DEF baseDBDir
<1>6. /\ DOMAIN Completed(staged, carried) = DOMAIN staged \cup DOMAIN carried
      /\ \A f \in DOMAIN staged \cup DOMAIN carried :
           Completed(staged, carried)[f] = IF f \in DOMAIN staged THEN staged[f] ELSE carried[f]
  BY DEF Completed
<1>7. \A f \in Files : /\ f \in DOMAIN staged <=> Exists(<<"stage", NoBuild, f>>)
                       /\ f \in DOMAIN staged => staged[f] = ContentAt(<<"stage", NoBuild, f>>)
  BY DEF Held, ContentAt
<1>8. ASSUME NEW f \in DOMAIN carried
      PROVE  /\ base \in DOMAIN cat \cap workDirs
             /\ Exists(<<"work", base, f>>) /\ carried[f] = ContentAt(<<"work", base, f>>)
  <2>1. base # NoBuild
    BY <1>8, NoManifestIsEmpty
  <2>2. carried = Held("work", base) /\ base \in DOMAIN cat \cap workDirs
    BY <1>5, <2>1
  <2> HIDE DEF carried, base
  <2> QED BY <1>8, <2>2 DEF Held, ContentAt
<1>9. DOMAIN staged \subseteq Files /\ DOMAIN carried \subseteq Files
  BY NoManifestIsEmpty DEF Held
<1> HIDE DEF staged, carried, base
<1>10. Sources(job)'
  <2> SUFFICES ASSUME NEW f \in job'.todo
               PROVE  (\/ Exists(<<"stage", NoBuild, f>>)
                          /\ ContentAt(<<"stage", NoBuild, f>>) = job.given[f]
                       \/ /\ ~Exists(<<"stage", NoBuild, f>>) /\ job.base \in DOMAIN cat \cap workDirs
                          /\ Exists(<<"work", job.base, f>>)
                          /\ ContentAt(<<"work", job.base, f>>) = job.given[f])'
    BY DEF Sources
  <2>1. PICK b : b = base
    OBVIOUS
  <2>2. f \in Files /\ f \in DOMAIN staged \cup DOMAIN carried
    BY <1>1, <1>9
  <2>3. CASE f \in DOMAIN staged
    BY <1>1, <1>2, <1>6, <1>7, <2>2, <2>3
  <2>4. CASE f \notin DOMAIN staged
    <3>1. /\ ~Exists(<<"stage", NoBuild, f>>)
          /\ b \in DOMAIN cat \cap workDirs
          /\ Exists(<<"work", b, f>>) /\ carried[f] = ContentAt(<<"work", b, f>>)
      BY <1>7, <1>8, <2>1, <2>2, <2>4
    <3>2. job'.given[f] = carried[f]
      BY <1>1, <1>6, <2>2, <2>4
    <3> QED BY <1>1, <1>2, <2>1, <3>1, <3>2
  <2> QED BY <2>3, <2>4
<1>11. DOMAIN job'.edges = {}
  BY <1>1, NoManifestIsEmpty
<1>12. Edges(job)'
  BY <1>11 DEF Edges
<1> QED BY <1>1, <1>4, <1>6, <1>10, <1>11, <1>12 DEF JobInv

LEMMA JobStep ==
  ASSUME \A n \in Spans : n < KeepTips,
         IInv, FilesInv, DirsInv, KeptInv, WorkInv, JobInv, [Next]_vars
  PROVE  JobInv'
<1>1. CASE pc' \in {"idle", "prune"}
  BY <1>1 DEF JobInv
<1>2. ASSUME NEW id \in Ids, NEW kind \in Kinds, NEW fresh \in BOOLEAN, NEW d \in Days,
             NEW n \in Spans, NEW ps \in IF kind = "full" THEN SUBSET Pages ELSE {{}},
             Start(id, kind, fresh, d, ps, n)
      PROVE  JobInv'
  BY <1>2, StartJobStep
<1>3. CASE \E f \in Files : LinkFile(f) \/ HostFile(f)
  BY <1>3, LinkJobStep, HostJobStep
<1>4. CASE \E diff \in [Files -> Contents] : Diff(diff) \/ Rollup(diff)
  BY <1>4, EmitJobStep
<1>5. CASE EndLink \/ Guard \/ EndHost \/ WriteManifest \/ OpenCatalog
  BY <1>5, PhaseJobStep
<1>6. CASE WriteCatalog \/ Prune \/ Stop
  BY <1>1, <1>6 DEF WriteCatalog, Prune, Stop
<1>7. CASE Restage \/ \E f \in Files, c \in Contents : Export(f, c)
  BY <1>1, <1>7 DEF Restage, Export
<1>8. CASE \E b \in Ids : ClearFailed(b)
  BY <1>1, <1>8 DEF ClearFailed
<1>9. CASE UNCHANGED vars /\ pc' \notin {"idle", "prune"}
  <2>1. UNCHANGED <<cat, disk, workDirs, patches, manifest, pc, job>>
    BY <1>9 DEF vars
  <2>2. /\ WorkHas(job) => WorkHas(job)'
        /\ RootHas(job) => RootHas(job)'
        /\ Sources(job) => Sources(job)'
        /\ Edges(job) => Edges(job)'
        /\ Guarded(job) => Guarded(job)'
    BY <1>9, <2>1, QuietJob
  <2>3. \A q : Exists(q)' <=> Exists(q)
    BY <2>1 DEF Exists
  <2> QED BY <2>1, <2>2, <2>3 DEF JobInv
<1> QED BY <1>1, <1>2, <1>3, <1>4, <1>5, <1>6, <1>7, <1>8, <1>9 DEF Next

----------------------------------------------------------------------------
\* What is published.

\* What a publish was given is recorded once.
LEMMA IntentStays ==
  ASSUME IInv, [Next]_vars, NEW id \in DOMAIN cat
  PROVE  intent'[id] = intent[id]
<1>1. CASE WriteCatalog
  <2>1. id \in Ids /\ id # job.id /\ intent \in [Ids -> [files: Manifests, pageSet: SUBSET Pages]]
    BY <1>1 DEF WriteCatalog, IInv, TypeOK, IsCatalog, RouteInv
  <2> QED BY <1>1, <2>1 DEF WriteCatalog
<1>2. ASSUME NEW b \in Ids, NEW kind \in Kinds, NEW fresh \in BOOLEAN, NEW d \in Days,
             NEW n \in Spans, NEW ps \in IF kind = "full" THEN SUBSET Pages ELSE {{}},
             Start(b, kind, fresh, d, ps, n)
      PROVE  UNCHANGED intent
  BY <1>2 DEF Start
<1>3. CASE \E f \in Files : LinkFile(f) \/ HostFile(f)
  BY <1>3 DEF LinkFile, HostFile
<1>4. CASE \E diff \in [Files -> Contents] : Diff(diff) \/ Rollup(diff)
  BY <1>4 DEF Diff, Rollup
<1>5. CASE \E f \in Files, c \in Contents : Export(f, c)
  BY <1>5 DEF Export
<1>6. CASE \E b \in Ids : ClearFailed(b)
  BY <1>6 DEF ClearFailed
<1>7. CASE \/ Restage \/ EndLink \/ Guard \/ EndHost \/ WriteManifest \/ OpenCatalog
           \/ Prune \/ Stop \/ UNCHANGED vars
  BY <1>7 DEF Restage, EndLink, Guard, EndHost, WriteManifest, OpenCatalog, Prune, Stop, vars
<1> QED BY <1>1, <1>2, <1>3, <1>4, <1>5, <1>6, <1>7 DEF Next

\* What holds of one published build.
Published(id) ==
  /\ id \in workDirs => Held("work", id) = manifest[id]
  /\ cat[id].bridgeFrom \in DOMAIN cat \cup {NoBuild}
  /\ manifest[id] = intent[id].files
  /\ cat[id].kind = "full" => Held("root", id) = manifest[id]
  /\ \A src \in DOMAIN cat[id].edges : \A f \in DOMAIN manifest[id] \cap DOMAIN manifest[src] :
       [from |-> src, file |-> f, base |-> manifest[src][f], result |-> manifest[id][f]]
         \in patches[id]
  /\ cat[id].bridgeFrom # NoBuild
       /\ Core \in DOMAIN manifest[id] \cap DOMAIN manifest[cat[id].bridgeFrom] =>
       (manifest[cat[id].bridgeFrom][Core] \ manifest[id][Core]) \cap intent[id].pageSet = {}

LEMMA PublishedIs ==
  (\A id \in DOMAIN cat : Published(id)) <=> WorkInv /\ BridgesInv /\ PublishedInv
BY DEF Published, WorkInv, BridgesInv, PublishedInv, PublishesTheExport, FullsAreHosted,
       RoutesReproduce, NoUnexplainedRemoval

\* A build that was published stays so.
LEMMA OldIsPublished ==
  ASSUME IInv, FilesInv, JobInv, [Next]_vars, NEW id \in DOMAIN cat, Published(id)
  PROVE  Published(id)'
<1>1. /\ DOMAIN cat \subseteq DOMAIN cat' /\ cat'[id] = cat[id]
      /\ patches'[id] = patches[id] /\ Held("root", id)' = Held("root", id)
      /\ \A b \in DOMAIN cat : manifest'[b] = manifest[b]
  BY StepPublishes DEF Listed
<1>2. intent'[id] = intent[id]
  BY IntentStays
<1>3. id \in workDirs' => Held("work", id)' = manifest'[id]
  BY <1>1, WorkStays, ListedWorkDir DEF Published
<1>4. \A src \in DOMAIN cat[id].edges : src \in DOMAIN cat
  BY DEF IInv, ThroughNeverRewinds, Listed
<1> QED BY <1>1, <1>2, <1>3, <1>4 DEF Published

\* And so is the one whose entry was just written.
LEMMA NewIsPublished ==
  ASSUME IInv, FilesInv, JobInv, WriteCatalog, NEW id, id = job.id
  PROVE  /\ DOMAIN cat' = DOMAIN cat \cup {id}
         /\ Published(id)'
<1>1. /\ pc = "rewrite" /\ UNCHANGED <<disk, workDirs, patches, manifest, job>>
      /\ intent' = [intent EXCEPT ![id] = [files |-> job.given, pageSet |-> job.pageSet]]
  BY DEF WriteCatalog
<1>2. PICK e : /\ cat' = Recorded(cat, id, e) /\ e.kind = job.kind /\ e.edges = job.edges
               /\ e.bridgeFrom = IF job.kind = "full" THEN job.base ELSE NoBuild
  BY DEF WriteCatalog
<1>3. DOMAIN cat' = DOMAIN cat \cup {id} /\ cat'[id] = e
  BY <1>2 DEF Recorded
<1>4. id \in Ids /\ intent \in [Ids -> [files: Manifests, pageSet: SUBSET Pages]]
  BY <1>1 DEF IInv, TypeOK, RouteInv
<1>5. intent'[id].files = job.given /\ intent'[id].pageSet = job.pageSet
  BY <1>1, <1>4
<1>6. manifest'[id] = job.given /\ job.files = DOMAIN job.given /\ Edges(job) /\ Guarded(job)
  BY <1>1 DEF JobInv
<1>7. Held("work", id) = job.given /\ (job.kind = "full" => Held("root", id) = job.given)
  BY <1>1, WorkIsGiven, RootIsGiven
<1>8. Held("work", id)' = Held("work", id) /\ Held("root", id)' = Held("root", id)
  BY <1>1 DEF Held, Exists, FileAt
<1>9. job.base # NoBuild => job.base \in DOMAIN cat
  BY <1>1 DEF IInv, RouteInv
<1>10. \A src \in DOMAIN job.edges : \A f \in DOMAIN job.given \cap DOMAIN manifest[src] :
         [from |-> src, file |-> f, base |-> manifest[src][f], result |-> job.given[f]] \in patches[id]
  BY <1>6 DEF Edges
<1>11. e.bridgeFrom # NoBuild
         /\ Core \in DOMAIN job.given \cap DOMAIN manifest[e.bridgeFrom] =>
         (manifest[e.bridgeFrom][Core] \ job.given[Core]) \cap job.pageSet = {}
  BY <1>2, <1>6 DEF Guarded
<1>12. /\ cat[id]'.kind = job.kind /\ cat[id]'.edges = job.edges
       /\ cat[id]'.bridgeFrom = e.bridgeFrom /\ e.bridgeFrom \in DOMAIN cat \cup {NoBuild}
  BY <1>2, <1>3, <1>9
<1>13. manifest' = manifest /\ patches' = patches
  BY <1>1
<1> QED
  BY <1>3, <1>5, <1>6, <1>7, <1>8, <1>10, <1>11, <1>12, <1>13 DEF Published

LEMMA PublishedStep ==
  ASSUME IInv, FilesInv, WorkInv, BridgesInv, JobInv, PublishedInv, [Next]_vars
  PROVE  (WorkInv /\ BridgesInv /\ PublishedInv)'
<1>1. \A id \in DOMAIN cat : Published(id)'
  BY OldIsPublished, PublishedIs
<1>2. CASE WriteCatalog
  <2>1. PICK id : id = job.id
    OBVIOUS
  <2>2. DOMAIN cat' = DOMAIN cat \cup {id} /\ Published(id)'
    BY <1>2, <2>1, NewIsPublished
  <2>3. (\A b \in DOMAIN cat : Published(b))'
    BY <1>1, <2>2
  <2> QED
    BY <2>3 DEF Published, WorkInv, BridgesInv, PublishedInv, PublishesTheExport,
                FullsAreHosted, RoutesReproduce, NoUnexplainedRemoval
<1>3. CASE UNCHANGED cat
  <2>1. (\A b \in DOMAIN cat : Published(b))'
    BY <1>1, <1>3
  <2> QED
    BY <2>1 DEF Published, WorkInv, BridgesInv, PublishedInv, PublishesTheExport,
                FullsAreHosted, RoutesReproduce, NoUnexplainedRemoval
<1> QED BY <1>2, <1>3, WhatAStepWrites


LEMMA InitTreeIInv == Init => TreeIInv
<1> SUFFICES ASSUME Init PROVE TreeIInv
  OBVIOUS
<1>1. DOMAIN cat = {} /\ disk = {} /\ workDirs = {} /\ rootDirs = {} /\ pc = "idle"
  BY DEF Init, EmptyCatalog
<1>2. DirsInv
  BY <1>1 DEF DirsInv, Exists
<1>3. KeptInv
  BY <1>1, FS_EmptySet DEF KeptInv
<1>4. JobInv
  BY <1>1 DEF JobInv
<1>5. WorkInv /\ BridgesInv /\ PublishedInv
  BY <1>1 DEF WorkInv, BridgesInv, PublishedInv, PublishesTheExport, FullsAreHosted,
              RoutesReproduce, NoUnexplainedRemoval
<1> QED BY <1>2, <1>3, <1>4, <1>5 DEF TreeIInv

\* The pipeline the documentation describes: a failed publish is cleared away whole,
\* at least one build's databases are kept, and no rollup reaches further back than
\* they do (docs/CHAIN.md: -rollups 7,30 with -keep-tips 31).
Kept == CleansWork /\ KeepTips >= 1 /\ \A n \in Spans : n < KeepTips

\* Under those three, the files, the directories, the running publish and what is
\* published stay in step with one another, wherever a publish stops.
THEOREM ShipInvariance ==
  ASSUME Kept
  PROVE  Spec => [](IInv /\ FilesInv /\ TreeIInv)
<1>1. CleansWork /\ KeepTips >= 1 /\ \A n \in Spans : n < KeepTips
  BY DEF Kept
<1>2. Init => FilesInv /\ TreeIInv
  BY InitFilesInv, InitTreeIInv
<1>3. IInv /\ IInv' /\ FilesInv /\ TreeIInv /\ [Next]_vars => FilesInv' /\ TreeIInv'
  <2> SUFFICES ASSUME IInv, IInv', FilesInv, TreeIInv, [Next]_vars
               PROVE  FilesInv' /\ TreeIInv'
    OBVIOUS
  <2>1. FilesInv'
    BY <1>1, StepKeepsFiles, TipStaysInWork DEF FilesInv
  <2>2. DirsInv'
    BY <1>1, DirsStep DEF TreeIInv
  <2>3. KeptInv'
    BY KeptStep DEF TreeIInv
  <2>4. JobInv'
    BY <1>1, JobStep DEF TreeIInv
  <2>5. (WorkInv /\ BridgesInv /\ PublishedInv)'
    BY PublishedStep DEF TreeIInv
  <2> QED BY <2>1, <2>2, <2>3, <2>4, <2>5 DEF TreeIInv
<1> QED BY <1>2, <1>3, Invariance, PTL DEF Spec

\* What a build's manifest describes is the export that was staged, completed from the
\* base: a publish that dies and is cleared and run again leaves nothing behind that
\* the next one could publish in its place.
THEOREM PublishedIsTheExport ==
  ASSUME Kept
  PROVE  Spec => []PublishesTheExport
<1>1. TreeIInv => PublishesTheExport
  BY DEF TreeIInv, PublishedInv
<1> QED BY <1>1, ShipInvariance, PTL

\* Every route in the catalog turns the source's published databases into the target's,
\* rollups included.
THEOREM RoutesCanBeRidden ==
  ASSUME Kept
  PROVE  Spec => []RoutesReproduce
<1>1. TreeIInv => RoutesReproduce
  BY DEF TreeIInv, PublishedInv
<1> QED BY <1>1, ShipInvariance, PTL

\* A full listed in the catalog hosts every database its manifest names.
THEOREM FullsHostTheirDatabases ==
  ASSUME Kept
  PROVE  Spec => []FullsAreHosted
<1>1. TreeIInv => FullsAreHosted
  BY DEF TreeIInv, PublishedInv
<1> QED BY <1>1, ShipInvariance, PTL

\* A bridge removes no page that is still in the dump the full was built from.
THEOREM BridgesExplainRemovals ==
  ASSUME Kept
  PROVE  Spec => []NoUnexplainedRemoval
<1>1. TreeIInv => NoUnexplainedRemoval
  BY DEF TreeIInv, PublishedInv
<1> QED BY <1>1, ShipInvariance, PTL

\* Between publishes the tip's databases are in the work directory as published, for
\* the next build to be diffed against.
THEOREM TipIsADiffBase ==
  ASSUME Kept
  PROVE  Spec => []TipHasDiffBase
<1>1. IInv /\ FilesInv /\ TreeIInv => TipHasDiffBase
  <2> SUFFICES ASSUME IInv, FilesInv, TreeIInv, Latest(cat) # NoBuild
               PROVE  Latest(cat) \in workDirs /\ Held("work", Latest(cat)) = manifest[Latest(cat)]
    BY DEF TipHasDiffBase
  <2>1. DOMAIN cat # {}
    BY DEF Latest, LastOf
  <2>2. Latest(cat) \in workDirs
    BY <2>1 DEF FilesInv, TipInWork
  <2>3. Latest(cat) \in DOMAIN cat
    <3>1. Ordered(cat) /\ HasLast(cat, DOMAIN cat)
      BY CatalogIsOrdered DEF IInv, TypeOK, TreeInv
    <3> QED BY <2>1, <3>1, LatestIsLatest
  <2> QED BY <2>2, <2>3 DEF TreeIInv, WorkInv
<1> QED BY <1>1, ShipInvariance, PTL

=============================================================================

----------------------------- MODULE ShelfBuild -----------------------------
(***************************************************************************)
(* How a CRIU shelf comes to be and comes to be used.  `orbstack-criu      *)
(* build` allocates a root, and for every profile of its plan starts a     *)
(* basis, records what the basis loaded, dumps it, stops it, restores the  *)
(* dump, probes it, stops that, and writes a manifest; a complete batch is *)
(* checked twice and published by one rename to results.json.  The warm    *)
(* route selects a published row and admits its manifest.  Builds run side *)
(* by side, sources and the profile recipe are edited, and a build can be  *)
(* killed, all at any step.                                                *)
(*                                                                         *)
(* Bytes are small numbers: a file holds 0 (absent) or a content, equal    *)
(* contents are equal bytes.  HOL's digest of a file and its load are one  *)
(* step, and so are the digests one resolution or one validation takes.    *)
(* The recipe lies under a name made of its digest, so it never changes    *)
(* under a build.  Left out: the OCaml runtime's two files (treated as the *)
(* sources are) and the guard's wording.                                   *)
(***************************************************************************)
EXTENDS Naturals, Sequences, FiniteSets

CONSTANTS
  Builds,
  Plans,     \* of each build: the plans it may be asked for
  MaxPlan,   \* longest plan
  Base,      \* profile -> base recipe; an alias shares its base
  LoadOrder, \* base -> version -> files, as HOL loads them
  Basename,  \* file -> basename, all that HOL's loader remembers of a path
  Contents,  \* bytes a file can have
  Initially, \* contents at the start
  Bundles,   \* of each build: the broker runtimes its checkout may have
  Reviewed,  \* broker runtimes that have been reviewed
  Failing,   \* builds whose steps may fail and that may be killed
  MaxChanges

VARIABLES
  disk,   \* contents of every file
  recipe, \* version of every base in the checkout's profile manifest
  changes, \* of sources and recipes, so far
  build,  \* the controllers
  proc,   \* the pool of the i-th profile of each build
  shelf,  \* allocated roots, in the order of their names
  route   \* the warm route

buildVars == <<disk, recipe, changes, build, proc, shelf, route>>

Profiles == DOMAIN Base
Files == DOMAIN Basename
Pools == Builds \X (1..MaxPlan)
None == <<>>

Bases == {Base[p] : p \in Profiles}

ASSUME BuildAssumption ==
  /\ Failing \subseteq Builds /\ 0 \notin Contents /\ MaxPlan \in Nat
  /\ Initially \in [Files -> Contents \cup {0}]
  /\ \A b \in Builds : \A plan \in Plans[b] : plan \in Seq(Profiles) /\ Len(plan) \in 1..MaxPlan
  /\ \A x \in Bases, v \in 1..2 : LoadOrder[x][v] \in Seq(Files)

NoDir == [image |-> None, logs |-> {}, eval |-> None, manifest |-> None]
NewRoot == [results |-> None, dirs |-> [p \in Profiles |-> NoDir]]

NewItem(p) ==
  [profile |-> p, status |-> "", pool |-> FALSE, sha |-> 0, bundle |-> None,
   closure |-> {}, inventory |-> None, before |-> {}, eval |-> None, smoke |-> None,
   stopped |-> FALSE, projection |-> None]

Gone == [st |-> "gone", todo |-> <<>>, mem |-> {}, of |-> None]

BuildInit ==
  /\ disk = Initially /\ recipe = [x \in Bases |-> 1] /\ changes = 0
  /\ build \in [Builds -> [pc : {"plan"}, plan : UNION {Plans[b] : b \in Builds}, i : {0},
                           root : {0}, rows : {<<>>}, item : {None}]]
  /\ \A b \in Builds : build[b].plan \in Plans[b]
  /\ proc = [k \in Pools |-> Gone]
  /\ shelf = <<>>
  /\ route = [pc |-> "idle"]

-----------------------------------------------------------------------------
At(b, pc) == build[b].pc = pc
Id(b) == <<b, build[b].i>>
Item(b) == build[b].item
Dir(b) == shelf[build[b].root].dirs[Item(b).profile]
Around == <<disk, recipe, changes, route>>

Go(b, pc, item) == build' = [build EXCEPT ![b].pc = pc, ![b].item = item]
Fails(b, status) == Go(b, "finally", [Item(b) EXCEPT !.status = status])
SetDir(b, dir) ==
  shelf' = [shelf EXCEPT ![build[b].root] =
    [results |-> @.results, dirs |-> [@.dirs EXCEPT ![Item(b).profile] = dir]]]
Becomes(k, st) == proc' = [proc EXCEPT ![k] = IF st = "gone" THEN Gone ELSE [@ EXCEPT !.st = st]]
Ends(b, pc) ==
  build' = [build EXCEPT ![b].pc = pc, ![b].item = None,
                         ![b].rows = IF pc = "done" THEN @ ELSE <<>>]

\* Missing preloads, CRIU not ready, or a checkout that is not clean.
PreflightRefuses(b) ==
  /\ b \in Failing /\ At(b, "plan") /\ Ends(b, "ended") /\ UNCHANGED <<Around, proc, shelf>>

\* Fault: the root of another build of that second is joined.
AllocateRoot_Joins(b) ==
  /\ At(b, "plan")
  /\ shelf' = IF shelf = <<>> THEN <<NewRoot>> ELSE shelf
  /\ build' = [build EXCEPT ![b].pc = "profile", ![b].i = 1, ![b].root = Len(shelf')]
  /\ UNCHANGED <<Around, proc>>

\* allocate_build_root: mkdir creates it or another name is tried.
AllocateRoot(b) ==
  /\ At(b, "plan")
  /\ shelf' = Append(shelf, NewRoot)
  /\ build' = [build EXCEPT ![b].pc = "profile", ![b].i = 1, ![b].root = Len(shelf')]
  /\ UNCHANGED <<Around, proc>>

-----------------------------------------------------------------------------
(* One profile.                                                            *)

\* Assignments, guard and recipe; then the start command, whose broker starts
\* the basis in a session of its own.
StartPool(b, bundle) ==
  /\ At(b, "profile") /\ build[b].i <= Len(build[b].plan)
  /\ LET p == build[b].plan[build[b].i]  v == recipe[Base[p]]
     IN  /\ Go(b, "start", [NewItem(p) EXCEPT !.sha = v, !.bundle = bundle])
         /\ proc' = [proc EXCEPT ![Id(b)] =
              [st |-> "loading", todo |-> LoadOrder[Base[p]][v], mem |-> {}, of |-> None]]
  /\ UNCHANGED <<Around, shelf>>

GuardRefuses(b) ==
  /\ b \in Failing /\ At(b, "profile") /\ build[b].i <= Len(build[b].plan)
  /\ Go(b, "finally", [NewItem(build[b].plan[build[b].i]) EXCEPT !.status = "exception"])
  /\ UNCHANGED <<Around, proc, shelf>>

\* The images so far have used up the budget.
BudgetSpent(b) ==
  /\ b \in Failing /\ At(b, "profile") /\ build[b].i \in 2..Len(build[b].plan)
  /\ \E i \in DOMAIN build[b].rows : build[b].rows[i].inventory # None
  /\ Go(b, "batch", None)
  /\ UNCHANGED <<Around, proc, shelf>>

\* HOL loads the next file, if it is there, and remembers name and digest.
LoadFile(k) ==
  /\ proc[k].st \in {"loading", "orphan"} /\ proc[k].todo # <<>>
  /\ LET f == Head(proc[k].todo)
     IN  proc' = [proc EXCEPT ![k] =
           IF disk[f] = 0 THEN Gone
           ELSE [proc[k] EXCEPT
                   !.todo = Tail(@),
                   !.mem = @ \cup {[name |-> Basename[f], content |-> disk[f]]}]]
  /\ UNCHANGED <<Around, build, shelf>>

\* An orphan reads the end of its input when it has loaded.
OrphanEnds(k) ==
  /\ proc[k].st = "orphan" /\ proc[k].todo = <<>>
  /\ Becomes(k, "gone")
  /\ UNCHANGED <<Around, build, shelf>>

PoolReady(b) ==
  /\ At(b, "start") /\ proc[Id(b)].st = "loading" /\ proc[Id(b)].todo = <<>>
  /\ Becomes(Id(b), "live")
  /\ Go(b, "capture", [Item(b) EXCEPT !.pool = TRUE])
  /\ UNCHANGED <<Around, shelf>>

\* start_pool saw its broker exit, or waited too long: it terminates the
\* broker's group, and the basis is in another.
PoolStartFails(b) ==
  /\ At(b, "start") /\ (b \in Failing \/ proc[Id(b)].st = "gone")
  /\ Becomes(Id(b), IF proc[Id(b)].st = "gone" THEN "gone" ELSE "orphan")
  /\ Fails(b, "pool_start_failed")
  /\ UNCHANGED <<Around, shelf>>

\* The start command itself is killed: broker and basis go on.
StartTimesOut(b) ==
  /\ b \in Failing /\ At(b, "start") /\ Fails(b, "exception") /\ UNCHANGED <<Around, proc, shelf>>

-----------------------------------------------------------------------------
(* What the basis loaded.                                                  *)

Matching(r) == {f \in Files : Basename[f] = r.name /\ disk[f] = r.content}

\* resolve_loaded_closure: exactly one path under the roots has that basename
\* and that digest.
Resolved(mem) == \A r \in mem : Cardinality(Matching(r)) = 1

Closure(mem) ==
  {[name |-> r.name, content |-> r.content, path |-> CHOOSE f \in Matching(r) : TRUE] : r \in mem}

\* Fault: stored digests are taken as they are.
ClosureValid_Unread(closure) == \A e \in closure : Basename[e.path] = e.name

\* validate_loaded_closure: the stored paths have the stored digests.
ClosureValid(closure) ==
  \A e \in closure : Basename[e.path] = e.name /\ disk[e.path] = e.content

\* A child of the basis prints loaded_files, it is gone, and they resolve.
ResolveLoaded(b) ==
  /\ At(b, "capture") /\ Resolved(proc[Id(b)].mem)
  /\ Go(b, "validate", [Item(b) EXCEPT !.closure = Closure(proc[Id(b)].mem)])
  /\ UNCHANGED <<Around, proc, shelf>>

ValidateCapture(b) ==
  /\ At(b, "validate") /\ ClosureValid(Item(b).closure)
  /\ Go(b, "dump", Item(b))
  /\ UNCHANGED <<Around, proc, shelf>>

\* The child failed or is still there, a record does not resolve, what was
\* resolved changed, or the guard misses a captured digest.
CaptureFails(b) ==
  /\ \/ At(b, "capture") /\ (b \in Failing \/ ~Resolved(proc[Id(b)].mem))
     \/ At(b, "validate") /\ (b \in Failing \/ ~ClosureValid(Item(b).closure))
  /\ Fails(b, "exception")
  /\ UNCHANGED <<Around, proc, shelf>>

-----------------------------------------------------------------------------
(* Dump, restore, probe.                                                   *)

\* criu dump kills what it has dumped.
Dump(b) ==
  /\ At(b, "dump")
  /\ SetDir(b, [Dir(b) EXCEPT !.image = [by |-> Id(b), mem |-> proc[Id(b)].mem]])
  /\ Becomes(Id(b), "gone")
  /\ Go(b, "inventory", Item(b))
  /\ UNCHANGED Around

\* It failed, or its files could not be handed over: the tree runs on.
DumpFails(b) ==
  /\ b \in Failing /\ At(b, "dump")
  /\ SetDir(b, [Dir(b) EXCEPT !.image = [by |-> None, mem |-> {}]])
  /\ \E status \in {"dump_failed", "exception"} : Fails(b, status)
  /\ UNCHANGED <<Around, proc>>

\* image_inventory_record: the digests of every file of the image.
Inventory(b) ==
  /\ At(b, "inventory")
  /\ Go(b, "stop", [Item(b) EXCEPT !.inventory = Dir(b).image.by])
  /\ UNCHANGED <<Around, proc, shelf>>

\* stop_dumped_pool, verified; the restore logs there are by now.
StopDumped(b) ==
  /\ At(b, "stop")
  /\ Go(b, "restore", [Item(b) EXCEPT !.before = Dir(b).logs])
  /\ UNCHANGED <<Around, proc, shelf>>

StopDumpedFails(b) ==
  /\ b \in Failing /\ At(b, "stop") /\ Fails(b, "post_dump_stop_failed") /\ UNCHANGED <<Around, proc, shelf>>

\* restore_internal_pool restores what is in the image directory now.
Restore(b) ==
  /\ At(b, "restore")
  /\ proc' = [proc EXCEPT ![Id(b)] = [st |-> "live", todo |-> <<>>, mem |-> Dir(b).image.mem,
                                      of |-> Dir(b).image.by]]
  /\ SetDir(b, [Dir(b) EXCEPT !.logs = @ \cup {Id(b)}])
  /\ Go(b, "evidence", Item(b))
  /\ UNCHANGED Around

\* The transaction may leave a tree it could not end.
RestoreFails(b) ==
  /\ b \in Failing /\ At(b, "restore")
  /\ \E st \in {"gone", "live"} : Becomes(Id(b), st)
  /\ \E logged \in BOOLEAN :
       SetDir(b, [Dir(b) EXCEPT !.logs = IF logged THEN @ \cup {Id(b)} ELSE @])
  /\ Fails(b, "restore_failed")
  /\ UNCHANGED Around

\* capture_new_restore_evidence: this restore wrote exactly one log.
Evidence(b) ==
  /\ At(b, "evidence")
  /\ IF Cardinality(Dir(b).logs \ Item(b).before) = 1
     THEN Go(b, "probe", Item(b)) ELSE Fails(b, "restore_evidence_failed")
  /\ UNCHANGED <<Around, proc, shelf>>

\* The restored broker evaluates the smoke source: log, markers and record.
ProbePasses(b) ==
  /\ At(b, "probe")
  /\ SetDir(b, [Dir(b) EXCEPT !.eval = Id(b)])
  /\ Go(b, "finally", [Item(b) EXCEPT !.status = "ok", !.eval = Id(b),
                                      !.smoke = proc[Id(b)].of])
  /\ UNCHANGED <<Around, proc>>

ProbeFails(b) ==
  /\ b \in Failing /\ At(b, "probe")
  /\ SetDir(b, [Dir(b) EXCEPT !.eval = Id(b)])
  /\ \E status \in {"eval_failed", "exception"} : Fails(b, status)
  /\ UNCHANGED <<Around, proc>>

-----------------------------------------------------------------------------
(* finalize_profile_after_stop.                                            *)

\* The pool is stopped, if there is one on record; a verified stop is true
\* (ForkBroker).
FinalStop(b) ==
  /\ At(b, "finally")
  /\ \E verified \in {TRUE, b \notin Failing} :
       LET stopped == Item(b).pool /\ verified  ok == Item(b).status = "ok"
       IN  /\ proc' = IF stopped THEN [proc EXCEPT ![Id(b)] = Gone] ELSE proc
           /\ Go(b, IF ok /\ stopped THEN "manifest" ELSE "row",
                 [Item(b) EXCEPT !.stopped = stopped,
                                 !.status = IF ok /\ ~stopped THEN "stop_failed" ELSE @])
  /\ UNCHANGED <<Around, shelf>>

Manifest(item) ==
  [profile |-> item.profile, sha |-> item.sha, closure |-> item.closure,
   bundle |-> item.bundle, inventory |-> item.inventory, smoke |-> item.smoke]

\* snapshot_runtime_compatibility: the broker runtime in the image is one that was
\* reviewed; platform, kernel and packages do not change.
RuntimeReviewed(m) == m.bundle \in Reviewed

\* validate_snapshot_manifest: there, of a reviewed runtime, its sources unchanged.
ManifestValid(m) == m # None /\ RuntimeReviewed(m) /\ ClosureValid(m.closure)

InventoryTrue(m, dir) == m.inventory # None /\ m.inventory = dir.image.by

\* The closure and the image files are digested once more.
WriteManifest(b) ==
  /\ At(b, "manifest")
  /\ IF ClosureValid(Item(b).closure) /\ InventoryTrue(Manifest(Item(b)), Dir(b))
     THEN /\ SetDir(b, [Dir(b) EXCEPT !.manifest = Manifest(Item(b))])
          /\ Go(b, "written", Item(b))
     ELSE Go(b, "row", [Item(b) EXCEPT !.status = "exception"]) /\ UNCHANGED shelf
  /\ UNCHANGED <<Around, proc>>

\* validate_authoring_shelf_manifest, and its projection into the row.
ValidateManifest(b) ==
  /\ At(b, "written")
  /\ Go(b, "row", IF ManifestValid(Dir(b).manifest)
                  THEN [Item(b) EXCEPT !.projection = Dir(b).manifest]
                  ELSE [Item(b) EXCEPT !.status = "exception"])
  /\ UNCHANGED <<Around, proc, shelf>>

\* A pool that did not start ends this profile, any other failure the build.
AppendRow(b) ==
  /\ At(b, "row")
  /\ LET more == Item(b).status \in {"ok", "pool_start_failed"}
                   /\ build[b].i < Len(build[b].plan)
     IN  build' = [build EXCEPT ![b].pc = IF more THEN "profile" ELSE "batch",
                                ![b].i = IF more THEN @ + 1 ELSE @,
                                ![b].rows = Append(@, Item(b)), ![b].item = None]
  /\ UNCHANGED <<Around, proc, shelf>>

-----------------------------------------------------------------------------
(* Publication.                                                            *)

\* build_publication_failures, of one row.
RowPublishable(row, profile, dir) ==
  /\ row.profile = profile /\ row.status = "ok" /\ row.stopped
  /\ row.eval # None /\ row.eval = dir.eval
  /\ ManifestValid(dir.manifest)
  /\ InventoryTrue(dir.manifest, dir)
  /\ row.projection = dir.manifest

Publishable(b) ==
  /\ Len(build[b].rows) = Len(build[b].plan)
  /\ \A i \in DOMAIN build[b].rows :
       RowPublishable(build[b].rows[i], build[b].plan[i],
                      shelf[build[b].root].dirs[build[b].plan[i]])

\* Once for the report, and once more in publish_build_results.
BatchCheck(b) ==
  /\ At(b, "batch") \/ At(b, "publish")
  /\ IF Publishable(b) THEN Go(b, IF At(b, "batch") THEN "publish" ELSE "replace", None)
     ELSE Ends(b, "ended")
  /\ UNCHANGED <<Around, proc, shelf>>

\* The rename that makes the root a shelf.
Replace(b) ==
  /\ At(b, "replace")
  /\ shelf' = [shelf EXCEPT ![build[b].root] = [results |-> build[b].rows, dirs |-> @.dirs]]
  /\ Ends(b, "done")
  /\ UNCHANGED <<Around, proc>>

\* SIGKILL.  Its pools go on.
Kill(b) ==
  /\ b \in Failing /\ build[b].pc \notin {"plan", "ended", "done"}
  /\ Ends(b, "ended")
  /\ UNCHANGED <<Around, proc, shelf>>

-----------------------------------------------------------------------------
(* The warm route.                                                         *)

\* _successful_rows: where they are, by root and place in its results.
RowAt(k) == shelf[k[1]].results[k[2]]
Rows ==
  {k \in (DOMAIN shelf) \X (1..MaxPlan) :
     k[2] \in DOMAIN shelf[k[1]].results /\ RowAt(k).status = "ok"}

Compatible(p) ==
  {k \in Rows : /\ Base[RowAt(k).profile] = Base[p]
                /\ RowAt(k).projection.sha = recipe[Base[p]]
                /\ RowAt(k).projection.bundle \in Reviewed}

\* profile_compatibility: rows of that very profile, or of an alias.
Preferred(p) ==
  LET exact == {k \in Compatible(p) : RowAt(k).profile = p}
  IN  IF exact # {} THEN exact ELSE Compatible(p)

Later(k, j) == k[1] > j[1] \/ (k[1] = j[1] /\ k[2] > j[2])

\* The last of them, sorted by root.
Select(p) ==
  /\ route.pc = "idle"
  /\ \E k \in Preferred(p) :
       /\ \A j \in Preferred(p) \ {k} : Later(k, j)
       /\ route' = [pc |-> "selected", sha |-> recipe[Base[p]], base |-> Base[p],
                    root |-> k[1], profile |-> RowAt(k).profile]
  /\ UNCHANGED <<disk, recipe, changes, build, proc, shelf>>

Selected == shelf[route.root].dirs[route.profile]

\* compatible_profile_row: the manifest itself is validated, and its identity
\* compared; there is no second choice.
Admit ==
  /\ route.pc = "selected"
  /\ ManifestValid(Selected.manifest)
  /\ Selected.manifest.profile = route.profile /\ Selected.manifest.sha = route.sha
  /\ route' = [pc |-> "admitted", sha |-> route.sha, base |-> route.base,
               root |-> route.root, profile |-> route.profile, disk |-> disk]
  /\ UNCHANGED <<disk, recipe, changes, build, proc, shelf>>

RouteEnds ==
  /\ route.pc \in {"selected", "admitted"}
  /\ route' = [pc |-> "idle"]
  /\ UNCHANGED <<disk, recipe, changes, build, proc, shelf>>

-----------------------------------------------------------------------------
\* Somebody edits a source, or the manifest of profiles.
EditFile(f, c) ==
  /\ changes < MaxChanges /\ c # disk[f]
  /\ disk' = [disk EXCEPT ![f] = c] /\ changes' = changes + 1
  /\ UNCHANGED <<recipe, build, proc, shelf, route>>

EditRecipe(x) ==
  /\ changes < MaxChanges
  /\ recipe' = [recipe EXCEPT ![x] = 3 - @] /\ changes' = changes + 1
  /\ UNCHANGED <<disk, build, proc, shelf, route>>

Starting(b) ==
  \/ PreflightRefuses(b) \/ AllocateRoot(b) \/ GuardRefuses(b) \/ BudgetSpent(b)
  \/ \E bundle \in Bundles[b] : StartPool(b, bundle)
  \/ PoolReady(b) \/ PoolStartFails(b) \/ StartTimesOut(b)
Testing(b) ==
  \/ ResolveLoaded(b) \/ ValidateCapture(b) \/ CaptureFails(b)
  \/ Dump(b) \/ DumpFails(b) \/ Inventory(b) \/ StopDumped(b) \/ StopDumpedFails(b)
  \/ Restore(b) \/ RestoreFails(b) \/ Evidence(b) \/ ProbePasses(b) \/ ProbeFails(b)
Publishing(b) ==
  \/ FinalStop(b) \/ WriteManifest(b) \/ ValidateManifest(b) \/ AppendRow(b)
  \/ BatchCheck(b) \/ Replace(b)

BuildNext ==
  \/ \E b \in Builds : Starting(b) \/ Testing(b) \/ Publishing(b) \/ Kill(b)
  \/ \E k \in Pools : LoadFile(k) \/ OrphanEnds(k)
  \/ \E p \in Profiles : Select(p)
  \/ Admit \/ RouteEnds
  \/ \E f \in Files, c \in Contents \cup {0} : EditFile(f, c)
  \/ \E x \in DOMAIN recipe : EditRecipe(x)

BuildSpec == BuildInit /\ [][BuildNext]_buildVars

-----------------------------------------------------------------------------
(* Properties.                                                             *)

\* What the route can find is complete and tested: some build's whole plan,
\* every profile with the image that its own probe ran, and no process of
\* those pools left (main, finalize_profile_after_stop, build_publication_failures).
PublishedIsTested ==
  \A r \in DOMAIN shelf : shelf[r].results # None =>
    \E b \in Builds :
      /\ build[b].root = r /\ shelf[r].results = build[b].rows
      /\ Len(build[b].rows) = Len(build[b].plan)
      /\ \A i \in DOMAIN build[b].rows :
           LET row == build[b].rows[i]  dir == shelf[r].dirs[build[b].plan[i]]
           IN  /\ row.profile = build[b].plan[i]
               /\ row.smoke = <<b, i>> /\ dir.image.by = row.smoke
               /\ proc[<<b, i>>].st = "gone"

\* An admitted image is the recipe's of this checkout, and every source it
\* loaded is, at admission, on disk with the bytes it loaded, at a path the
\* manifest names (compatible_profile_row, validate_snapshot_manifest).
AdmittedMeansSame ==
  route.pc = "admitted" =>
    LET dir == Selected
    IN  /\ dir.manifest.sha = route.sha /\ Base[route.profile] = route.base
        /\ dir.image # None
        /\ \A r \in dir.image.mem :
             \E e \in dir.manifest.closure :
               e.name = r.name /\ e.content = r.content /\ route.disk[e.path] = r.content
=============================================================================

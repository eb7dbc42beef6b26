-------------------------- MODULE PublicationProofs --------------------------
(***************************************************************************)
(* What is published is what was tested or captured.                       *)
(*                                                                         *)
(* ShelfBuild, for every number of builds, every plan and every set of     *)
(* files: a root belongs to one build, so what stands in it at a control   *)
(* point of that build is what that build put there; a row that says ok is *)
(* of the image that the build's own probe ran, and a published root never *)
(* changes again.                                                          *)
(*                                                                         *)
(* SourceClosure, for every tree of sources, every text of its files, every*)
(* edit of them and every limit: a digest is not later than the reading    *)
(* that is analysed, this not later than the end of the capture, and this  *)
(* not later than the copy, whose bytes have the digest; an import of a    *)
(* file that was analysed is recorded or ahead of a visit that goes on; and*)
(* an import is recorded with the place where the child will look for it,  *)
(* since normalising a path below a directory is normalising it by itself. *)
(***************************************************************************)
EXTENDS ShelfBuild, SourceClosure, FiniteSetTheorems, WellFoundedInduction, TLAPS

Names == {Basename[f] : f \in Files}
Bytes == Contents \cup {0}
Loaded == [name : Names, content : Bytes]
Entries == [name : Names, content : Bytes, path : Files]
PoolOrNone == Pools \cup {None}
BundleOrNone == {None} \cup UNION {Bundles[b] : b \in Builds}
Statuses ==
  {"", "ok", "exception", "pool_start_failed", "dump_failed", "post_dump_stop_failed",
   "restore_failed", "restore_evidence_failed", "eval_failed", "stop_failed"}
Manifests ==
  [profile : Profiles, sha : 0..2, closure : SUBSET Entries, bundle : BundleOrNone,
   inventory : PoolOrNone, smoke : PoolOrNone]
Items ==
  [profile : Profiles, status : Statuses, pool : BOOLEAN, sha : 0..2, bundle : BundleOrNone,
   closure : SUBSET Entries, inventory : PoolOrNone, before : SUBSET Pools,
   eval : PoolOrNone, smoke : PoolOrNone, stopped : BOOLEAN,
   projection : Manifests \cup {None}]
Images == [by : PoolOrNone, mem : SUBSET Loaded]
Dirs ==
  [image : Images \cup {None}, logs : SUBSET Pools, eval : PoolOrNone,
   manifest : Manifests \cup {None}]
Roots == [results : Seq(Items), dirs : [Profiles -> Dirs]]

\* A profile of the plan is under way, and what has been done for it.
Dumping == {"start", "capture", "validate", "dump"}
Restoring == {"inventory", "stop", "restore", "evidence", "probe"}
Closing == {"finally", "manifest", "written", "row"}
AtProfile == Dumping \cup Restoring \cup Closing
Batching == {"batch", "publish", "replace", "done"}
Pcs == {"plan", "ended", "profile"} \cup AtProfile \cup Batching

BuildRecs ==
  [pc : Pcs, plan : Seq(Profiles), i : Nat, root : Nat, rows : Seq(Items),
   item : Items \cup {None}]
ProcRecs ==
  [st : {"gone", "loading", "live", "orphan"}, todo : Seq(Files), mem : SUBSET Loaded,
   of : PoolOrNone]

WorldOK ==
  /\ disk \in [Files -> Bytes] /\ recipe \in [Bases -> 1..2]

BuildTypeOK ==
  /\ build \in [Builds -> BuildRecs]
  /\ proc \in [Pools -> ProcRecs]
  /\ shelf \in Seq(Roots)

Working(b) == build[b].pc \notin {"plan", "ended"}

\* A build works in a root of its own, at a profile of its plan.
PlaceAt(b) ==
  /\ build[b].plan \in Plans[b] /\ build[b].root \in 0..Len(shelf)
  /\ Working(b) => build[b].root # 0 /\ build[b].i \in 1..Len(build[b].plan)
  /\ At(b, "plan") => build[b].root = 0
  /\ ~Working(b) => build[b].rows = <<>>
  /\ build[b].pc \in AtProfile \cup {"profile"} => Len(build[b].rows) + 1 = build[b].i
  /\ build[b].pc \in Batching => Len(build[b].rows) <= build[b].i
  /\ build[b].pc \in AtProfile =>
       Item(b) \in Items /\ Item(b).profile = build[b].plan[build[b].i]

RootsApart ==
  \A b, c \in Builds : b # c /\ build[b].root = build[c].root => build[b].root = 0

Covers(closure, mem) ==
  \A r \in mem : \E e \in closure : e.name = r.name /\ e.content = r.content

\* The image is of this pool, and the closure names all that is in it.
ImageOf(dir, k, closure) ==
  dir.image \in Images /\ dir.image.by = k /\ Covers(closure, dir.image.mem)

ProbedOf(item, dir, k) ==
  ImageOf(dir, k, item.closure) /\ item.inventory = k /\ item.smoke = k

\* What the tests of a profile have shown at each control point, of its item, the
\* directory it stands in and its pool k.
TestOf(pc, item, dir, p, k) ==
  /\ pc \in {"capture", "validate", "dump"} => p.st = "live"
  /\ pc \in {"validate", "dump"} => Covers(item.closure, p.mem)
  /\ pc \in Restoring => ImageOf(dir, k, item.closure)
  /\ pc \in Restoring \ {"inventory"} => item.inventory = k
  /\ pc \in {"evidence", "probe"} => p.st = "live" /\ p.of = k
  /\ pc \in Closing /\ item.status = "ok" => ProbedOf(item, dir, k)
  /\ pc \in {"manifest", "written"} => item.status = "ok"
  /\ pc \in Closing \ {"finally"} /\ item.status = "ok" => p.st = "gone"
  /\ pc = "written" => dir.manifest = Manifest(item)
  /\ pc = "row" /\ item.status = "ok" => item.projection = Manifest(item)

TestAt(b) == TestOf(build[b].pc, Item(b), Dir(b), proc[Id(b)], Id(b))

\* A row that says ok: its image, if still there, is the one its probe ran.
RowTrue(row, k, dir) ==
  /\ row.smoke = k /\ row.projection \in Manifests /\ row.projection.inventory = k
  /\ proc[k].st = "gone" /\ dir.image \in Images
  /\ dir.image.by = k => Covers(row.projection.closure, dir.image.mem)

RowsAt(b) ==
  \A j \in DOMAIN build[b].rows :
    build[b].rows[j].status = "ok" =>
      RowTrue(build[b].rows[j], <<b, j>>,
              shelf[build[b].root].dirs[build[b].rows[j].profile])

\* The batch passed its checks: nothing later can change what they saw.
CompleteAt(b) ==
  build[b].pc \in {"publish", "replace", "done"} =>
    /\ Len(build[b].rows) = Len(build[b].plan)
    /\ \A j \in DOMAIN build[b].rows :
         LET row == build[b].rows[j]
             dir == shelf[build[b].root].dirs[row.profile]
         IN  /\ row.profile = build[b].plan[j] /\ row.status = "ok"
             /\ dir.manifest = row.projection /\ dir.image.by = <<b, j>>

BuildAt(b) == PlaceAt(b) /\ TestAt(b) /\ RowsAt(b) /\ CompleteAt(b)

\* A published root is that of a build that is done.
Published ==
  \A r \in DOMAIN shelf : shelf[r].results # None =>
    \E b \in Builds :
      At(b, "done") /\ build[b].root = r /\ shelf[r].results = build[b].rows

\* What the route selected is a row of a published root, and stays it.
RouteAt ==
  route.pc \in {"selected", "admitted"} =>
    /\ route.root \in DOMAIN shelf /\ shelf[route.root].results # None
    /\ Base[route.profile] = route.base
    /\ \E j \in DOMAIN shelf[route.root].results :
         shelf[route.root].results[j].profile = route.profile
    /\ route.pc = "admitted" =>
         /\ Selected.manifest.sha = route.sha
         /\ \A e \in Selected.manifest.closure : route.disk[e.path] = e.content

BuildInv ==
  /\ BuildTypeOK /\ RootsApart /\ Published
  /\ \A b \in Builds : BuildAt(b)

-----------------------------------------------------------------------------
(* What a step may count on.                                               *)

\* A build that works stands at a profile of its plan and in a root of the shelf.
LEMMA Placed ==
  ASSUME BuildTypeOK, NEW b \in Builds, PlaceAt(b), Working(b)
  PROVE  /\ build[b] \in BuildRecs /\ build[b].root \in DOMAIN shelf
         /\ shelf[build[b].root] \in Roots /\ build[b].i \in 1..MaxPlan
         /\ build[b].i \in 1..Len(build[b].plan)
         /\ Id(b) \in Pools /\ proc[Id(b)] \in ProcRecs
         /\ build[b].plan \in Seq(Profiles) /\ Len(build[b].plan) \in 1..MaxPlan
         /\ build[b].plan[build[b].i] \in Profiles
         /\ shelf[build[b].root].dirs[build[b].plan[build[b].i]] \in Dirs
  <1>1. build[b] \in BuildRecs /\ build[b].root \in Nat /\ build[b].i \in Nat
    BY DEF BuildTypeOK, BuildRecs
  <1>2. build[b].plan \in Seq(Profiles) /\ Len(build[b].plan) \in 1..MaxPlan /\ MaxPlan \in Nat
    BY BuildAssumption DEF PlaceAt
  <1>3. build[b].i \in 1..Len(build[b].plan) /\ build[b].root \in 1..Len(shelf)
    BY <1>1 DEF PlaceAt, BuildTypeOK
  <1>4. build[b].root \in DOMAIN shelf /\ shelf[build[b].root] \in Roots
    BY <1>3 DEF BuildTypeOK
  <1>5. build[b].i \in 1..MaxPlan /\ build[b].plan[build[b].i] \in Profiles
    BY <1>2, <1>3
  <1>6. Id(b) \in Pools
    BY <1>5 DEF Id, Pools
  <1>7. shelf[build[b].root].dirs[build[b].plan[build[b].i]] \in Dirs
    BY <1>4, <1>5 DEF Roots
  <1> QED BY <1>1, <1>2, <1>3, <1>4, <1>5, <1>6, <1>7 DEF BuildTypeOK

\* At a profile there is an item of it.
LEMMA AtItem ==
  ASSUME BuildTypeOK, NEW b \in Builds, PlaceAt(b),
         build[b].pc \in AtProfile
  PROVE  /\ Working(b) /\ Item(b) \in Items /\ Item(b).profile \in Profiles
         /\ Item(b).profile = build[b].plan[build[b].i] /\ Dir(b) \in Dirs
  <1>1. Working(b)
    BY DEF Working, AtProfile, Dumping, Restoring, Closing
  <1> QED BY <1>1, Placed DEF PlaceAt, Dir

\* The rows of a build are of pools that its plan has.
LEMMA RowPools ==
  ASSUME BuildTypeOK, NEW b \in Builds, PlaceAt(b),
         NEW j \in DOMAIN build[b].rows
  PROVE  /\ Working(b) /\ <<b, j>> \in Pools /\ build[b].rows[j] \in Items
         /\ j \in 1..Len(build[b].rows) /\ Len(build[b].rows) \in Nat
  <1>1. build[b].rows \in Seq(Items) /\ build[b].i \in Nat /\ build[b].pc \in Pcs
    BY DEF BuildTypeOK, BuildRecs
  <1>2. j \in 1..Len(build[b].rows) /\ Len(build[b].rows) \in Nat /\ build[b].rows[j] \in Items
    BY <1>1
  <1>3. Working(b)
    BY <1>2 DEF PlaceAt
  <1>4. build[b].i \in 1..MaxPlan /\ MaxPlan \in Nat
    BY <1>3, Placed, BuildAssumption
  <1>5. Len(build[b].rows) <= build[b].i
    BY <1>1, <1>2, <1>3 DEF PlaceAt, Working, Pcs
  <1> QED BY <1>2, <1>3, <1>4, <1>5 DEF Pools

\* The processes but k stay, and k's is p.
PoolBecomes(k, p) ==
  /\ proc' \in [Pools -> ProcRecs] /\ proc'[k] = p
  /\ \A j \in Pools \ {k} : proc'[j] = proc[j]

\* The shelf but the directory of profile q in root r stays, and that is dir.
DirBecomes(r, q, dir) ==
  /\ shelf' \in Seq(Roots) /\ Len(shelf') = Len(shelf)
  /\ \A s \in DOMAIN shelf \ {r} : shelf'[s] = shelf[s]
  /\ shelf'[r].results = shelf[r].results
  /\ \A o \in Profiles \ {q} : shelf'[r].dirs[o] = shelf[r].dirs[o]
  /\ shelf'[r].dirs[q] = dir

LEMMA SamePools ==
  ASSUME BuildTypeOK, NEW k \in Pools, proc' = proc
  PROVE  PoolBecomes(k, proc[k])
  BY DEF BuildTypeOK, PoolBecomes

LEMMA OnePool ==
  ASSUME BuildTypeOK, NEW k \in Pools, NEW p \in ProcRecs, proc' = [proc EXCEPT ![k] = p]
  PROVE  PoolBecomes(k, p)
  BY DEF BuildTypeOK, PoolBecomes

LEMMA SameDirs ==
  ASSUME BuildTypeOK, NEW r \in DOMAIN shelf, NEW q \in Profiles, shelf' = shelf
  PROVE  DirBecomes(r, q, shelf[r].dirs[q])
  BY DEF BuildTypeOK, DirBecomes

LEMMA OneDir ==
  ASSUME BuildTypeOK, NEW r \in DOMAIN shelf, NEW q \in Profiles, NEW dir \in Dirs,
         shelf' = [shelf EXCEPT ![r] =
                    [results |-> @.results, dirs |-> [@.dirs EXCEPT ![q] = dir]]]
  PROVE  DirBecomes(r, q, dir)
  <1>0. shelf[r] \in Roots
    BY DEF BuildTypeOK
  <1>1. shelf[r] \in Roots /\ shelf[r].dirs \in [Profiles -> Dirs]
    BY <1>0 DEF Roots
  <1>2. shelf'[r] = [results |-> shelf[r].results, dirs |-> [shelf[r].dirs EXCEPT ![q] = dir]]
    BY DEF BuildTypeOK
  <1>3. /\ [shelf[r].dirs EXCEPT ![q] = dir] \in [Profiles -> Dirs]
        /\ [shelf[r].dirs EXCEPT ![q] = dir][q] = dir
        /\ \A o \in Profiles \ {q} : [shelf[r].dirs EXCEPT ![q] = dir][o] = shelf[r].dirs[o]
    BY <1>1
  <1>4. /\ shelf'[r] \in Roots /\ shelf'[r].results = shelf[r].results
        /\ shelf'[r].dirs = [shelf[r].dirs EXCEPT ![q] = dir]
    BY <1>1, <1>2, <1>3 DEF Roots
  <1>5. shelf' \in Seq(Roots) /\ Len(shelf') = Len(shelf)
    <2>1. ASSUME NEW new \in Roots, shelf' = [shelf EXCEPT ![r] = new]
          PROVE  shelf' \in Seq(Roots) /\ Len(shelf') = Len(shelf)
      BY <2>1 DEF BuildTypeOK
    <2>2. shelf' = [shelf EXCEPT ![r] = shelf'[r]]
      BY <1>2
    <2> QED BY <1>4, <2>1, <2>2
  <1> QED BY <1>3, <1>4, <1>5 DEF BuildTypeOK, DirBecomes

-----------------------------------------------------------------------------
(* A step of one build leaves the others where they were.                  *)

\* Only the pools of b, its root and its own record may have changed.
OthersStay(b) ==
  /\ build' \in [Builds -> BuildRecs] /\ \A c \in Builds \ {b} : build'[c] = build[c]
  /\ \A k \in Pools : k[1] # b => proc'[k] = proc[k]
  /\ Len(shelf') = Len(shelf)
  /\ \A r \in DOMAIN shelf : r # build[b].root => shelf'[r] = shelf[r]

\* What holds of a build rests on its record, its quiet or running pools and its root.
LEMMA Untouched ==
  ASSUME BuildTypeOK, NEW c \in Builds, BuildAt(c),
         build'[c] = build[c], Len(shelf') \in Nat, Len(shelf) <= Len(shelf'),
         Working(c) => shelf'[build[c].root] = shelf[build[c].root],
         \A k \in Pools : k[1] = c /\ proc[k].st \in {"gone", "live"} => proc'[k] = proc[k]
  PROVE  BuildAt(c)'
  <1>1. PlaceAt(c)'
    <2>1. build[c].root \in 0..Len(shelf')
      BY DEF BuildAt, PlaceAt, BuildTypeOK, BuildRecs
    <2> QED BY <2>1 DEF BuildAt, PlaceAt, Working, At, Item
  <1>2. TestAt(c)'
    <2>1. CASE build[c].pc \notin AtProfile
      BY <2>1 DEF TestAt, TestOf, AtProfile, Dumping, Restoring, Closing
    <2>2. CASE build[c].pc \in AtProfile
      <3>1. Working(c) /\ Item(c)' = Item(c) /\ Id(c)' = Id(c) /\ Id(c) \in Pools
        BY <2>2, AtItem, Placed DEF BuildAt, Item, Id
      <3>2. Dir(c)' = Dir(c)
        BY <3>1 DEF Dir, Item
      <3>3. Id(c)[1] = c
        BY DEF Id
      <3>4. proc[Id(c)].st \in {"gone", "live"} => proc'[Id(c)] = proc[Id(c)]
        BY <3>1, <3>3
      <3>5. TestOf(build[c].pc, Item(c), Dir(c), proc[Id(c)], Id(c))
        BY DEF BuildAt, TestAt
      <3>6. TestOf(build[c].pc, Item(c), Dir(c), proc'[Id(c)], Id(c))
        BY <3>4, <3>5 DEF TestOf, Closing
      <3> QED BY <3>1, <3>2, <3>6 DEF TestAt
    <2> QED BY <2>1, <2>2
  <1>3. RowsAt(c)'
    <2> SUFFICES ASSUME NEW j \in DOMAIN build[c].rows, build[c].rows[j].status = "ok"
                 PROVE  RowTrue(build[c].rows[j], <<c, j>>,
                          shelf[build[c].root].dirs[build[c].rows[j].profile])'
      BY DEF RowsAt
    <2>1. Working(c) /\ <<c, j>> \in Pools
      BY RowPools DEF BuildAt
    <2>2. RowTrue(build[c].rows[j], <<c, j>>,
                  shelf[build[c].root].dirs[build[c].rows[j].profile])
      BY DEF BuildAt, RowsAt
    <2>3. proc'[<<c, j>>] = proc[<<c, j>>]
      BY <2>1, <2>2 DEF RowTrue
    <2> QED BY <2>1, <2>2, <2>3 DEF RowTrue
  <1>4. CompleteAt(c)'
    <2>1. CASE Working(c)
      <3>1. shelf'[build[c].root].dirs = shelf[build[c].root].dirs
        BY <2>1
      <3> DEFINE Checked(dirs) ==
            /\ Len(build[c].rows) = Len(build[c].plan)
            /\ \A j \in DOMAIN build[c].rows :
                 LET row == build[c].rows[j]
                 IN  /\ row.profile = build[c].plan[j] /\ row.status = "ok"
                     /\ dirs[row.profile].manifest = row.projection
                     /\ dirs[row.profile].image.by = <<c, j>>
      <3>2. build[c].pc \in {"publish", "replace", "done"} => Checked(shelf[build[c].root].dirs)
        BY DEF BuildAt, CompleteAt
      <3>3. Checked(shelf'[build[c].root].dirs) => CompleteAt(c)'
        BY DEF CompleteAt
      <3>4. build[c].pc \notin {"publish", "replace", "done"} => CompleteAt(c)'
        BY DEF CompleteAt
      <3> HIDE DEF Checked
      <3> QED BY <3>1, <3>2, <3>3, <3>4
    <2>2. CASE ~Working(c)
      BY <2>2 DEF CompleteAt, Working
    <2> QED BY <2>1, <2>2
  <1> QED BY <1>1, <1>2, <1>3, <1>4 DEF BuildAt

\* A build that is not done changes no published root.
LEMMA OwnStep ==
  ASSUME BuildInv, NEW b \in Builds, ~At(b, "done"),
         BuildTypeOK', BuildAt(b)', OthersStay(b), build'[b].root = build[b].root,
         build[b].root # 0 => shelf'[build[b].root].results = shelf[build[b].root].results
  PROVE  BuildInv'
  <1> USE DEF BuildInv
  <1>1. RootsApart'
    BY DEF RootsApart, OthersStay
  <1>2. ASSUME NEW c \in Builds PROVE BuildAt(c)'
    <2>1. CASE c = b
      BY <2>1
    <2>2. CASE c # b
      <3>1. build'[c] = build[c] /\ BuildAt(c) /\ Len(shelf') = Len(shelf) /\ Len(shelf) \in Nat
        BY <2>2 DEF OthersStay, BuildTypeOK
      <3>2. Working(c) => shelf'[build[c].root] = shelf[build[c].root]
        <4> SUFFICES ASSUME Working(c) PROVE shelf'[build[c].root] = shelf[build[c].root]
          OBVIOUS
        <4>1. build[c].root \in DOMAIN shelf /\ build[c].root # 0
          BY <3>1, Placed DEF BuildAt, PlaceAt
        <4>2. build[c].root # build[b].root
          BY <2>2, <4>1 DEF RootsApart
        <4> QED BY <4>1, <4>2 DEF OthersStay
      <3>3. \A k \in Pools : k[1] = c => proc'[k] = proc[k]
        BY <2>2 DEF OthersStay
      <3> QED BY <3>1, <3>2, <3>3, Untouched
    <2> QED BY <2>1, <2>2
  <1>3. Published'
    <2> SUFFICES ASSUME NEW r \in DOMAIN shelf', shelf'[r].results # None
                 PROVE  \E c \in Builds : /\ build'[c].pc = "done" /\ build'[c].root = r
                                          /\ shelf'[r].results = build'[c].rows
      BY DEF Published, At
    <2>1. DOMAIN shelf' = DOMAIN shelf /\ r \in DOMAIN shelf /\ r # 0
      BY DEF OthersStay, BuildTypeOK
    <2>2. shelf'[r].results = shelf[r].results
      BY <2>1 DEF OthersStay
    <2>3. PICK c \in Builds : At(c, "done") /\ build[c].root = r /\ shelf[r].results = build[c].rows
      BY <2>1, <2>2 DEF Published
    <2>4. build'[c] = build[c]
      BY <2>3 DEF OthersStay
    <2> QED BY <2>2, <2>3, <2>4 DEF At
  <1> QED BY <1>1, <1>2, <1>3

-----------------------------------------------------------------------------
(* A step at a profile: its item, its directory, its pool.                 *)

\* Control point and item change, the rest of the record stays.
LEMMA Goes ==
  ASSUME BuildTypeOK, NEW b \in Builds, NEW pc \in Pcs, NEW item \in Items \cup {None},
         Go(b, pc, item)
  PROVE  /\ build' \in [Builds -> BuildRecs] /\ \A c \in Builds \ {b} : build'[c] = build[c]
         /\ build'[b].pc = pc /\ build'[b].item = item /\ build'[b].i = build[b].i
         /\ build'[b].plan = build[b].plan /\ build'[b].root = build[b].root
         /\ build'[b].rows = build[b].rows
  BY DEF BuildTypeOK, BuildRecs, Go

\* The controllers' rows, and the item, are ended or kept.
LEMMA Ended ==
  ASSUME BuildTypeOK, NEW b \in Builds, Ends(b, "ended")
  PROVE  /\ build' \in [Builds -> BuildRecs] /\ \A c \in Builds \ {b} : build'[c] = build[c]
         /\ build'[b].pc = "ended" /\ build'[b].item = None /\ build'[b].i = build[b].i
         /\ build'[b].plan = build[b].plan /\ build'[b].root = build[b].root
         /\ build'[b].rows = <<>>
  <1>1. <<>> \in Seq(Items) /\ "ended" \in Pcs
    BY DEF Pcs
  <1> QED BY <1>1 DEF BuildTypeOK, BuildRecs, Ends

\* A step that keeps to the profile's item, directory and pool keeps the invariant
\* if the tests still show what the next control point needs.
LEMMA ProfileStep ==
  ASSUME BuildInv, NEW b \in Builds,
         build[b].pc \in AtProfile \cup {"profile"},
         NEW pc \in AtProfile, NEW item \in Items, NEW dir \in Dirs, NEW p \in ProcRecs,
         item.profile = build[b].plan[build[b].i], Go(b, pc, item),
         PoolBecomes(Id(b), p), DirBecomes(build[b].root, item.profile, dir),
         \/ dir.image = shelf[build[b].root].dirs[item.profile].image
         \/ dir.image \in Images /\ dir.image.by \in {Id(b), None},
         TestOf(pc, item, dir, p, Id(b))
  PROVE  BuildInv'
  <1>1. /\ BuildTypeOK /\ PlaceAt(b) /\ RowsAt(b) /\ Working(b) /\ ~At(b, "done")
        /\ pc \in Pcs /\ pc \notin {"plan", "ended"} \cup Batching
    BY DEF BuildInv, BuildAt, Working, At, Pcs, AtProfile, Dumping, Restoring, Closing, Batching
  <1>2. /\ build' \in [Builds -> BuildRecs] /\ \A c \in Builds \ {b} : build'[c] = build[c]
        /\ build'[b].pc = pc /\ build'[b].item = item /\ build'[b].i = build[b].i
        /\ build'[b].plan = build[b].plan /\ build'[b].root = build[b].root
        /\ build'[b].rows = build[b].rows
    BY <1>1, Goes
  <1>3. /\ build[b].root \in DOMAIN shelf /\ build[b].i \in 1..MaxPlan /\ Id(b) \in Pools
        /\ build[b].i \in 1..Len(build[b].plan) /\ item.profile \in Profiles
        /\ build[b].root # 0 /\ build[b].rows \in Seq(Items)
        /\ Len(build[b].rows) + 1 = build[b].i
    BY <1>1, Placed DEF PlaceAt, BuildRecs
  <1>4. Id(b)' = Id(b) /\ Item(b)' = item /\ Dir(b)' = dir /\ proc'[Id(b)] = p
    BY <1>2 DEF Id, Item, Dir, PoolBecomes, DirBecomes
  <1>5. /\ shelf' \in Seq(Roots) /\ Len(shelf') = Len(shelf) /\ proc' \in [Pools -> ProcRecs]
        /\ \A r \in DOMAIN shelf : r # build[b].root => shelf'[r] = shelf[r]
        /\ shelf'[build[b].root].results = shelf[build[b].root].results
        /\ \A k \in Pools : k[1] # b => proc'[k] = proc[k]
    <2>1. /\ shelf' \in Seq(Roots) /\ Len(shelf') = Len(shelf)
          /\ \A r \in DOMAIN shelf \ {build[b].root} : shelf'[r] = shelf[r]
          /\ shelf'[build[b].root].results = shelf[build[b].root].results
      BY Zenon DEF DirBecomes
    <2>2. proc' \in [Pools -> ProcRecs] /\ \A k \in Pools \ {Id(b)} : proc'[k] = proc[k]
      BY Zenon DEF PoolBecomes
    <2>3. Id(b)[1] = b
      BY DEF Id
    <2> QED BY <2>1, <2>2, <2>3
  <1>6. BuildTypeOK' /\ OthersStay(b)
    BY <1>2, <1>5 DEF BuildTypeOK, OthersStay
  <1>7. PlaceAt(b)'
    <2>1. build[b].plan \in Plans[b] /\ build[b].root \in 0..Len(shelf)
      BY <1>1 DEF PlaceAt
    <2>2. pc \notin {"plan", "ended"} \cup Batching
      BY <1>1
    <2> QED BY <1>2, <1>3, <1>4, <1>5, <2>1, <2>2 DEF PlaceAt, Working, At
  <1>8. TestAt(b)'
    BY <1>2, <1>4 DEF TestAt
  <1>9. RowsAt(b)'
    <2> SUFFICES ASSUME NEW j \in DOMAIN build[b].rows, build[b].rows[j].status = "ok"
                 PROVE  RowTrue(build[b].rows[j], <<b, j>>,
                          shelf[build[b].root].dirs[build[b].rows[j].profile])'
      BY <1>2 DEF RowsAt
    <2> DEFINE q == build[b].rows[j].profile
               was == shelf[build[b].root].dirs[q]
               is == shelf'[build[b].root].dirs[q]
    <2>1. /\ <<b, j>> \in Pools /\ build[b].rows[j] \in Items /\ j \in 1..Len(build[b].rows)
          /\ Len(build[b].rows) \in Nat
      BY <1>1, RowPools
    <2>2. j # build[b].i /\ <<b, j>> # Id(b) /\ q \in Profiles
      BY <1>3, <2>1 DEF Id, Items
    <2>3. RowTrue(build[b].rows[j], <<b, j>>, was)
      BY <1>1 DEF RowsAt
    <2>4. proc'[<<b, j>>] = proc[<<b, j>>]
      BY <2>1, <2>2 DEF PoolBecomes
    <2>5. \/ is.image = was.image
          \/ is.image \in Images /\ is.image.by # <<b, j>>
      <3>1. CASE q # item.profile
        BY <2>2, <3>1 DEF DirBecomes
      <3>2. CASE q = item.profile
        <4>1. is = dir
          BY <3>2 DEF DirBecomes
        <4>2. None # <<b, j>>
          BY DEF None
        <4> QED BY <2>2, <3>2, <4>1, <4>2
      <3> QED BY <3>1, <3>2
    <2> QED BY <1>2, <2>3, <2>4, <2>5 DEF RowTrue
  <1>10. CompleteAt(b)'
    BY <1>1, <1>2 DEF CompleteAt, Batching
  <1> QED BY <1>1, <1>2, <1>5, <1>6, <1>7, <1>8, <1>9, <1>10, OwnStep DEF BuildAt

-----------------------------------------------------------------------------
(* The steps of a profile.                                                 *)

\* What a step at a profile starts from.
LEMMA AtWork ==
  ASSUME BuildInv, NEW b \in Builds, build[b].pc \in AtProfile
  PROVE  /\ BuildTypeOK /\ Id(b) \in Pools /\ proc[Id(b)] \in ProcRecs
         /\ Item(b) \in Items /\ Item(b).profile \in Profiles
         /\ Item(b).profile = build[b].plan[build[b].i]
         /\ build[b].root \in DOMAIN shelf /\ Dir(b) \in Dirs
         /\ Dir(b) = shelf[build[b].root].dirs[Item(b).profile]
         /\ TestOf(build[b].pc, Item(b), Dir(b), proc[Id(b)], Id(b))
  <1>1. BuildTypeOK /\ PlaceAt(b) /\ TestAt(b)
    BY DEF BuildInv, BuildAt
  <1> QED BY <1>1, AtItem, Placed DEF TestAt, Dir

\* A failure is of a status that is not ok: nothing rests on its tests.
LEMMA FailStep ==
  ASSUME BuildInv, NEW b \in Builds, build[b].pc \in AtProfile,
         NEW status \in Statuses \ {"ok"}, Fails(b, status),
         NEW p \in ProcRecs, PoolBecomes(Id(b), p),
         NEW dir \in Dirs, DirBecomes(build[b].root, Item(b).profile, dir),
         dir.image = Dir(b).image \/ (dir.image \in Images /\ dir.image.by \in {Id(b), None})
  PROVE  BuildInv'
  <1> DEFINE item == [Item(b) EXCEPT !.status = status]
  <1>1. /\ Item(b) \in Items /\ Item(b).profile = build[b].plan[build[b].i]
        /\ Dir(b) = shelf[build[b].root].dirs[Item(b).profile]
    BY AtWork
  <1>2. item \in Items /\ item.profile = Item(b).profile /\ item.status # "ok"
    BY <1>1 DEF Items
  <1>3. "finally" \in AtProfile /\ "finally" \notin Restoring
    BY DEF AtProfile, Closing, Restoring
  <1>4. TestOf("finally", item, dir, p, Id(b))
    BY <1>2, <1>3 DEF TestOf
  <1>5. Go(b, "finally", item)
    BY DEF Fails
  <1> HIDE DEF item
  <1> QED BY <1>1, <1>2, <1>3, <1>4, <1>5, ProfileStep

\* A failure that leaves directory and pool alone.
LEMMA PlainFailStep ==
  ASSUME BuildInv, NEW b \in Builds, build[b].pc \in AtProfile,
         NEW status \in Statuses \ {"ok"}, Fails(b, status), UNCHANGED <<proc, shelf>>
  PROVE  BuildInv'
  BY AtWork, SamePools, SameDirs, FailStep

\* A step that changes only the control point and what the item records.
LEMMA ItemStep ==
  ASSUME BuildInv, NEW b \in Builds, build[b].pc \in AtProfile,
         NEW pc \in AtProfile, NEW item \in Items, item.profile = Item(b).profile,
         Go(b, pc, item), UNCHANGED <<proc, shelf>>,
         TestOf(pc, item, Dir(b), proc[Id(b)], Id(b))
  PROVE  BuildInv'
  <1>1. /\ BuildTypeOK /\ Id(b) \in Pools /\ proc[Id(b)] \in ProcRecs
        /\ item.profile = build[b].plan[build[b].i] /\ Item(b).profile \in Profiles
        /\ build[b].root \in DOMAIN shelf /\ Dir(b) \in Dirs
        /\ Dir(b) = shelf[build[b].root].dirs[item.profile]
    BY AtWork
  <1>2. /\ PoolBecomes(Id(b), proc[Id(b)])
        /\ DirBecomes(build[b].root, item.profile, Dir(b))
    BY <1>1, SamePools, SameDirs
  <1> QED BY <1>1, <1>2, ProfileStep

\* A pool has loaded nothing, and its basis nothing to load.
LEMMA GoneType == Gone \in ProcRecs /\ Gone.st = "gone"
  BY DEF Gone, ProcRecs, PoolOrNone

\* A new item has the profile of the plan, and no tests.
LEMMA NewItemType ==
  ASSUME NEW p \in Profiles
  PROVE  NewItem(p) \in Items /\ NewItem(p).profile = p
  <1>1. None \in PoolOrNone /\ None \in BundleOrNone /\ "" \in Statuses
    BY DEF PoolOrNone, BundleOrNone, Statuses
  <1>2. 0 \in 0..2 /\ {} \in SUBSET Entries /\ {} \in SUBSET Pools /\ FALSE \in BOOLEAN
    OBVIOUS
  <1>3. ASSUME NEW st, st \in Statuses, NEW none, none \in PoolOrNone, none \in BundleOrNone,
               NEW sha \in 0..2, NEW yes \in BOOLEAN
        PROVE  [profile |-> p, status |-> st, pool |-> yes, sha |-> sha, bundle |-> none,
                closure |-> {}, inventory |-> none, before |-> {}, eval |-> none,
                smoke |-> none, stopped |-> yes, projection |-> None] \in Items
    BY <1>3 DEF Items
  <1> QED BY <1>1, <1>2, <1>3 DEF NewItem

\* A profile begins, with or without a pool.
LEMMA ProfileBegins ==
  ASSUME WorldOK, BuildInv, NEW b \in Builds,
         (\E bundle \in Bundles[b] : StartPool(b, bundle)) \/ GuardRefuses(b)
  PROVE  BuildInv'
  <1> DEFINE profile == build[b].plan[build[b].i]
             dir == shelf[build[b].root].dirs[profile]
  <1>1. /\ BuildTypeOK /\ At(b, "profile") /\ build[b].pc \in AtProfile \cup {"profile"}
    BY DEF BuildInv, StartPool, GuardRefuses, At
  <1>2. /\ Id(b) \in Pools /\ proc[Id(b)] \in ProcRecs /\ build[b].root \in DOMAIN shelf
        /\ profile \in Profiles /\ dir \in Dirs
    BY <1>1, Placed DEF BuildInv, BuildAt, Working, At
  <1>3. NewItem(profile) \in Items /\ NewItem(profile).profile = profile
    BY <1>2, NewItemType
  <1>4. CASE GuardRefuses(b)
    <2> DEFINE item == [NewItem(profile) EXCEPT !.status = "exception"]
    <2>1. item \in Items /\ item.profile = profile /\ item.status = "exception"
      BY <1>3 DEF Items, Statuses
    <2>2. Go(b, "finally", item) /\ UNCHANGED <<proc, shelf>>
      BY <1>4 DEF GuardRefuses
    <2>3. "finally" \in AtProfile /\ TestOf("finally", item, dir, proc[Id(b)], Id(b))
      BY <2>1 DEF AtProfile, Closing, Restoring, TestOf
    <2>4. PoolBecomes(Id(b), proc[Id(b)]) /\ DirBecomes(build[b].root, profile, dir)
      BY <1>1, <1>2, <2>2, SamePools, SameDirs
    <2> HIDE DEF item
    <2> QED BY <1>1, <1>2, <2>1, <2>2, <2>3, <2>4, ProfileStep
  <1>5. ASSUME NEW bundle \in Bundles[b], StartPool(b, bundle) PROVE BuildInv'
    <2> DEFINE v == recipe[Base[profile]]
               item == [NewItem(profile) EXCEPT !.sha = v, !.bundle = bundle]
               p == [st |-> "loading", todo |-> LoadOrder[Base[profile]][v],
                     mem |-> {}, of |-> None]
    <2>1. Base[profile] \in Bases /\ v \in 1..2 /\ bundle \in BundleOrNone
      BY <1>2 DEF WorldOK, Bases, BundleOrNone
    <2>2. item \in Items /\ item.profile = profile
      <3>1. v \in 0..2
        BY <2>1
      <3> HIDE DEF v
      <3> QED BY <1>3, <2>1, <3>1 DEF Items
    <2>3. p \in ProcRecs
      BY <2>1, BuildAssumption DEF ProcRecs, PoolOrNone
    <2>4. Go(b, "start", item) /\ proc' = [proc EXCEPT ![Id(b)] = p] /\ shelf' = shelf
      BY <1>5 DEF StartPool
    <2>5. "start" \in AtProfile /\ TestOf("start", item, dir, p, Id(b))
      BY DEF AtProfile, Dumping, Closing, Restoring, TestOf
    <2> HIDE DEF item, p
    <2>6. PoolBecomes(Id(b), p) /\ DirBecomes(build[b].root, profile, dir)
      BY <1>1, <1>2, <2>3, <2>4, OnePool, SameDirs
    <2> QED BY <1>1, <1>2, <2>2, <2>3, <2>4, <2>5, <2>6, ProfileStep
  <1> QED BY <1>4, <1>5

\* The basis has loaded, or it has not.
LEMMA StartSteps ==
  ASSUME BuildInv, NEW b \in Builds,
         PoolReady(b) \/ PoolStartFails(b) \/ StartTimesOut(b)
  PROVE  BuildInv'
  <1>1. build[b].pc \in AtProfile
    BY DEF PoolReady, PoolStartFails, StartTimesOut, At, AtProfile, Dumping
  <1>2. /\ BuildTypeOK /\ Id(b) \in Pools /\ proc[Id(b)] \in ProcRecs /\ Item(b) \in Items
        /\ Item(b).profile \in Profiles /\ Item(b).profile = build[b].plan[build[b].i]
        /\ build[b].root \in DOMAIN shelf /\ Dir(b) \in Dirs
        /\ Dir(b) = shelf[build[b].root].dirs[Item(b).profile]
    BY <1>1, AtWork
  <1>3. CASE PoolReady(b)
    <2> DEFINE item == [Item(b) EXCEPT !.pool = TRUE]
               p == [proc[Id(b)] EXCEPT !.st = "live"]
    <2>1. p \in ProcRecs /\ p.st = "live"
      BY <1>2 DEF ProcRecs
    <2>2. item \in Items /\ item.profile = Item(b).profile
      BY <1>2 DEF Items
    <2>3. Go(b, "capture", item) /\ proc' = [proc EXCEPT ![Id(b)] = p] /\ shelf' = shelf
      BY <1>3 DEF PoolReady, Becomes
    <2>4. "capture" \in AtProfile /\ TestOf("capture", item, Dir(b), p, Id(b))
      BY <2>1 DEF AtProfile, Dumping, Closing, Restoring, TestOf
    <2> HIDE DEF item, p
    <2>5. PoolBecomes(Id(b), p) /\ DirBecomes(build[b].root, item.profile, Dir(b))
      BY <1>2, <2>1, <2>2, <2>3, OnePool, SameDirs
    <2> QED BY <1>1, <1>2, <2>1, <2>2, <2>3, <2>4, <2>5, ProfileStep
  <1>4. CASE PoolStartFails(b)
    <2>1. PICK p \in ProcRecs : proc' = [proc EXCEPT ![Id(b)] = p]
      <3>1. CASE proc[Id(b)].st = "gone"
        BY <1>4, <3>1, GoneType DEF PoolStartFails, Becomes
      <3>2. CASE proc[Id(b)].st # "gone"
        <4>1. [proc[Id(b)] EXCEPT !.st = "orphan"] \in ProcRecs
          BY <1>2 DEF ProcRecs
        <4> QED BY <1>4, <3>2, <4>1 DEF PoolStartFails, Becomes
      <3> QED BY <3>1, <3>2
    <2>2. "pool_start_failed" \in Statuses \ {"ok"}
      BY DEF Statuses
    <2>3. Fails(b, "pool_start_failed") /\ shelf' = shelf
      BY <1>4 DEF PoolStartFails
    <2>4. PoolBecomes(Id(b), p) /\ DirBecomes(build[b].root, Item(b).profile, Dir(b))
      BY <1>2, <2>1, <2>3, OnePool, SameDirs
    <2> QED BY <1>1, <1>2, <2>2, <2>3, <2>4, FailStep
  <1>5. CASE StartTimesOut(b)
    BY <1>1, <1>5, PlainFailStep DEF StartTimesOut, Statuses
  <1> QED BY <1>3, <1>4, <1>5

\* What resolves is named entry by entry, and the names lie among the files.
LEMMA ClosureNames ==
  ASSUME WorldOK, NEW mem \in SUBSET Loaded, Resolved(mem)
  PROVE  Closure(mem) \in SUBSET Entries /\ Covers(Closure(mem), mem)
  <1>1. ASSUME NEW r \in mem PROVE (CHOOSE f \in Matching(r) : TRUE) \in Files
    <2>1. Cardinality(Matching(r)) = 1 /\ Matching(r) \subseteq Files
      BY DEF Resolved, Matching
    <2>2. Matching(r) # {}
      BY <2>1, FS_EmptySet
    <2>3. \E f : f \in Matching(r)
      BY <2>2
    <2>4. (CHOOSE f \in Matching(r) : TRUE) \in Matching(r)
      BY <2>3
    <2> QED BY <2>1, <2>4
  <1>2. Closure(mem) \in SUBSET Entries
    <2>1. ASSUME NEW r \in mem
          PROVE  [name |-> r.name, content |-> r.content,
                  path |-> CHOOSE f \in Matching(r) : TRUE] \in Entries
      <3>1. r.name \in Names /\ r.content \in Bytes
        BY DEF Loaded
      <3> QED BY <1>1, <3>1 DEF Entries
    <2> QED BY <2>1 DEF Closure
  <1>3. Covers(Closure(mem), mem)
    <2> SUFFICES ASSUME NEW r \in mem
                 PROVE  \E e \in Closure(mem) : e.name = r.name /\ e.content = r.content
      BY DEF Covers
    <2> DEFINE entry == [name |-> r.name, content |-> r.content,
                         path |-> CHOOSE f \in Matching(r) : TRUE]
    <2>1. entry \in Closure(mem)
      BY DEF Closure
    <2>2. entry.name = r.name /\ entry.content = r.content
      OBVIOUS
    <2> QED BY <2>1, <2>2
  <1> QED BY <1>2, <1>3

\* What the basis loaded is resolved and validated, or the capture fails.
LEMMA CaptureSteps ==
  ASSUME WorldOK, BuildInv, NEW b \in Builds,
         ResolveLoaded(b) \/ ValidateCapture(b) \/ CaptureFails(b)
  PROVE  BuildInv'
  <1>1. build[b].pc \in AtProfile
    BY DEF ResolveLoaded, ValidateCapture, CaptureFails, At, AtProfile, Dumping
  <1>2. /\ BuildTypeOK /\ proc[Id(b)] \in ProcRecs /\ Item(b) \in Items
        /\ TestOf(build[b].pc, Item(b), Dir(b), proc[Id(b)], Id(b))
    BY <1>1, AtWork
  <1>3. CASE ResolveLoaded(b)
    <2> DEFINE item == [Item(b) EXCEPT !.closure = Closure(proc[Id(b)].mem)]
    <2>1. proc[Id(b)].mem \in SUBSET Loaded /\ Resolved(proc[Id(b)].mem)
      BY <1>2, <1>3 DEF ResolveLoaded, ProcRecs
    <2>2. Closure(proc[Id(b)].mem) \in SUBSET Entries
      BY <2>1, ClosureNames
    <2>3. /\ item \in Items /\ item.profile = Item(b).profile
          /\ item.closure = Closure(proc[Id(b)].mem)
      BY <1>2, <2>2 DEF Items
    <2>4. Covers(item.closure, proc[Id(b)].mem)
      BY <2>1, <2>3, ClosureNames
    <2>5. Go(b, "validate", item) /\ UNCHANGED <<proc, shelf>> /\ At(b, "capture")
      BY <1>3 DEF ResolveLoaded
    <2>6. "validate" \in AtProfile /\ TestOf("validate", item, Dir(b), proc[Id(b)], Id(b))
      BY <1>2, <2>4, <2>5 DEF At, AtProfile, Dumping, Closing, Restoring, TestOf
    <2> HIDE DEF item
    <2> QED BY <1>1, <2>3, <2>5, <2>6, ItemStep
  <1>4. CASE ValidateCapture(b)
    <2>1. Go(b, "dump", Item(b)) /\ UNCHANGED <<proc, shelf>> /\ At(b, "validate")
      BY <1>4 DEF ValidateCapture
    <2>2. "dump" \in AtProfile /\ TestOf("dump", Item(b), Dir(b), proc[Id(b)], Id(b))
      BY <1>2, <2>1 DEF At, AtProfile, Dumping, Closing, Restoring, TestOf
    <2> QED BY <1>1, <1>2, <2>1, <2>2, ItemStep
  <1>5. CASE CaptureFails(b)
    BY <1>1, <1>5, PlainFailStep DEF CaptureFails, Statuses
  <1> QED BY <1>3, <1>4, <1>5

\* The basis is dumped, and what is in its image is what it had loaded.
LEMMA DumpSteps ==
  ASSUME BuildInv, NEW b \in Builds, Dump(b) \/ DumpFails(b)
  PROVE  BuildInv'
  <1>1. build[b].pc \in AtProfile /\ At(b, "dump")
    BY DEF Dump, DumpFails, At, AtProfile, Dumping
  <1>2. /\ BuildTypeOK /\ Id(b) \in Pools /\ proc[Id(b)] \in ProcRecs /\ Item(b) \in Items
        /\ Item(b).profile \in Profiles /\ Item(b).profile = build[b].plan[build[b].i]
        /\ build[b].root \in DOMAIN shelf /\ Dir(b) \in Dirs
        /\ Dir(b) = shelf[build[b].root].dirs[Item(b).profile]
        /\ TestOf(build[b].pc, Item(b), Dir(b), proc[Id(b)], Id(b))
    BY <1>1, AtWork
  <1>3. ASSUME NEW image \in Images
        PROVE  /\ [Dir(b) EXCEPT !.image = image] \in Dirs
               /\ [Dir(b) EXCEPT !.image = image].image = image
    BY <1>2, <1>3 DEF Dirs
  <1>4. CASE Dump(b)
    <2> DEFINE image == [by |-> Id(b), mem |-> proc[Id(b)].mem]
               dir == [Dir(b) EXCEPT !.image = image]
    <2>1. image \in Images /\ image.by = Id(b) /\ image.mem = proc[Id(b)].mem
      BY <1>2 DEF Images, PoolOrNone, ProcRecs
    <2>2. dir \in Dirs /\ dir.image = image
      BY <1>3, <2>1
    <2>3. /\ Go(b, "inventory", Item(b)) /\ SetDir(b, dir)
          /\ proc' = [proc EXCEPT ![Id(b)] = Gone]
      BY <1>4 DEF Dump, Becomes
    <2> HIDE DEF image, dir
    <2>4. PoolBecomes(Id(b), Gone) /\ DirBecomes(build[b].root, Item(b).profile, dir)
      BY <1>2, <2>2, <2>3, GoneType, OnePool, OneDir DEF SetDir
    <2>5. Covers(Item(b).closure, image.mem)
      BY <1>1, <1>2, <2>1 DEF At, TestOf
    <2>6. "inventory" \in AtProfile /\ TestOf("inventory", Item(b), dir, Gone, Id(b))
      BY <2>1, <2>2, <2>5 DEF AtProfile, Closing, Restoring, TestOf, ImageOf
    <2> QED BY <1>1, <1>2, <2>1, <2>2, <2>3, <2>4, <2>6, GoneType, ProfileStep
  <1>5. CASE DumpFails(b)
    <2> DEFINE image == [by |-> None, mem |-> {}]
               dir == [Dir(b) EXCEPT !.image = image]
    <2>1. image \in Images /\ image.by = None
      BY DEF Images, PoolOrNone
    <2>2. dir \in Dirs /\ dir.image = image
      BY <1>3, <2>1
    <2>3. PICK status \in {"dump_failed", "exception"} : Fails(b, status)
      BY <1>5 DEF DumpFails
    <2>4. SetDir(b, dir) /\ proc' = proc
      BY <1>5 DEF DumpFails
    <2> HIDE DEF image, dir
    <2>5. /\ PoolBecomes(Id(b), proc[Id(b)])
          /\ DirBecomes(build[b].root, Item(b).profile, dir)
      BY <1>2, <2>2, <2>4, SamePools, OneDir DEF SetDir
    <2>6. status \in Statuses \ {"ok"}
      BY <2>3 DEF Statuses
    <2> QED BY <1>1, <1>2, <2>1, <2>2, <2>3, <2>5, <2>6, FailStep
  <1> QED BY <1>4, <1>5

\* The image's files are recorded, and its pool is gone.
LEMMA RecordSteps ==
  ASSUME BuildInv, NEW b \in Builds,
         Inventory(b) \/ StopDumped(b) \/ StopDumpedFails(b)
  PROVE  BuildInv'
  <1>1. build[b].pc \in AtProfile
    BY DEF Inventory, StopDumped, StopDumpedFails, At, AtProfile, Restoring
  <1>2. /\ BuildTypeOK /\ Id(b) \in Pools /\ Item(b) \in Items /\ Dir(b) \in Dirs
        /\ TestOf(build[b].pc, Item(b), Dir(b), proc[Id(b)], Id(b))
    BY <1>1, AtWork
  <1>3. CASE Inventory(b)
    <2> DEFINE item == [Item(b) EXCEPT !.inventory = Dir(b).image.by]
    <2>1. ImageOf(Dir(b), Id(b), Item(b).closure) /\ Dir(b).image.by \in PoolOrNone
      BY <1>2, <1>3 DEF Inventory, At, Restoring, TestOf, ImageOf, PoolOrNone
    <2>2. /\ item \in Items /\ item.profile = Item(b).profile /\ item.inventory = Id(b)
          /\ item.closure = Item(b).closure
      BY <1>2, <2>1 DEF Items, ImageOf
    <2>3. Go(b, "stop", item) /\ UNCHANGED <<proc, shelf>>
      BY <1>3 DEF Inventory
    <2>4. "stop" \in AtProfile /\ TestOf("stop", item, Dir(b), proc[Id(b)], Id(b))
      BY <2>1, <2>2 DEF AtProfile, Closing, Restoring, TestOf
    <2> HIDE DEF item
    <2> QED BY <1>1, <2>2, <2>3, <2>4, ItemStep
  <1>4. CASE StopDumped(b)
    <2> DEFINE item == [Item(b) EXCEPT !.before = Dir(b).logs]
    <2>1. ImageOf(Dir(b), Id(b), Item(b).closure) /\ Item(b).inventory = Id(b)
      BY <1>2, <1>4 DEF StopDumped, At, Restoring, TestOf
    <2>2. /\ item \in Items /\ item.profile = Item(b).profile
          /\ item.inventory = Item(b).inventory /\ item.closure = Item(b).closure
      BY <1>2 DEF Items, Dirs
    <2>3. Go(b, "restore", item) /\ UNCHANGED <<proc, shelf>>
      BY <1>4 DEF StopDumped
    <2>4. "restore" \in AtProfile /\ TestOf("restore", item, Dir(b), proc[Id(b)], Id(b))
      BY <2>1, <2>2 DEF AtProfile, Closing, Restoring, TestOf
    <2> HIDE DEF item
    <2> QED BY <1>1, <2>2, <2>3, <2>4, ItemStep
  <1>5. CASE StopDumpedFails(b)
    BY <1>1, <1>5, PlainFailStep DEF StopDumpedFails, Statuses
  <1> QED BY <1>3, <1>4, <1>5

\* The image is restored, and it is the one that was dumped.
LEMMA RestoreSteps ==
  ASSUME BuildInv, NEW b \in Builds, Restore(b) \/ RestoreFails(b)
  PROVE  BuildInv'
  <1>1. build[b].pc \in AtProfile /\ At(b, "restore")
    BY DEF Restore, RestoreFails, At, AtProfile, Restoring
  <1>2. /\ BuildTypeOK /\ Id(b) \in Pools /\ proc[Id(b)] \in ProcRecs /\ Item(b) \in Items
        /\ Item(b).profile \in Profiles /\ Item(b).profile = build[b].plan[build[b].i]
        /\ build[b].root \in DOMAIN shelf /\ Dir(b) \in Dirs
        /\ Dir(b) = shelf[build[b].root].dirs[Item(b).profile]
        /\ TestOf(build[b].pc, Item(b), Dir(b), proc[Id(b)], Id(b))
    BY <1>1, AtWork
  <1>3. ASSUME NEW logs \in SUBSET Pools
        PROVE  /\ [Dir(b) EXCEPT !.logs = logs] \in Dirs
               /\ [Dir(b) EXCEPT !.logs = logs].image = Dir(b).image
    BY <1>2, <1>3 DEF Dirs
  <1>4. Dir(b).logs \in SUBSET Pools /\ Dir(b).logs \cup {Id(b)} \in SUBSET Pools
    BY <1>2 DEF Dirs
  <1>5. CASE Restore(b)
    <2> DEFINE p == [st |-> "live", todo |-> <<>>, mem |-> Dir(b).image.mem,
                     of |-> Dir(b).image.by]
               dir == [Dir(b) EXCEPT !.logs = Dir(b).logs \cup {Id(b)}]
    <2>1. ImageOf(Dir(b), Id(b), Item(b).closure) /\ Item(b).inventory = Id(b)
      BY <1>1, <1>2 DEF At, Restoring, TestOf
    <2>2. p \in ProcRecs /\ p.st = "live" /\ p.of = Id(b)
      <3>1. Dir(b).image.mem \in SUBSET Loaded /\ Dir(b).image.by \in PoolOrNone
        BY <2>1 DEF ImageOf, Images
      <3>2. Dir(b).image.by = Id(b) /\ <<>> \in Seq(Files)
        BY <2>1 DEF ImageOf
      <3> QED BY <3>1, <3>2 DEF ProcRecs
    <2>3. dir \in Dirs /\ dir.image = Dir(b).image
      BY <1>3, <1>4
    <2>4. /\ Go(b, "evidence", Item(b)) /\ SetDir(b, dir)
          /\ proc' = [proc EXCEPT ![Id(b)] = p]
      BY <1>5 DEF Restore
    <2> HIDE DEF p, dir
    <2>5. PoolBecomes(Id(b), p) /\ DirBecomes(build[b].root, Item(b).profile, dir)
      BY <1>2, <2>2, <2>3, <2>4, OnePool, OneDir DEF SetDir
    <2>6. "evidence" \in AtProfile /\ TestOf("evidence", Item(b), dir, p, Id(b))
      BY <2>1, <2>2, <2>3 DEF AtProfile, Closing, Restoring, TestOf, ImageOf
    <2> QED BY <1>1, <1>2, <2>2, <2>3, <2>4, <2>5, <2>6, ProfileStep
  <1>6. CASE RestoreFails(b)
    <2>1. PICK p \in ProcRecs : PoolBecomes(Id(b), p)
      <3>1. PICK st \in {"gone", "live"} : Becomes(Id(b), st)
        BY <1>6 DEF RestoreFails
      <3>2. CASE st = "gone"
        BY <1>2, <3>1, <3>2, GoneType, OnePool DEF Becomes
      <3>3. CASE st = "live"
        <4> DEFINE p == [proc[Id(b)] EXCEPT !.st = "live"]
        <4>1. p \in ProcRecs
          BY <1>2 DEF ProcRecs
        <4>2. proc' = [proc EXCEPT ![Id(b)] = p]
          BY <3>1, <3>3 DEF Becomes
        <4> HIDE DEF p
        <4> QED BY <1>2, <4>1, <4>2, OnePool
      <3> QED BY <3>1, <3>2, <3>3
    <2>2. PICK logged \in BOOLEAN :
            SetDir(b, [Dir(b) EXCEPT !.logs = IF logged THEN @ \cup {Id(b)} ELSE @])
      BY <1>6 DEF RestoreFails
    <2> DEFINE logs == IF logged THEN Dir(b).logs \cup {Id(b)} ELSE Dir(b).logs
               dir == [Dir(b) EXCEPT !.logs = logs]
    <2>3. logs \in SUBSET Pools /\ SetDir(b, dir)
      BY <1>4, <2>2
    <2> HIDE DEF logs
    <2>4. dir \in Dirs /\ dir.image = Dir(b).image
      BY <1>3, <2>3
    <2> HIDE DEF dir
    <2>5. DirBecomes(build[b].root, Item(b).profile, dir)
      BY <1>2, <2>3, <2>4, OneDir DEF SetDir
    <2>6. Fails(b, "restore_failed") /\ "restore_failed" \in Statuses \ {"ok"}
      BY <1>6 DEF RestoreFails, Statuses
    <2> QED BY <1>1, <2>1, <2>4, <2>5, <2>6, FailStep
  <1> QED BY <1>5, <1>6

\* The restore left its one log, or not.
LEMMA EvidenceStep ==
  ASSUME BuildInv, NEW b \in Builds, Evidence(b)
  PROVE  BuildInv'
  <1>1. build[b].pc \in AtProfile /\ At(b, "evidence") /\ UNCHANGED <<proc, shelf>>
    BY DEF Evidence, At, AtProfile, Restoring
  <1>2. CASE Go(b, "probe", Item(b))
    <2>1. Item(b) \in Items /\ TestOf(build[b].pc, Item(b), Dir(b), proc[Id(b)], Id(b))
      BY <1>1, AtWork
    <2>2. "probe" \in AtProfile /\ TestOf("probe", Item(b), Dir(b), proc[Id(b)], Id(b))
      BY <1>1, <2>1 DEF At, AtProfile, Closing, Restoring, TestOf
    <2> QED BY <1>1, <1>2, <2>1, <2>2, ItemStep
  <1>3. CASE Fails(b, "restore_evidence_failed")
    BY <1>1, <1>3, PlainFailStep DEF Statuses
  <1> QED BY <1>2, <1>3 DEF Evidence

\* The restored pool is probed: what passes is the image that was dumped.
LEMMA ProbeSteps ==
  ASSUME BuildInv, NEW b \in Builds, ProbePasses(b) \/ ProbeFails(b)
  PROVE  BuildInv'
  <1>1. build[b].pc \in AtProfile /\ At(b, "probe") /\ proc' = proc
    BY DEF ProbePasses, ProbeFails, At, AtProfile, Restoring
  <1>2. /\ BuildTypeOK /\ Id(b) \in Pools /\ proc[Id(b)] \in ProcRecs /\ Item(b) \in Items
        /\ Item(b).profile \in Profiles /\ Item(b).profile = build[b].plan[build[b].i]
        /\ build[b].root \in DOMAIN shelf /\ Dir(b) \in Dirs
        /\ Dir(b) = shelf[build[b].root].dirs[Item(b).profile]
        /\ TestOf(build[b].pc, Item(b), Dir(b), proc[Id(b)], Id(b))
    BY <1>1, AtWork
  <1> DEFINE dir == [Dir(b) EXCEPT !.eval = Id(b)]
  <1>3. dir \in Dirs /\ dir.image = Dir(b).image
    BY <1>2 DEF Dirs, PoolOrNone
  <1>4. SetDir(b, dir)
    BY DEF ProbePasses, ProbeFails
  <1> HIDE DEF dir
  <1>5. PoolBecomes(Id(b), proc[Id(b)]) /\ DirBecomes(build[b].root, Item(b).profile, dir)
    BY <1>1, <1>2, <1>3, <1>4, SamePools, OneDir DEF SetDir
  <1>6. CASE ProbePasses(b)
    <2> DEFINE item == [Item(b) EXCEPT !.status = "ok", !.eval = Id(b), !.smoke = proc[Id(b)].of]
    <2>1. /\ ImageOf(Dir(b), Id(b), Item(b).closure) /\ Item(b).inventory = Id(b)
          /\ proc[Id(b)].of = Id(b)
      BY <1>1, <1>2 DEF At, Restoring, TestOf
    <2>2. Id(b) \in PoolOrNone /\ "ok" \in Statuses
      BY <1>2 DEF PoolOrNone, Statuses
    <2>3. /\ item \in Items /\ item.profile = Item(b).profile /\ item.closure = Item(b).closure
          /\ item.inventory = Id(b) /\ item.smoke = Id(b)
      BY <1>2, <2>1, <2>2 DEF Items
    <2>4. Go(b, "finally", item)
      BY <1>6 DEF ProbePasses
    <2>5. "finally" \in AtProfile /\ TestOf("finally", item, dir, proc[Id(b)], Id(b))
      BY <1>3, <2>1, <2>3 DEF AtProfile, Closing, Restoring, TestOf, ProbedOf, ImageOf
    <2> HIDE DEF item
    <2> QED BY <1>1, <1>2, <1>3, <1>5, <2>3, <2>4, <2>5, ProfileStep
  <1>7. CASE ProbeFails(b)
    <2>1. PICK status \in {"eval_failed", "exception"} : Fails(b, status)
      BY <1>7 DEF ProbeFails
    <2>2. status \in Statuses \ {"ok"}
      BY DEF Statuses
    <2> QED BY <1>1, <1>2, <1>3, <1>5, <2>1, <2>2, FailStep
  <1> QED BY <1>6, <1>7

\* What a manifest says is what the item says.
LEMMA ManifestSays ==
  ASSUME NEW item \in Items
  PROVE  /\ Manifest(item) \in Manifests /\ Manifest(item).closure = item.closure
         /\ Manifest(item).inventory = item.inventory
  BY DEF Manifest, Manifests, Items

\* The pool is stopped: an image that passed is of a pool that is gone.
LEMMA FinalStopStep ==
  ASSUME BuildInv, NEW b \in Builds, FinalStop(b)
  PROVE  BuildInv'
  <1>1. build[b].pc \in AtProfile /\ At(b, "finally") /\ shelf' = shelf
    BY DEF FinalStop, At, AtProfile, Closing
  <1>2. /\ BuildTypeOK /\ Id(b) \in Pools /\ proc[Id(b)] \in ProcRecs /\ Item(b) \in Items
        /\ Item(b).profile \in Profiles /\ Item(b).profile = build[b].plan[build[b].i]
        /\ build[b].root \in DOMAIN shelf /\ Dir(b) \in Dirs
        /\ Dir(b) = shelf[build[b].root].dirs[Item(b).profile]
        /\ TestOf(build[b].pc, Item(b), Dir(b), proc[Id(b)], Id(b))
    BY <1>1, AtWork
  <1>3. PICK verified \in BOOLEAN :
          LET stopped == Item(b).pool /\ verified  ok == Item(b).status = "ok"
          IN  /\ proc' = IF stopped THEN [proc EXCEPT ![Id(b)] = Gone] ELSE proc
              /\ Go(b, IF ok /\ stopped THEN "manifest" ELSE "row",
                    [Item(b) EXCEPT !.stopped = stopped,
                                    !.status = IF ok /\ ~stopped THEN "stop_failed" ELSE @])
    BY DEF FinalStop
  <1> DEFINE stopped == Item(b).pool /\ verified
  <1>4. stopped \in BOOLEAN
    BY <1>2 DEF Items
  <1>5. DirBecomes(build[b].root, Item(b).profile, Dir(b))
    BY <1>1, <1>2, SameDirs
  <1>6. CASE Item(b).status = "ok" /\ stopped
    <2> DEFINE item == [Item(b) EXCEPT !.stopped = TRUE]
    <2>1. /\ item \in Items /\ item.profile = Item(b).profile /\ item.closure = Item(b).closure
          /\ item.inventory = Item(b).inventory /\ item.smoke = Item(b).smoke
          /\ item.status = "ok"
      BY <1>2, <1>6 DEF Items
    <2>2. Go(b, "manifest", item)
      <3>1. item = [Item(b) EXCEPT !.stopped = TRUE, !.status = Item(b).status]
        BY <1>2 DEF Items
      <3> QED BY <1>3, <1>6, <3>1
    <2>3. proc' = [proc EXCEPT ![Id(b)] = Gone]
      BY <1>3, <1>6
    <2>4. PoolBecomes(Id(b), Gone)
      BY <1>2, <2>3, GoneType, OnePool
    <2> HIDE DEF item
    <2>5. "manifest" \in AtProfile /\ TestOf("manifest", item, Dir(b), Gone, Id(b))
      <3>1. ProbedOf(Item(b), Dir(b), Id(b))
        BY <1>1, <1>2, <1>6 DEF At, Closing, TestOf
      <3>2. ProbedOf(item, Dir(b), Id(b))
        BY <2>1, <3>1 DEF ProbedOf
      <3> QED BY <2>1, <3>2, GoneType DEF AtProfile, Closing, Restoring, TestOf
    <2> QED BY <1>1, <1>2, <1>5, <2>1, <2>2, <2>4, <2>5, GoneType, ProfileStep
  <1>7. CASE ~(Item(b).status = "ok" /\ stopped)
    <2>1. PICK status \in Statuses \ {"ok"} :
            Go(b, "row", [Item(b) EXCEPT !.stopped = stopped, !.status = status])
      <3>1. CASE Item(b).status = "ok"
        BY <1>3, <1>7, <3>1 DEF Statuses
      <3>2. CASE Item(b).status # "ok"
        BY <1>2, <1>3, <1>7, <3>2 DEF Items
      <3> QED BY <3>1, <3>2
    <2> DEFINE item == [Item(b) EXCEPT !.stopped = stopped, !.status = status]
    <2>2. item \in Items /\ item.profile = Item(b).profile /\ item.status # "ok"
      <3> HIDE DEF stopped
      <3> QED BY <1>2, <1>4, <2>1 DEF Items
    <2>3. PICK p \in ProcRecs : PoolBecomes(Id(b), p)
      <3>1. CASE stopped
        BY <1>2, <1>3, <3>1, GoneType, OnePool
      <3>2. CASE ~stopped
        BY <1>2, <1>3, <3>2, SamePools
      <3> QED BY <3>1, <3>2
    <2> HIDE DEF item
    <2>4. "row" \in AtProfile /\ TestOf("row", item, Dir(b), p, Id(b))
      BY <2>2 DEF AtProfile, Closing, Restoring, TestOf
    <2>5. Go(b, "row", item)
      BY <2>1 DEF item
    <2> QED BY <1>1, <1>2, <1>5, <2>2, <2>3, <2>4, <2>5, ProfileStep
  <1> QED BY <1>6, <1>7

\* A row is of a failure, or of the manifest that was written.
LEMMA RowStep ==
  ASSUME BuildInv, NEW b \in Builds, build[b].pc \in AtProfile,
         Go(b, "row", [Item(b) EXCEPT !.status = "exception"]), UNCHANGED <<proc, shelf>>
  PROVE  BuildInv'
  <1> DEFINE item == [Item(b) EXCEPT !.status = "exception"]
  <1>1. Item(b) \in Items
    BY AtWork
  <1>2. item \in Items /\ item.profile = Item(b).profile /\ item.status # "ok"
    BY <1>1 DEF Items, Statuses
  <1>3. "row" \in AtProfile /\ TestOf("row", item, Dir(b), proc[Id(b)], Id(b))
    BY <1>2 DEF AtProfile, Closing, Restoring, TestOf
  <1> HIDE DEF item
  <1>4. Go(b, "row", item)
    BY DEF item
  <1> QED BY <1>2, <1>3, <1>4, ItemStep

\* The manifest is written of what was probed, and its projection is the row's.
LEMMA ManifestSteps ==
  ASSUME BuildInv, NEW b \in Builds,
         WriteManifest(b) \/ ValidateManifest(b)
  PROVE  BuildInv'
  <1>1. build[b].pc \in AtProfile /\ build[b].pc \in {"manifest", "written"} /\ proc' = proc
    BY DEF WriteManifest, ValidateManifest, At, AtProfile, Closing
  <1>2. /\ BuildTypeOK /\ Id(b) \in Pools /\ proc[Id(b)] \in ProcRecs /\ Item(b) \in Items
        /\ Item(b).profile \in Profiles /\ Item(b).profile = build[b].plan[build[b].i]
        /\ build[b].root \in DOMAIN shelf /\ Dir(b) \in Dirs
        /\ Dir(b) = shelf[build[b].root].dirs[Item(b).profile]
        /\ TestOf(build[b].pc, Item(b), Dir(b), proc[Id(b)], Id(b))
    BY <1>1, AtWork
  <1>3. ProbedOf(Item(b), Dir(b), Id(b)) /\ Item(b).status = "ok" /\ proc[Id(b)].st = "gone"
    BY <1>1, <1>2 DEF Closing, TestOf
  <1>4. CASE Go(b, "row", [Item(b) EXCEPT !.status = "exception"]) /\ shelf' = shelf
    BY <1>1, <1>4, RowStep
  <1>5. CASE SetDir(b, [Dir(b) EXCEPT !.manifest = Manifest(Item(b))]) /\ Go(b, "written", Item(b))
    <2> DEFINE dir == [Dir(b) EXCEPT !.manifest = Manifest(Item(b))]
    <2>1. dir \in Dirs /\ dir.image = Dir(b).image /\ dir.manifest = Manifest(Item(b))
      BY <1>2, ManifestSays DEF Dirs
    <2>2. SetDir(b, dir)
      BY <1>5
    <2> HIDE DEF dir
    <2>3. PoolBecomes(Id(b), proc[Id(b)]) /\ DirBecomes(build[b].root, Item(b).profile, dir)
      BY <1>1, <1>2, <2>1, <2>2, SamePools, OneDir DEF SetDir
    <2>4. "written" \in AtProfile /\ TestOf("written", Item(b), dir, proc[Id(b)], Id(b))
      BY <1>3, <2>1 DEF AtProfile, Closing, Restoring, TestOf, ProbedOf, ImageOf
    <2> QED BY <1>1, <1>2, <1>5, <2>1, <2>3, <2>4, ProfileStep
  <1>6. CASE /\ At(b, "written") /\ shelf' = shelf
             /\ Go(b, "row", [Item(b) EXCEPT !.projection = Dir(b).manifest])
    <2> DEFINE item == [Item(b) EXCEPT !.projection = Dir(b).manifest]
    <2>1. Dir(b).manifest = Manifest(Item(b)) /\ Dir(b).manifest \in Manifests
      BY <1>2, <1>6, ManifestSays DEF At, TestOf
    <2>2. /\ item \in Items /\ item.profile = Item(b).profile /\ item.closure = Item(b).closure
          /\ item.inventory = Item(b).inventory /\ item.smoke = Item(b).smoke
          /\ item.projection = Manifest(Item(b))
      BY <1>2, <2>1 DEF Items
    <2>3. Manifest(item) = Manifest(Item(b))
      <3>1. item.sha = Item(b).sha /\ item.bundle = Item(b).bundle
        BY <1>2, <2>1 DEF Items
      <3> HIDE DEF item
      <3> QED BY <2>2, <3>1 DEF Manifest
    <2>4. "row" \in AtProfile /\ TestOf("row", item, Dir(b), proc[Id(b)], Id(b))
      <3> HIDE DEF item
      <3> QED BY <1>3, <2>2, <2>3 DEF AtProfile, Closing, Restoring, TestOf, ProbedOf
    <2> HIDE DEF item
    <2>5. Go(b, "row", item)
      BY <1>6 DEF item
    <2> QED BY <1>1, <1>6, <2>2, <2>4, <2>5, ItemStep
  <1> QED BY <1>4, <1>5, <1>6 DEF WriteManifest, ValidateManifest

-----------------------------------------------------------------------------
(* The steps of a batch.                                                   *)

\* A step that changes only the record of one build, which was not done.
LEMMA RecordStep ==
  ASSUME BuildInv, NEW b \in Builds, ~At(b, "done"),
         build' \in [Builds -> BuildRecs], \A c \in Builds \ {b} : build'[c] = build[c],
         build'[b].root = build[b].root, UNCHANGED <<proc, shelf>>, BuildAt(b)'
  PROVE  BuildInv'
  <1>1. BuildTypeOK' /\ OthersStay(b)
    BY DEF BuildInv, BuildTypeOK, OthersStay
  <1> QED BY <1>1, OwnStep

\* A build that ends leaves nothing that could be published.
LEMMA EndStep ==
  ASSUME BuildInv, NEW b \in Builds, ~At(b, "done"),
         Ends(b, "ended"), UNCHANGED <<proc, shelf>>
  PROVE  BuildInv'
  <1>1. BuildTypeOK /\ PlaceAt(b)
    BY DEF BuildInv, BuildAt
  <1>2. /\ build' \in [Builds -> BuildRecs] /\ \A c \in Builds \ {b} : build'[c] = build[c]
        /\ build'[b].pc = "ended" /\ build'[b].plan = build[b].plan
        /\ build'[b].root = build[b].root /\ build'[b].rows = <<>>
    BY <1>1, Ended
  <1>3. PlaceAt(b)'
    BY <1>1, <1>2 DEF PlaceAt, Working, At, AtProfile, Dumping, Restoring, Closing, Batching
  <1>4. TestAt(b)' /\ CompleteAt(b)'
    BY <1>2 DEF TestAt, TestOf, CompleteAt, Restoring, Closing
  <1>5. RowsAt(b)'
    BY <1>2 DEF RowsAt
  <1> QED BY <1>2, <1>3, <1>4, <1>5, RecordStep DEF BuildAt

\* A build is refused, or killed.
LEMMA EndSteps ==
  ASSUME BuildInv, NEW b \in Builds, PreflightRefuses(b) \/ Kill(b)
  PROVE  BuildInv'
  BY EndStep DEF PreflightRefuses, Kill, At

\* The images used up the budget: the batch is what there is.
LEMMA BudgetStep ==
  ASSUME BuildInv, NEW b \in Builds, BudgetSpent(b)
  PROVE  BuildInv'
  <1>1. /\ BuildTypeOK /\ PlaceAt(b) /\ RowsAt(b) /\ At(b, "profile")
        /\ Go(b, "batch", None) /\ UNCHANGED <<proc, shelf>>
    BY DEF BuildInv, BuildAt, BudgetSpent
  <1>2. "batch" \in Pcs /\ "batch" \in Batching
    BY DEF Pcs, Batching
  <1>3. /\ build' \in [Builds -> BuildRecs] /\ \A c \in Builds \ {b} : build'[c] = build[c]
        /\ build'[b].pc = "batch" /\ build'[b].i = build[b].i
        /\ build'[b].plan = build[b].plan /\ build'[b].root = build[b].root
        /\ build'[b].rows = build[b].rows
    BY <1>1, <1>2, Goes
  <1>4. PlaceAt(b)'
    <2>1. Working(b) /\ Len(build[b].rows) + 1 = build[b].i /\ Len(build[b].rows) \in Nat
      BY <1>1 DEF PlaceAt, Working, At, BuildTypeOK, BuildRecs
    <2> QED BY <1>1, <1>3, <2>1
            DEF PlaceAt, Working, At, AtProfile, Dumping, Restoring, Closing
  <1>5. TestAt(b)' /\ CompleteAt(b)'
    BY <1>3 DEF TestAt, TestOf, CompleteAt, Restoring, Closing
  <1>6. RowsAt(b)'
    BY <1>1, <1>3 DEF RowsAt, RowTrue
  <1> QED BY <1>1, <1>3, <1>4, <1>5, <1>6, RecordStep DEF BuildAt, At

\* The record as the last step of a profile leaves it.
LEMMA RowAppended ==
  ASSUME BuildTypeOK, NEW b \in Builds, NEW pc \in Pcs, NEW i \in Nat, NEW rows \in Seq(Items),
         build' = [build EXCEPT ![b].pc = pc, ![b].i = i, ![b].rows = rows, ![b].item = None]
  PROVE  /\ build' \in [Builds -> BuildRecs] /\ \A c \in Builds \ {b} : build'[c] = build[c]
         /\ build'[b].pc = pc /\ build'[b].i = i /\ build'[b].rows = rows
         /\ build'[b].plan = build[b].plan /\ build'[b].root = build[b].root
  <1>1. build[b] \in BuildRecs
    BY DEF BuildTypeOK
  <1>2. /\ [build[b] EXCEPT !.pc = pc, !.i = i, !.rows = rows, !.item = None] \in BuildRecs
        /\ build' = [build EXCEPT ![b] =
                      [build[b] EXCEPT !.pc = pc, !.i = i, !.rows = rows, !.item = None]]
    <2>1. [build[b] EXCEPT !.pc = pc, !.i = i, !.rows = rows, !.item = None] \in BuildRecs
      BY <1>1 DEF BuildRecs
    <2> QED BY <2>1
  <1> QED BY <1>1, <1>2 DEF BuildTypeOK, BuildRecs

\* The profile's item becomes the last row.
LEMMA AppendRowStep ==
  ASSUME BuildInv, NEW b \in Builds, AppendRow(b)
  PROVE  BuildInv'
  <1>1. /\ BuildTypeOK /\ PlaceAt(b) /\ RowsAt(b) /\ At(b, "row") /\ ~At(b, "done")
        /\ build[b].pc \in AtProfile /\ Working(b) /\ UNCHANGED <<proc, shelf>>
    BY DEF BuildInv, BuildAt, AppendRow, At, AtProfile, Closing, Working
  <1>2. /\ Item(b) \in Items /\ TestOf("row", Item(b), Dir(b), proc[Id(b)], Id(b))
        /\ Dir(b) = shelf[build[b].root].dirs[Item(b).profile]
    BY <1>1, AtWork DEF At
  <1>3. /\ build[b] \in BuildRecs /\ build[b].rows \in Seq(Items) /\ build[b].i \in Nat
        /\ Len(build[b].rows) + 1 = build[b].i
    BY <1>1 DEF PlaceAt, BuildTypeOK, BuildRecs
  <1>4. PICK more \in BOOLEAN :
          /\ more => build[b].i < Len(build[b].plan)
          /\ build' = [build EXCEPT ![b].pc = IF more THEN "profile" ELSE "batch",
                                    ![b].i = IF more THEN @ + 1 ELSE @,
                                    ![b].rows = Append(@, Item(b)), ![b].item = None]
    BY DEF AppendRow
  <1> DEFINE rows == Append(build[b].rows, Item(b))
  <1>5. /\ rows \in Seq(Items) /\ Len(rows) = build[b].i /\ DOMAIN rows = 1..Len(rows)
        /\ rows[build[b].i] = Item(b)
        /\ \A j \in 1..Len(build[b].rows) : rows[j] = build[b].rows[j]
    BY <1>2, <1>3
  <1> HIDE DEF rows
  <1>6. PICK pc \in {"profile", "batch"}, i \in Nat :
          /\ pc = "profile" => i = build[b].i + 1 /\ build[b].i < Len(build[b].plan)
          /\ pc = "batch" => i = build[b].i
          /\ build' = [build EXCEPT ![b].pc = pc, ![b].i = i, ![b].rows = rows, ![b].item = None]
    <2>1. CASE more
      <3>1. build' = [build EXCEPT ![b].pc = "profile", ![b].i = build[b].i + 1,
                                   ![b].rows = rows, ![b].item = None]
        BY <1>4, <2>1, Zenon DEF rows
      <3>2. build[b].i < Len(build[b].plan) /\ build[b].i + 1 \in Nat
        BY <1>3, <1>4, <2>1
      <3> QED BY <3>1, <3>2
    <2>2. CASE ~more
      <3>1. build' = [build EXCEPT ![b].pc = "batch", ![b].i = build[b].i,
                                   ![b].rows = rows, ![b].item = None]
        BY <1>4, <2>2, Zenon DEF rows
      <3> QED BY <1>3, <3>1
    <2> QED BY <2>1, <2>2
  <1>7. /\ build' \in [Builds -> BuildRecs] /\ \A c \in Builds \ {b} : build'[c] = build[c]
        /\ build'[b].pc = pc /\ build'[b].i = i /\ build'[b].rows = rows
        /\ build'[b].plan = build[b].plan /\ build'[b].root = build[b].root
    <2>1. pc \in Pcs
      BY DEF Pcs, Batching
    <2> QED BY <1>1, <1>5, <1>6, <2>1, RowAppended
  <1>8. PlaceAt(b)'
    <2>1. build[b].i \in 1..Len(build[b].plan) /\ Len(build[b].plan) \in Nat
      BY <1>1, Placed
    <2>2. i \in 1..Len(build[b].plan) /\ pc \notin AtProfile
      BY <1>6, <2>1 DEF AtProfile, Dumping, Restoring, Closing
    <2>3. (pc = "profile" => Len(rows) + 1 = i) /\ (pc \in Batching => Len(rows) <= i)
      BY <1>3, <1>5, <1>6 DEF Batching
    <2> QED BY <1>1, <1>6, <1>7, <2>2, <2>3 DEF PlaceAt, Working, At
  <1>9. TestAt(b)' /\ CompleteAt(b)'
    BY <1>6, <1>7 DEF TestAt, TestOf, CompleteAt, Restoring, Closing
  <1>10. RowsAt(b)'
    <2> SUFFICES ASSUME NEW j \in DOMAIN rows, rows[j].status = "ok"
                 PROVE  RowTrue(rows[j], <<b, j>>, shelf[build[b].root].dirs[rows[j].profile])
      BY <1>1, <1>7 DEF RowsAt, RowTrue
    <2>1. CASE j = build[b].i
      <3>1. rows[j] = Item(b) /\ <<b, j>> = Id(b) /\ Item(b).status = "ok"
        BY <1>5, <2>1 DEF Id
      <3>2. /\ ProbedOf(Item(b), Dir(b), Id(b)) /\ proc[Id(b)].st = "gone"
            /\ Item(b).projection = Manifest(Item(b))
        BY <1>2, <3>1 DEF TestOf, Closing
      <3> QED BY <1>2, <3>1, <3>2, ManifestSays DEF RowTrue, ProbedOf, ImageOf
    <2>2. CASE j # build[b].i
      <3>1. j \in DOMAIN build[b].rows /\ rows[j] = build[b].rows[j]
        BY <1>3, <1>5, <2>2
      <3> QED BY <1>1, <3>1 DEF RowsAt
    <2> QED BY <2>1, <2>2
  <1> QED BY <1>1, <1>7, <1>8, <1>9, <1>10, RecordStep DEF BuildAt

\* What a batch checks and what its rows are make it complete.
LEMMA Checked ==
  ASSUME BuildInv, NEW b \in Builds, Working(b), Publishable(b)
  PROVE  /\ Len(build[b].rows) = Len(build[b].plan)
         /\ \A j \in DOMAIN build[b].rows :
              LET row == build[b].rows[j]
                  dir == shelf[build[b].root].dirs[row.profile]
              IN  /\ row.profile = build[b].plan[j] /\ row.status = "ok"
                  /\ dir.manifest = row.projection /\ dir.image.by = <<b, j>>
  <1>1. Len(build[b].rows) = Len(build[b].plan)
    BY DEF Publishable
  <1>2. ASSUME NEW j \in DOMAIN build[b].rows
        PROVE  LET row == build[b].rows[j]
                   dir == shelf[build[b].root].dirs[row.profile]
               IN  /\ row.profile = build[b].plan[j] /\ row.status = "ok"
                   /\ dir.manifest = row.projection /\ dir.image.by = <<b, j>>
    <2> DEFINE row == build[b].rows[j]
               dir == shelf[build[b].root].dirs[build[b].plan[j]]
    <2>1. RowPublishable(row, build[b].plan[j], dir)
      BY DEF Publishable
    <2>2. /\ row.profile = build[b].plan[j] /\ row.status = "ok"
          /\ dir.manifest = row.projection /\ dir.manifest.inventory = dir.image.by
      BY <2>1 DEF RowPublishable, InventoryTrue
    <2>3. RowTrue(row, <<b, j>>, dir)
      BY <2>2 DEF BuildInv, BuildAt, RowsAt
    <2> QED BY <2>2, <2>3 DEF RowTrue
  <1> QED BY <1>1, <1>2

\* A batch that fails its check ends; what passes is complete.
LEMMA BatchStep ==
  ASSUME BuildInv, NEW b \in Builds, BatchCheck(b)
  PROVE  BuildInv'
  <1>1. /\ BuildTypeOK /\ PlaceAt(b) /\ RowsAt(b) /\ Working(b) /\ ~At(b, "done")
        /\ build[b].pc \in {"batch", "publish"} /\ UNCHANGED <<proc, shelf>>
    BY DEF BuildInv, BuildAt, BatchCheck, At, Working
  <1>2. CASE Ends(b, "ended")
    BY <1>1, <1>2, EndStep
  <1>3. CASE ~Ends(b, "ended")
    <2>1. PICK pc \in {"publish", "replace"} : Go(b, pc, None)
      BY <1>1, <1>3 DEF BatchCheck
    <2>2. Publishable(b)
      BY <1>3 DEF BatchCheck
    <2>3. pc \in Pcs /\ pc \in Batching
      BY DEF Pcs, Batching
    <2>4. /\ build' \in [Builds -> BuildRecs] /\ \A c \in Builds \ {b} : build'[c] = build[c]
          /\ build'[b].pc = pc /\ build'[b].i = build[b].i
          /\ build'[b].plan = build[b].plan /\ build'[b].root = build[b].root
          /\ build'[b].rows = build[b].rows
      BY <1>1, <2>1, <2>3, Goes
    <2>5. PlaceAt(b)'
      BY <1>1, <2>1, <2>4 DEF PlaceAt, Working, At, AtProfile, Dumping, Restoring, Closing, Batching
    <2>6. TestAt(b)'
      BY <2>1, <2>4 DEF TestAt, TestOf, Restoring, Closing
    <2>7. RowsAt(b)'
      BY <1>1, <2>4 DEF RowsAt, RowTrue
    <2>8. CompleteAt(b)'
      <3>1. /\ Len(build[b].rows) = Len(build[b].plan)
            /\ \A j \in DOMAIN build[b].rows :
                 LET row == build[b].rows[j]
                     dir == shelf[build[b].root].dirs[row.profile]
                 IN  /\ row.profile = build[b].plan[j] /\ row.status = "ok"
                     /\ dir.manifest = row.projection /\ dir.image.by = <<b, j>>
        BY <1>1, <2>2, Checked
      <3> QED BY <1>1, <2>4, <3>1 DEF CompleteAt
    <2> QED BY <1>1, <2>4, <2>5, <2>6, <2>7, <2>8, RecordStep DEF BuildAt
  <1> QED BY <1>2, <1>3

\* The rename: the root holds the rows of a build that is done.
LEMMA ReplaceStep ==
  ASSUME BuildInv, NEW b \in Builds, Replace(b)
  PROVE  BuildInv'
  <1> DEFINE r == build[b].root
  <1>1. /\ BuildTypeOK /\ BuildAt(b) /\ PlaceAt(b) /\ RowsAt(b) /\ CompleteAt(b) /\ Working(b)
        /\ At(b, "replace") /\ ~At(b, "done") /\ proc' = proc
    BY DEF BuildInv, BuildAt, Replace, At, Working
  <1>2. /\ r \in DOMAIN shelf /\ shelf[r] \in Roots /\ build[b].rows \in Seq(Items)
    BY <1>1, Placed DEF BuildRecs
  <1>3. shelf' = [shelf EXCEPT ![r] = [results |-> build[b].rows, dirs |-> shelf[r].dirs]]
    BY DEF Replace
  <1>4. /\ Len(shelf') = Len(shelf) /\ DOMAIN shelf' = DOMAIN shelf /\ shelf' \in Seq(Roots)
        /\ shelf'[r].dirs = shelf[r].dirs /\ shelf'[r].results = build[b].rows
        /\ \A s \in DOMAIN shelf \ {r} : shelf'[s] = shelf[s]
    <2>1. [results |-> build[b].rows, dirs |-> shelf[r].dirs] \in Roots
      BY <1>2 DEF Roots
    <2> QED BY <1>1, <1>2, <1>3, <2>1 DEF BuildTypeOK
  <1>5. /\ build' \in [Builds -> BuildRecs] /\ \A c \in Builds \ {b} : build'[c] = build[c]
        /\ build'[b].pc = "done" /\ build'[b].i = build[b].i
        /\ build'[b].plan = build[b].plan /\ build'[b].root = build[b].root
        /\ build'[b].rows = build[b].rows
    <2>1. build' = [build EXCEPT ![b].pc = "done", ![b].item = None, ![b].rows = build[b].rows]
      BY Zenon DEF Replace, Ends
    <2>2. "done" \in Pcs
      BY DEF Pcs, Batching
    <2> QED BY <1>1, <1>2, <2>1, <2>2 DEF BuildTypeOK, BuildRecs
  <1>6. BuildAt(b)'
    <2>1. PlaceAt(b)'
      BY <1>1, <1>4, <1>5 DEF PlaceAt, Working, At, AtProfile, Dumping, Restoring, Closing, Batching
    <2>2. TestAt(b)'
      BY <1>5 DEF TestAt, TestOf, Restoring, Closing
    <2>3. RowsAt(b)'
      BY <1>1, <1>4, <1>5 DEF RowsAt, RowTrue
    <2>4. CompleteAt(b)'
      <3>1. /\ Len(build[b].rows) = Len(build[b].plan)
            /\ \A j \in DOMAIN build[b].rows :
                 /\ build[b].rows[j].profile = build[b].plan[j]
                 /\ build[b].rows[j].status = "ok"
                 /\ shelf[r].dirs[build[b].rows[j].profile].manifest = build[b].rows[j].projection
                 /\ shelf[r].dirs[build[b].rows[j].profile].image.by = <<b, j>>
        BY <1>1 DEF CompleteAt, At
      <3>2. build'[b].root = r /\ shelf'[r].dirs = shelf[r].dirs
        BY <1>4, <1>5
      <3> HIDE DEF r
      <3> QED BY <1>5, <3>1, <3>2 DEF CompleteAt
    <2> QED BY <2>1, <2>2, <2>3, <2>4 DEF BuildAt
  <1>7. ASSUME NEW c \in Builds, c # b PROVE BuildAt(c)'
    <2>1. BuildAt(c) /\ build'[c] = build[c] /\ Len(shelf) \in Nat
      BY <1>5, <1>7 DEF BuildInv, BuildTypeOK
    <2>2. Working(c) => shelf'[build[c].root] = shelf[build[c].root]
      <3> SUFFICES ASSUME Working(c) PROVE shelf'[build[c].root] = shelf[build[c].root]
        OBVIOUS
      <3>1. build[c].root \in DOMAIN shelf /\ build[c].root # 0
        BY <1>1, <2>1, Placed DEF BuildAt, PlaceAt
      <3>2. build[c].root # r
        BY <1>7, <3>1 DEF BuildInv, RootsApart
      <3> QED BY <1>4, <3>1, <3>2
    <2> QED BY <1>1, <1>4, <2>1, <2>2, Untouched
  <1>8. Published'
    <2> SUFFICES ASSUME NEW s \in DOMAIN shelf, shelf'[s].results # None
                 PROVE  \E c \in Builds : /\ build'[c].pc = "done" /\ build'[c].root = s
                                          /\ shelf'[s].results = build'[c].rows
      BY <1>4 DEF Published, At
    <2>1. CASE s = r
      BY <1>4, <1>5, <2>1
    <2>2. CASE s # r
      <3>1. PICK c \in Builds : At(c, "done") /\ build[c].root = s /\ shelf[s].results = build[c].rows
        BY <1>4, <2>2 DEF BuildInv, Published
      <3>2. build'[c] = build[c]
        BY <1>1, <1>5, <3>1 DEF At
      <3> QED BY <1>4, <2>2, <3>1, <3>2 DEF At
    <2> QED BY <2>1, <2>2
  <1>9. RootsApart'
    BY <1>5 DEF BuildInv, RootsApart
  <1>10. BuildTypeOK'
    BY <1>1, <1>4, <1>5 DEF BuildTypeOK
  <1> QED BY <1>6, <1>7, <1>8, <1>9, <1>10 DEF BuildInv

\* A root is made for one build, after all there are.
LEMMA AllocateStep ==
  ASSUME BuildInv, NEW b \in Builds, AllocateRoot(b)
  PROVE  BuildInv'
  <1> DEFINE r == Len(shelf) + 1
  <1>1. /\ BuildTypeOK /\ PlaceAt(b) /\ At(b, "plan") /\ ~Working(b) /\ proc' = proc
        /\ build[b].rows = <<>>
    BY DEF BuildInv, BuildAt, PlaceAt, AllocateRoot, At, Working
  <1>2. NewRoot \in Roots /\ NewRoot.results = None
    <2>1. NoDir \in Dirs
      BY DEF NoDir, Dirs, PoolOrNone
    <2>2. None \in Seq(Items)
      BY DEF None
    <2> QED BY <2>1, <2>2 DEF NewRoot, Roots
  <1>3. /\ shelf' \in Seq(Roots) /\ Len(shelf') = r /\ shelf'[r] = NewRoot /\ Len(shelf) \in Nat
        /\ \A s \in 1..Len(shelf) : shelf'[s] = shelf[s]
        /\ DOMAIN shelf = 1..Len(shelf) /\ DOMAIN shelf' = 1..r
    <2>1. shelf' = Append(shelf, NewRoot)
      BY DEF AllocateRoot
    <2> HIDE DEF NewRoot
    <2> QED BY <1>1, <1>2, <2>1 DEF BuildTypeOK
  <1>4. /\ build' \in [Builds -> BuildRecs] /\ \A c \in Builds \ {b} : build'[c] = build[c]
        /\ build'[b].pc = "profile" /\ build'[b].i = 1 /\ build'[b].root = r
        /\ build'[b].plan = build[b].plan /\ build'[b].rows = build[b].rows
    <2>1. build' = [build EXCEPT ![b].pc = "profile", ![b].i = 1, ![b].root = r]
      BY <1>3 DEF AllocateRoot
    <2>2. "profile" \in Pcs /\ r \in Nat /\ 1 \in Nat
      BY <1>3 DEF Pcs
    <2> QED BY <1>1, <2>1, <2>2 DEF BuildTypeOK, BuildRecs
  <1>5. BuildAt(b)'
    <2>1. PlaceAt(b)'
      <3>1. 1 \in 1..Len(build[b].plan)
        BY <1>1, BuildAssumption DEF PlaceAt
      <3>2. r \in 0..Len(shelf') /\ r # 0
        BY <1>3
      <3> QED BY <1>1, <1>4, <3>1, <3>2
              DEF PlaceAt, Working, At, AtProfile, Dumping, Restoring, Closing, Batching
    <2>2. TestAt(b)' /\ CompleteAt(b)'
      BY <1>4 DEF TestAt, TestOf, CompleteAt, Restoring, Closing
    <2>3. RowsAt(b)'
      BY <1>1, <1>4 DEF RowsAt
    <2> QED BY <2>1, <2>2, <2>3 DEF BuildAt
  <1>6. ASSUME NEW c \in Builds, c # b PROVE BuildAt(c)' /\ build[c].root \in 0..Len(shelf)
    <2>1. BuildAt(c) /\ build'[c] = build[c] /\ build[c].root \in 0..Len(shelf)
      BY <1>4, <1>6 DEF BuildInv, BuildAt, PlaceAt
    <2>2. Working(c) => shelf'[build[c].root] = shelf[build[c].root]
      BY <1>1, <1>3, <2>1, Placed DEF BuildAt
    <2> QED BY <1>1, <1>3, <2>1, <2>2, Untouched
  <1>7. Published'
    <2> SUFFICES ASSUME NEW s \in 1..r, shelf'[s].results # None
                 PROVE  \E c \in Builds : /\ build'[c].pc = "done" /\ build'[c].root = s
                                          /\ shelf'[s].results = build'[c].rows
      BY <1>3 DEF Published, At
    <2>1. s \in DOMAIN shelf /\ shelf'[s] = shelf[s]
      BY <1>2, <1>3
    <2>2. PICK c \in Builds : At(c, "done") /\ build[c].root = s /\ shelf[s].results = build[c].rows
      BY <2>1 DEF BuildInv, Published
    <2>3. build'[c] = build[c]
      BY <1>1, <1>4, <2>2 DEF At
    <2> QED BY <2>1, <2>2, <2>3 DEF At
  <1>8. RootsApart'
    <2>1. ASSUME NEW c \in Builds, c # b PROVE build'[c].root # r
      BY <1>3, <1>4, <1>6, <2>1
    <2> QED BY <1>4, <2>1 DEF BuildInv, RootsApart
  <1>9. BuildTypeOK'
    BY <1>1, <1>3, <1>4 DEF BuildTypeOK
  <1> QED BY <1>5, <1>6, <1>7, <1>8, <1>9 DEF BuildInv

-----------------------------------------------------------------------------
(* The rest of the world.                                                  *)

\* A process that loads, or ends unloaded, is one that no build rests on.
LEMMA LoadSteps ==
  ASSUME WorldOK, BuildInv, NEW k \in Pools, LoadFile(k) \/ OrphanEnds(k)
  PROVE  BuildInv'
  <1>1. /\ BuildTypeOK /\ build' = build /\ shelf' = shelf /\ proc[k] \in ProcRecs
        /\ proc[k].st \in {"loading", "orphan"}
    BY DEF BuildInv, BuildTypeOK, LoadFile, OrphanEnds
  <1>2. PICK p \in ProcRecs : proc' = [proc EXCEPT ![k] = p]
    <2>1. CASE OrphanEnds(k)
      BY <2>1, GoneType DEF OrphanEnds, Becomes
    <2>2. CASE LoadFile(k)
      <3> DEFINE f == Head(proc[k].todo)
                 entry == [name |-> Basename[f], content |-> disk[f]]
      <3>1. proc[k].todo \in Seq(Files) /\ proc[k].todo # <<>> /\ proc[k].mem \in SUBSET Loaded
        BY <1>1, <2>2 DEF LoadFile, ProcRecs
      <3>2. f \in Files /\ Tail(proc[k].todo) \in Seq(Files)
        BY <3>1
      <3>3. entry \in Loaded
        BY <3>2 DEF WorldOK, Loaded, Names
      <3> HIDE DEF entry
      <3>4. proc[k].mem \cup {entry} \in SUBSET Loaded
        BY <3>1, <3>3
      <3>5. [proc[k] EXCEPT !.todo = Tail(proc[k].todo), !.mem = proc[k].mem \cup {entry}]
              \in ProcRecs
        BY <1>1, <3>2, <3>4 DEF ProcRecs
      <3>6. CASE disk[f] = 0
        BY <2>2, <3>6, GoneType DEF LoadFile
      <3>7. CASE disk[f] # 0
        <4>1. proc' = [proc EXCEPT ![k] =
                [proc[k] EXCEPT !.todo = Tail(proc[k].todo), !.mem = proc[k].mem \cup {entry}]]
          <5>1. proc' = [proc EXCEPT ![k] = IF disk[f] = 0 THEN Gone ELSE
                  [proc[k] EXCEPT !.todo = Tail(proc[k].todo),
                                  !.mem = proc[k].mem \cup {entry}]]
            BY <2>2 DEF LoadFile, entry
          <5> QED BY <3>7, <5>1
        <4> QED BY <3>5, <4>1
      <3> QED BY <3>6, <3>7
    <2> QED BY <2>1, <2>2
  <1>3. PoolBecomes(k, p)
    BY <1>1, <1>2, OnePool
  <1>4. BuildTypeOK'
    BY <1>1, <1>3 DEF BuildTypeOK, PoolBecomes
  <1>5. ASSUME NEW c \in Builds PROVE BuildAt(c)'
    <2>1. \A j \in Pools : j[1] = c /\ proc[j].st \in {"gone", "live"} => proc'[j] = proc[j]
      BY <1>1, <1>3 DEF PoolBecomes
    <2>2. BuildAt(c) /\ build'[c] = build[c] /\ Len(shelf') = Len(shelf) /\ Len(shelf) \in Nat
      BY <1>1 DEF BuildInv, BuildTypeOK
    <2> QED BY <1>1, <2>1, <2>2, Untouched
  <1>6. Published' /\ RootsApart'
    BY <1>1 DEF BuildInv, Published, RootsApart, At
  <1> QED BY <1>4, <1>5, <1>6 DEF BuildInv

\* What no build, pool or root is part of changes nothing of them.
LEMMA AsideStep ==
  ASSUME BuildInv, UNCHANGED <<build, proc, shelf>>
  PROVE  BuildInv'
  <1>1. BuildTypeOK /\ BuildTypeOK'
    BY DEF BuildInv, BuildTypeOK
  <1>2. ASSUME NEW c \in Builds PROVE BuildAt(c)'
    <2>1. BuildAt(c) /\ Len(shelf) \in Nat
      BY <1>1 DEF BuildInv, BuildTypeOK
    <2> QED BY <1>1, <2>1, Untouched
  <1>3. Published' /\ RootsApart'
    BY DEF BuildInv, Published, RootsApart, At
  <1> QED BY <1>1, <1>2, <1>3 DEF BuildInv

\* Sources and recipe stay what they may be.
LEMMA WorldStep ==
  ASSUME WorldOK, [BuildNext]_buildVars
  PROVE  WorldOK'
  <1>1. CASE UNCHANGED <<disk, recipe>>
    BY <1>1 DEF WorldOK
  <1>2. CASE \E f \in Files, c \in Contents \cup {0} : EditFile(f, c)
    BY <1>2 DEF WorldOK, EditFile, Bytes
  <1>3. CASE \E x \in DOMAIN recipe : EditRecipe(x)
    <2>1. PICK x \in DOMAIN recipe : recipe' = [recipe EXCEPT ![x] = 3 - recipe[x]] /\ disk' = disk
      BY <1>3 DEF EditRecipe
    <2>2. recipe[x] \in 1..2 /\ x \in Bases
      BY <2>1 DEF WorldOK
    <2>3. 3 - recipe[x] \in 1..2
      BY <2>2
    <2> QED BY <2>1, <2>2, <2>3 DEF WorldOK
  <1>4. UNCHANGED <<disk, recipe>> \/ (\E f \in Files, c \in Contents \cup {0} : EditFile(f, c))
          \/ (\E x \in DOMAIN recipe : EditRecipe(x))
    <2>1. ASSUME NEW b \in Builds, Starting(b) PROVE UNCHANGED <<disk, recipe>>
      BY <2>1 DEF Starting, PreflightRefuses, AllocateRoot, GuardRefuses, BudgetSpent, StartPool,
                  PoolReady, PoolStartFails, StartTimesOut, Around
    <2>2. ASSUME NEW b \in Builds, Testing(b) PROVE UNCHANGED <<disk, recipe>>
      BY <2>2 DEF Testing, ResolveLoaded, ValidateCapture, CaptureFails, Dump, DumpFails, Inventory,
                  StopDumped, StopDumpedFails, Restore, RestoreFails, Evidence, ProbePasses,
                  ProbeFails, Around
    <2>3. ASSUME NEW b \in Builds, Publishing(b) PROVE UNCHANGED <<disk, recipe>>
      BY <2>3 DEF Publishing, FinalStop, WriteManifest, ValidateManifest, AppendRow, BatchCheck,
                  Replace, Around
    <2> QED BY <2>1, <2>2, <2>3
            DEF BuildNext, Kill, LoadFile, OrphanEnds, Select, Admit, RouteEnds, Around, buildVars
  <1> QED BY <1>1, <1>2, <1>3, <1>4

\* Every step keeps what is known of the builds and their roots.
LEMMA BuildStep ==
  ASSUME WorldOK, BuildInv, [BuildNext]_buildVars
  PROVE  BuildInv'
  <1>1. ASSUME NEW b \in Builds, Starting(b) PROVE BuildInv'
    BY <1>1, EndSteps, AllocateStep, ProfileBegins, BudgetStep, StartSteps DEF Starting
  <1>2. ASSUME NEW b \in Builds, Testing(b) PROVE BuildInv'
    BY <1>2, CaptureSteps, DumpSteps, RecordSteps, RestoreSteps, EvidenceStep, ProbeSteps
       DEF Testing
  <1>3. ASSUME NEW b \in Builds, Publishing(b) PROVE BuildInv'
    BY <1>3, FinalStopStep, ManifestSteps, AppendRowStep, BatchStep, ReplaceStep DEF Publishing
  <1>4. ASSUME NEW b \in Builds, Kill(b) PROVE BuildInv'
    BY <1>4, EndSteps
  <1>5. ASSUME NEW k \in Pools, LoadFile(k) \/ OrphanEnds(k) PROVE BuildInv'
    BY <1>5, LoadSteps
  <1>6. CASE UNCHANGED <<build, proc, shelf>>
    BY <1>6, AsideStep
  <1>7. \/ \E b \in Builds : Starting(b) \/ Testing(b) \/ Publishing(b) \/ Kill(b)
        \/ \E k \in Pools : LoadFile(k) \/ OrphanEnds(k)
        \/ UNCHANGED <<build, proc, shelf>>
    BY DEF BuildNext, buildVars, Select, Admit, RouteEnds, EditFile, EditRecipe
  <1> QED BY <1>1, <1>2, <1>3, <1>4, <1>5, <1>6, <1>7

\* At the start nothing is built, started or published.
LEMMA BuildStart == BuildInit => WorldOK /\ BuildInv
  <1> SUFFICES ASSUME BuildInit PROVE WorldOK /\ BuildInv
    OBVIOUS
  <1>1. WorldOK
    BY BuildAssumption DEF BuildInit, WorldOK, Bytes
  <1>2. ASSUME NEW b \in Builds
        PROVE  /\ build[b] \in BuildRecs /\ build[b].pc = "plan" /\ build[b].root = 0
               /\ build[b].rows = <<>> /\ build[b].plan \in Plans[b]
    <2>1. /\ build[b] \in [pc : {"plan"}, plan : UNION {Plans[c] : c \in Builds}, i : {0},
                           root : {0}, rows : {<<>>}, item : {None}]
          /\ build[b].plan \in Plans[b]
      BY DEF BuildInit
    <2>2. build[b].plan \in Seq(Profiles) /\ "plan" \in Pcs /\ <<>> \in Seq(Items)
      BY <2>1, BuildAssumption DEF Pcs
    <2>3. build[b] = [pc |-> "plan", plan |-> build[b].plan, i |-> 0, root |-> 0,
                      rows |-> <<>>, item |-> None]
      BY <2>1
    <2>4. ASSUME NEW plan \in Seq(Profiles)
          PROVE  [pc |-> "plan", plan |-> plan, i |-> 0, root |-> 0, rows |-> <<>>,
                  item |-> None] \in BuildRecs
      BY <2>2 DEF BuildRecs
    <2>5. build[b] \in BuildRecs
      BY <2>2, <2>3, <2>4
    <2> QED BY <2>1, <2>5
  <1>3. BuildTypeOK
    <2>1. build \in [Builds -> BuildRecs]
      BY <1>2 DEF BuildInit
    <2>2. proc \in [Pools -> ProcRecs]
      BY GoneType DEF BuildInit
    <2> QED BY <2>1, <2>2 DEF BuildInit, BuildTypeOK
  <1>4. ASSUME NEW b \in Builds PROVE BuildAt(b)
    <2>1. shelf = <<>>
      BY DEF BuildInit
    <2>2. PlaceAt(b)
      BY <1>2, <2>1 DEF PlaceAt, Working, At, AtProfile, Dumping, Restoring, Closing, Batching
    <2>3. TestAt(b) /\ CompleteAt(b)
      BY <1>2 DEF TestAt, TestOf, CompleteAt, Restoring, Closing
    <2>4. RowsAt(b)
      BY <1>2 DEF RowsAt
    <2> QED BY <2>2, <2>3, <2>4 DEF BuildAt
  <1>5. Published /\ RootsApart
    BY <1>2 DEF BuildInit, Published, RootsApart
  <1> QED BY <1>1, <1>3, <1>4, <1>5 DEF BuildInv

\* What a root is published with, its build's tests have shown.
LEMMA PublishedComplete ==
  ASSUME BuildInv, NEW r \in DOMAIN shelf, shelf[r].results # None
  PROVE  \E b \in Builds :
           /\ At(b, "done") /\ build[b].root = r /\ shelf[r].results = build[b].rows
           /\ Len(build[b].rows) = Len(build[b].plan)
           /\ \A i \in DOMAIN build[b].rows :
                LET row == build[b].rows[i]  dir == shelf[r].dirs[row.profile]
                IN  /\ row \in Items /\ row.profile = build[b].plan[i]
                    /\ RowTrue(row, <<b, i>>, dir)
                    /\ dir.manifest = row.projection /\ dir.image.by = <<b, i>>
  <1>1. PICK b \in Builds : At(b, "done") /\ build[b].root = r /\ shelf[r].results = build[b].rows
    BY DEF BuildInv, Published
  <1>2. BuildTypeOK /\ PlaceAt(b) /\ RowsAt(b) /\ CompleteAt(b)
    BY DEF BuildInv, BuildAt
  <1>3. /\ Len(build[b].rows) = Len(build[b].plan)
        /\ \A i \in DOMAIN build[b].rows :
             LET row == build[b].rows[i]  dir == shelf[r].dirs[row.profile]
             IN  /\ row.profile = build[b].plan[i] /\ row.status = "ok"
                 /\ dir.manifest = row.projection /\ dir.image.by = <<b, i>>
    BY <1>1, <1>2 DEF CompleteAt, At
  <1>4. \A i \in DOMAIN build[b].rows : build[b].rows[i] \in Items
    BY <1>2, RowPools
  <1>5. \A i \in DOMAIN build[b].rows :
          RowTrue(build[b].rows[i], <<b, i>>, shelf[r].dirs[build[b].rows[i].profile])
    BY <1>1, <1>2, <1>3 DEF RowsAt
  <1> QED BY <1>1, <1>3, <1>4, <1>5

\* The invariant holds throughout.
LEMMA BuildInvariance == BuildSpec => [](WorldOK /\ BuildInv)
  <1>1. BuildInit => WorldOK /\ BuildInv
    BY BuildStart
  <1>2. WorldOK /\ BuildInv /\ [BuildNext]_buildVars => (WorldOK /\ BuildInv)'
    BY WorldStep, BuildStep
  <1> QED BY <1>1, <1>2, PTL DEF BuildSpec

\* What the route can find is complete and tested, in every shelf of every size: a
\* row is published only if its profile's image is the one its own probe ran, and
\* no pool of the batch is left (main, build_publication_failures).
THEOREM PublishedIsTestedHolds == BuildSpec => []PublishedIsTested
  <1>1. BuildInv => PublishedIsTested
    <2> SUFFICES ASSUME BuildInv, NEW r \in DOMAIN shelf, shelf[r].results # None
                 PROVE  \E b \in Builds :
                   /\ build[b].root = r /\ shelf[r].results = build[b].rows
                   /\ Len(build[b].rows) = Len(build[b].plan)
                   /\ \A i \in DOMAIN build[b].rows :
                        LET row == build[b].rows[i]  dir == shelf[r].dirs[build[b].plan[i]]
                        IN  /\ row.profile = build[b].plan[i]
                            /\ row.smoke = <<b, i>> /\ dir.image.by = row.smoke
                            /\ proc[<<b, i>>].st = "gone"
      BY DEF PublishedIsTested
    <2>1. PICK b \in Builds :
            /\ At(b, "done") /\ build[b].root = r /\ shelf[r].results = build[b].rows
            /\ Len(build[b].rows) = Len(build[b].plan)
            /\ \A i \in DOMAIN build[b].rows :
                 LET row == build[b].rows[i]  dir == shelf[r].dirs[row.profile]
                 IN  /\ row \in Items /\ row.profile = build[b].plan[i]
                     /\ RowTrue(row, <<b, i>>, dir)
                     /\ dir.manifest = row.projection /\ dir.image.by = <<b, i>>
      BY PublishedComplete
    <2> QED BY <2>1 DEF RowTrue
  <1> QED BY <1>1, BuildInvariance, PTL

-----------------------------------------------------------------------------
(* The route.                                                              *)

\* A step leaves the shelf alone, adds a root or writes into that of a build at work.
LEMMA ShelfSteps ==
  ASSUME [BuildNext]_buildVars
  PROVE  \/ shelf' = shelf
         \/ shelf' = Append(shelf, NewRoot)
         \/ \E b \in Builds :
              /\ ~At(b, "done") /\ Working(b)
              /\ \E new : shelf' = [shelf EXCEPT ![build[b].root] = new]
  <1>1. ASSUME NEW b \in Builds, NEW dir, SetDir(b, dir)
        PROVE  \E new : shelf' = [shelf EXCEPT ![build[b].root] = new]
    BY <1>1 DEF SetDir
  <1>2. ASSUME NEW b \in Builds, Starting(b)
        PROVE  shelf' = shelf \/ shelf' = Append(shelf, NewRoot)
    BY <1>2 DEF Starting, PreflightRefuses, AllocateRoot, GuardRefuses, BudgetSpent, StartPool,
                PoolReady, PoolStartFails, StartTimesOut
  <1>3. ASSUME NEW b \in Builds, Testing(b), shelf' # shelf
        PROVE  /\ ~At(b, "done") /\ Working(b)
               /\ \E new : shelf' = [shelf EXCEPT ![build[b].root] = new]
    <2>1. CASE Dump(b) \/ DumpFails(b)
      BY <1>1, <2>1 DEF Dump, DumpFails, At, Working
    <2>2. CASE Restore(b) \/ RestoreFails(b)
      BY <1>1, <2>2 DEF Restore, RestoreFails, At, Working
    <2>3. CASE ProbePasses(b) \/ ProbeFails(b)
      BY <1>1, <2>3 DEF ProbePasses, ProbeFails, At, Working
    <2> QED BY <1>3, <2>1, <2>2, <2>3
            DEF Testing, ResolveLoaded, ValidateCapture, CaptureFails, Inventory, StopDumped,
                StopDumpedFails, Evidence
  <1>4. ASSUME NEW b \in Builds, Publishing(b), shelf' # shelf
        PROVE  /\ ~At(b, "done") /\ Working(b)
               /\ \E new : shelf' = [shelf EXCEPT ![build[b].root] = new]
    <2>1. CASE WriteManifest(b)
      BY <1>1, <1>4, <2>1 DEF WriteManifest, At, Working
    <2>2. CASE Replace(b)
      BY <2>2 DEF Replace, At, Working
    <2> QED BY <1>4, <2>1, <2>2 DEF Publishing, FinalStop, ValidateManifest, AppendRow, BatchCheck
  <1> QED BY <1>2, <1>3, <1>4
          DEF BuildNext, Kill, LoadFile, OrphanEnds, Select, Admit, RouteEnds, EditFile, EditRecipe, buildVars

\* A published root stays as it is.
LEMMA PublishedStays ==
  ASSUME BuildInv, [BuildNext]_buildVars,
         NEW r \in DOMAIN shelf, shelf[r].results # None
  PROVE  r \in DOMAIN shelf' /\ shelf'[r] = shelf[r]
  <1>1. shelf \in Seq(Roots) /\ BuildTypeOK
    BY DEF BuildInv, BuildTypeOK
  <1>2. CASE shelf' = shelf
    BY <1>2
  <1>3. CASE shelf' = Append(shelf, NewRoot)
    <2> HIDE DEF NewRoot
    <2>1. r \in 1..Len(shelf) /\ Len(shelf) \in Nat
      BY <1>1
    <2>2. DOMAIN shelf' = 1..Len(shelf) + 1 /\ \A s \in 1..Len(shelf) : shelf'[s] = shelf[s]
      BY <1>1, <1>3
    <2> QED BY <2>1, <2>2
  <1>4. ASSUME NEW b \in Builds, ~At(b, "done"), Working(b), NEW new,
               shelf' = [shelf EXCEPT ![build[b].root] = new]
        PROVE  r \in DOMAIN shelf' /\ shelf'[r] = shelf[r]
    <2>1. build[b].root # 0
      BY <1>4 DEF BuildInv, BuildAt, PlaceAt
    <2>2. PICK c \in Builds : At(c, "done") /\ build[c].root = r
      BY DEF BuildInv, Published
    <2>3. build[b].root # r
      BY <1>4, <2>1, <2>2 DEF BuildInv, RootsApart
    <2> QED BY <1>1, <1>4, <2>3
  <1> QED BY <1>2, <1>3, <1>4, ShelfSteps

\* A route stays what it was admitted as.
LEMMA RouteStep ==
  ASSUME BuildInv, RouteAt, [BuildNext]_buildVars
  PROVE  RouteAt'
  <1>1. CASE route' = route
    <2> SUFFICES ASSUME route.pc \in {"selected", "admitted"} PROVE RouteAt'
      BY <1>1 DEF RouteAt
    <2>1. /\ route.root \in DOMAIN shelf /\ shelf[route.root].results # None
          /\ Base[route.profile] = route.base
          /\ \E j \in DOMAIN shelf[route.root].results :
               shelf[route.root].results[j].profile = route.profile
          /\ route.pc = "admitted" =>
               /\ Selected.manifest.sha = route.sha
               /\ \A e \in Selected.manifest.closure : route.disk[e.path] = e.content
      BY DEF RouteAt
    <2>2. route.root \in DOMAIN shelf' /\ shelf'[route.root] = shelf[route.root]
      BY <2>1, PublishedStays
    <2> QED BY <1>1, <2>1, <2>2 DEF RouteAt, Selected
  <1>2. ASSUME NEW p \in Profiles, Select(p) PROVE RouteAt'
    <2>1. PICK k \in Preferred(p) :
            route' = [pc |-> "selected", sha |-> recipe[Base[p]], base |-> Base[p],
                      root |-> k[1], profile |-> RowAt(k).profile]
      BY <1>2 DEF Select
    <2>2. k \in Rows /\ Base[RowAt(k).profile] = Base[p]
      BY DEF Preferred, Compatible
    <2>3. k[1] \in DOMAIN shelf /\ k[2] \in DOMAIN shelf[k[1]].results
      BY <2>2 DEF Rows
    <2>4. shelf[k[1]].results # None
      BY <2>3 DEF None
    <2>5. shelf' = shelf
      BY <1>2 DEF Select
    <2> QED BY <2>1, <2>2, <2>3, <2>4, <2>5 DEF RouteAt, RowAt
  <1>3. CASE Admit
    <2>1. /\ route' = [pc |-> "admitted", sha |-> route.sha, base |-> route.base,
                       root |-> route.root, profile |-> route.profile, disk |-> disk]
          /\ shelf' = shelf /\ route.pc = "selected"
          /\ Selected.manifest.sha = route.sha
          /\ \A e \in Selected.manifest.closure : disk[e.path] = e.content
      BY <1>3 DEF Admit, ManifestValid, ClosureValid
    <2> QED BY <2>1 DEF RouteAt, Selected
  <1>4. CASE RouteEnds
    BY <1>4 DEF RouteAt, RouteEnds
  <1>5. route' = route \/ (\E p \in Profiles : Select(p)) \/ Admit \/ RouteEnds
    <2>1. ASSUME NEW b \in Builds, Starting(b) PROVE route' = route
      BY <2>1 DEF Starting, PreflightRefuses, AllocateRoot, GuardRefuses, BudgetSpent, StartPool,
                  PoolReady, PoolStartFails, StartTimesOut, Around
    <2>2. ASSUME NEW b \in Builds, Testing(b) PROVE route' = route
      BY <2>2 DEF Testing, ResolveLoaded, ValidateCapture, CaptureFails, Dump, DumpFails, Inventory,
                  StopDumped, StopDumpedFails, Restore, RestoreFails, Evidence, ProbePasses,
                  ProbeFails, Around
    <2>3. ASSUME NEW b \in Builds, Publishing(b) PROVE route' = route
      BY <2>3 DEF Publishing, FinalStop, WriteManifest, ValidateManifest, AppendRow, BatchCheck,
                  Replace, Around
    <2> QED BY <2>1, <2>2, <2>3
            DEF BuildNext, Kill, LoadFile, OrphanEnds, EditFile, EditRecipe, Around, buildVars
  <1> QED BY <1>1, <1>2, <1>3, <1>4, <1>5

\* What the warm route admits is this checkout's recipe, in an image that was
\* tested, and every source in it is on disk with the bytes it loaded, whoever
\* changes, builds or is killed meanwhile (compatible_profile_row).
THEOREM AdmittedMeansSameHolds == BuildSpec => []AdmittedMeansSame
  <1>1. BuildInit => RouteAt
    BY DEF BuildInit, RouteAt
  <1>2. WorldOK /\ BuildInv /\ RouteAt /\ [BuildNext]_buildVars => RouteAt'
    BY RouteStep
  <1>3. BuildInv /\ RouteAt => AdmittedMeansSame
    <2> SUFFICES ASSUME BuildInv, RouteAt, route.pc = "admitted"
                 PROVE  /\ Selected.manifest.sha = route.sha /\ Base[route.profile] = route.base
                        /\ Selected.image # None
                        /\ \A r \in Selected.image.mem :
                             \E e \in Selected.manifest.closure :
                               /\ e.name = r.name /\ e.content = r.content
                               /\ route.disk[e.path] = r.content
      BY DEF AdmittedMeansSame
    <2>1. /\ route.root \in DOMAIN shelf /\ shelf[route.root].results # None
          /\ Base[route.profile] = route.base /\ Selected.manifest.sha = route.sha
          /\ \A e \in Selected.manifest.closure : route.disk[e.path] = e.content
      BY DEF RouteAt
    <2>2. PICK j \in DOMAIN shelf[route.root].results :
            shelf[route.root].results[j].profile = route.profile
      BY DEF RouteAt
    <2>3. PICK b \in Builds :
            /\ shelf[route.root].results = build[b].rows
            /\ \A i \in DOMAIN build[b].rows :
                 LET row == build[b].rows[i]  dir == shelf[route.root].dirs[row.profile]
                 IN  /\ RowTrue(row, <<b, i>>, dir)
                     /\ dir.manifest = row.projection /\ dir.image.by = <<b, i>>
      BY <2>1, PublishedComplete
    <2>4. /\ Selected.image \in Images
          /\ Covers(Selected.manifest.closure, Selected.image.mem)
      BY <2>2, <2>3 DEF RowTrue, Selected
    <2>5. Selected.image # None
      BY <2>4 DEF Images, None
    <2> QED BY <2>1, <2>4, <2>5 DEF Covers
  <1> QED BY <1>1, <1>2, <1>3, BuildInvariance, PTL DEF BuildSpec

-----------------------------------------------------------------------------
(* Source capture: what is published of a source tree.                    *)

IsASeq(s) == \E S : s \in Seq(S)

\* A record, a visit or a copy comes after those before it (visit, the package).
LEMMA Appended ==
  ASSUME NEW s, IsASeq(s), NEW r
  PROVE  /\ IsASeq(Append(s, r)) /\ Append(s, r) # <<>>
         /\ Len(s) \in Nat /\ DOMAIN s = 1..Len(s)
         /\ Len(Append(s, r)) = Len(s) + 1
         /\ DOMAIN Append(s, r) = 1..(Len(s) + 1)
         /\ \A i \in 1..Len(s) : Append(s, r)[i] = s[i]
         /\ Append(s, r)[Len(s) + 1] = r
  <1>1. PICK S : s \in Seq(S)
    BY DEF IsASeq
  <1>2. s \in Seq(S \cup {r}) /\ r \in S \cup {r}
    BY <1>1
  <1>3. Append(s, r) \in Seq(S \cup {r})
    BY <1>2
  <1> QED BY <1>1, <1>2, <1>3 DEF IsASeq

\* The visits that go on when the innermost returns (visit).
LEMMA FrontType ==
  ASSUME NEW S, NEW s \in Seq(S), s # <<>>
  PROVE  /\ Len(s) \in Nat \ {0} /\ DOMAIN s = 1..Len(s)
         /\ Last(s) = s[Len(s)] /\ Last(s) \in S
         /\ Front(s) \in Seq(S) /\ Len(Front(s)) = Len(s) - 1
         /\ \A i \in 1..(Len(s) - 1) : Front(s)[i] = s[i]
  <1>1. Len(s) \in Nat \ {0} /\ DOMAIN s = 1..Len(s) /\ Last(s) = s[Len(s)] /\ Last(s) \in S
    BY DEF Last
  <1> QED BY <1>1 DEF Front

\* The same of any sequence, and what the innermost adds to it (visit).
LEMMA Fronted ==
  ASSUME NEW s, IsASeq(s), s # <<>>
  PROVE  /\ IsASeq(Front(s)) /\ Len(Front(s)) = Len(s) - 1
         /\ Len(s) \in Nat \ {0} /\ DOMAIN s = 1..Len(s)
         /\ DOMAIN Front(s) = 1..(Len(s) - 1)
         /\ \A i \in 1..(Len(s) - 1) : Front(s)[i] = s[i]
         /\ Last(s) = s[Len(s)]
         /\ s = Append(Front(s), Last(s))
  <1>1. PICK S : s \in Seq(S)
    BY DEF IsASeq
  <1>2. Len(s) \in Nat \ {0} /\ DOMAIN s = 1..Len(s) /\ Last(s) = s[Len(s)] /\ Last(s) \in S
    BY <1>1, FrontType
  <1>3. /\ Front(s) \in Seq(S) /\ Len(Front(s)) = Len(s) - 1
        /\ \A i \in 1..(Len(s) - 1) : Front(s)[i] = s[i]
    BY <1>1, FrontType
  <1> DEFINE f == Front(s)
             e == Last(s)
  <1>4. f \in Seq(S) /\ Len(f) = Len(s) - 1 /\ e \in S /\ e = s[Len(s)]
        /\ DOMAIN f = 1..(Len(s) - 1) /\ \A i \in 1..(Len(s) - 1) : f[i] = s[i]
    BY <1>2, <1>3
  <1> HIDE DEF f, e
  <1>8. IsASeq(f)
    BY <1>4 DEF IsASeq
  <1>9. Append(f, e) \in Seq(S)
    BY <1>4
  <1>5. /\ Append(f, e) \in Seq(S) /\ Len(Append(f, e)) = Len(s)
        /\ \A i \in 1..(Len(s) - 1) : Append(f, e)[i] = s[i]
        /\ Append(f, e)[Len(s)] = s[Len(s)]
    <2>1. Len(f) + 1 = Len(s) /\ 1..Len(f) = 1..(Len(s) - 1)
      BY <1>2, <1>4
    <2>2. /\ Len(Append(f, e)) = Len(f) + 1 /\ Append(f, e)[Len(f) + 1] = e
          /\ \A i \in 1..Len(f) : Append(f, e)[i] = f[i]
      BY <1>8, Appended
    <2> QED BY <1>4, <1>9, <2>1, <2>2
  <1>6. \A i \in 1..Len(s) : Append(f, e)[i] = s[i]
    BY <1>2, <1>5
  <1>7. s = Append(f, e)
    BY <1>1, <1>5, <1>6
  <1> QED BY <1>2, <1>4, <1>7, <1>8 DEF f, e

\* The least of some numbers (the next import, the next file to copy).
LEMMA Least ==
  ASSUME NEW S \in SUBSET Nat, S # {}
  PROVE  Min(S) \in S /\ \A i \in S : Min(S) <= i
  <1> DEFINE R == {p \in Nat \X Nat : p[1] < p[2]}
  <1>1. IsWellFoundedOn(R, Nat)
    BY NatLessThanWellFounded DEF OpToRel
  <1>2. PICK x \in S : \A y \in S : ~ (<<y, x>> \in R)
    BY <1>1, WFMin
  <1>3. ASSUME NEW y \in S PROVE x <= y
    <2>1. x \in Nat /\ y \in Nat /\ <<y, x>> \in Nat \X Nat
      OBVIOUS
    <2>2. ~(y < x)
      BY <1>2, <2>1
    <2> QED BY <2>1, <2>2
  <1> QED BY <1>2, <1>3 DEF Min

Versions == 0..3
Read == 0..2
IsRecord(r) ==
  /\ r = [decl |-> r.decl, declPkg |-> r.declPkg, lit |-> r.lit, kind |-> r.kind,
          path |-> r.path, pkg |-> r.pkg, sha |-> r.sha, fromRoot |-> r.fromRoot,
          via |-> r.via]
  /\ r.sha \in Read /\ (r.kind \in Captured => r.path \in Paths)
IsFrame(f) ==
  /\ f = [file |-> f.file, pkg |-> f.pkg, mounted |-> f.mounted, next |-> f.next]
  /\ f.file \in Paths /\ f.next \in Nat

Early == {"infer", "begin", "entry"}
Settled == {"transport", "package", "published"}

SourceTypeOK ==
  /\ world \in Worlds /\ content \in [Paths -> Versions]
  /\ phase \in Early \cup {"capture", "refused"} \cup Settled
  /\ sha0 \in Read /\ parsed \in [Paths -> Read] /\ failed \in BOOLEAN
  /\ seen \subseteq Paths /\ Entry \in seen
  /\ IsASeq(stack) /\ \A i \in DOMAIN stack : IsFrame(stack[i])
  /\ IsASeq(records) /\ \A r \in Records : IsRecord(r)
  /\ edge # NoEdge => edge = <<edge[1]>> /\ IsRecord(edge[1]) /\ edge[1].kind \in Captured
  /\ snap \in [Paths -> Versions]
  /\ IsASeq(out) /\ \A i \in DOMAIN out : out[i].of \in Paths

\* What a digest or a reading is not later than: the file, or what it was when the
\* capture ended.
Bound(p) == IF phase \in Settled THEN snap[p] ELSE content[p]

\* Nothing recorded is later than the end of the capture.
RecordedBefore ==
  /\ \A p \in Paths : Bound(p) <= content[p] /\ parsed[p] <= Bound(p)
  /\ sha0 <= Bound(Entry)
  /\ \A r \in Records : r.kind \in Captured => r.sha <= Bound(r.path)
  /\ edge # NoEdge => edge[1].sha <= Bound(edge[1].path)

\* The text that was analysed of a file.
Parsed(p) == world.lits[p][parsed[p]]

\* The capture begins with nothing but the entrypoint.
StartsAt ==
  phase \in Early =>
    /\ stack = <<>> /\ records = <<>> /\ edge = NoEdge /\ seen = {Entry} /\ ~failed
    /\ \A p \in Paths : parsed[p] = 0

\* Every file that was visited was read, not before it was digested as the entrypoint
\* or as an import, and what it says is no secret.
VisitedAt ==
  /\ \A p \in Paths : parsed[p] # 0 => p \in seen
  /\ ~failed => \A r \in Records : r.kind \in Captured => r.path \in seen
  /\ phase \notin Early /\ ~failed =>
       \A p \in seen :
         /\ parsed[p] # 0 /\ \A j \in DOMAIN Parsed(p) : Parsed(p)[j] # Dynamic
         /\ \/ p = Entry /\ sha0 <= parsed[p]
            \/ \E r \in Records : r.kind \in Captured /\ r.path = p /\ r.sha <= parsed[p]

Recorded(p, j) == \E r \in Records : r.decl = p /\ r.lit = Parsed(p)[j]

\* An import of a visited file is recorded, or ahead of a visit that goes on.
WalkAt ==
  /\ \A i \in DOMAIN stack : parsed[stack[i].file] # 0
  /\ edge # NoEdge => /\ stack # <<>> /\ Ahead # {}
                      /\ edge[1].decl = Top.file /\ edge[1].lit = Text[Min(Ahead)]
  /\ \A p \in Paths : parsed[p] # 0 =>
       \A j \in DOMAIN Parsed(p) : Parsed(p)[j] # Dynamic =>
         Recorded(p, j) \/ \E i \in DOMAIN stack : stack[i].file = p /\ stack[i].next <= j
  /\ phase \in Settled => stack = <<>>

Copy(k, i) ==
  /\ out[k].pkg = Input(i).pkg /\ out[k].of = Input(i).path
  /\ out[k].bytes = Input(i).sha /\ out[k].bytes = snap[Input(i).path]

\* A copied file is as it was when the capture ended.
CopiedAt ==
  /\ phase \notin {"package", "published"} => out = <<>>
  /\ phase \in {"package", "published"} =>
       ~failed /\ ~Collision /\ \A r \in Records : ~Refusing(r)
  /\ \A k \in DOMAIN out : \E i \in Inputs : Copy(k, i)
  /\ phase = "published" => Unstaged = {}

SourceInv == SourceTypeOK /\ RecordedBefore /\ StartsAt /\ VisitedAt /\ WalkAt /\ CopiedAt

-----------------------------------------------------------------------------
(* Facts about the capture's operators.                                    *)

\* What an import resolves to, where it is captured, is a file (_resolve_edge).
LEMMA ResolvedFile ==
  ASSUME NEW p, NEW lit, NEW mounted, Resolve(p, lit, mounted).kind \in Captured
  PROVE  Resolve(p, lit, mounted).path \in Paths
  <1>1. ASSUME NEW q PROVE Exists(q) => q \in Paths
    BY DEF Exists
  <1>2. ASSUME NEW rel PROVE FromTrees(rel).kind \in Captured => FromTrees(rel).path \in Paths
    BY <1>1 DEF FromTrees, To, Captured, Missing
  <1>3. ResolveAbsolute(lit).kind \in Captured => ResolveAbsolute(lit).path \in Paths
    BY <1>1 DEF ResolveAbsolute, To, Captured
  <1>4. ResolveLogical(lit).kind \in Captured => ResolveLogical(lit).path \in Paths
    BY <1>1 DEF ResolveLogical, To, Captured
  <1>5. ASSUME NEW q \in Paths
        PROVE  ResolveBeside(q, mounted).kind \in Captured => ResolveBeside(q, mounted).path \in Paths
    BY <1>2 DEF ResolveBeside, To, Captured
  <1>6. ResolveElsewhere(p, lit, mounted).kind \in Captured
          => ResolveElsewhere(p, lit, mounted).path \in Paths
    BY <1>1, <1>2 DEF ResolveElsewhere, To, Captured
  <1> QED BY <1>1, <1>3, <1>4, <1>5, <1>6 DEF Resolve

\* What a file says is a sequence of literals (analyze).
LEMMA ParsedText ==
  ASSUME SourceTypeOK, NEW p \in Paths, parsed[p] # 0
  PROVE  IsASeq(Parsed(p)) /\ Len(Parsed(p)) \in Nat /\ DOMAIN Parsed(p) = 1..Len(Parsed(p))
  <1>1. parsed[p] \in {1, 2}
    BY DEF SourceTypeOK, Read
  <1>2. world \in Worlds
    BY DEF SourceTypeOK
  <1>3. Parsed(p) \in Seq(ToSet(Parsed(p)))
    BY <1>1, <1>2, WorldsAssumption DEF Parsed
  <1> QED BY <1>3 DEF IsASeq

\* The visit on top of the others (visit).
LEMMA TopFrame ==
  ASSUME SourceTypeOK, stack # <<>>
  PROVE  /\ Len(stack) \in Nat \ {0} /\ DOMAIN stack = 1..Len(stack)
         /\ Top = stack[Len(stack)] /\ IsFrame(Top)
         /\ IsASeq(Front(stack)) /\ Len(Front(stack)) = Len(stack) - 1
         /\ DOMAIN Front(stack) = 1..(Len(stack) - 1)
         /\ \A i \in 1..(Len(stack) - 1) : Front(stack)[i] = stack[i]
  <1>1. IsASeq(stack) /\ \A i \in DOMAIN stack : IsFrame(stack[i])
    BY DEF SourceTypeOK
  <1>2. /\ Len(stack) \in Nat \ {0} /\ DOMAIN stack = 1..Len(stack)
        /\ Top = stack[Len(stack)]
        /\ IsASeq(Front(stack)) /\ Len(Front(stack)) = Len(stack) - 1
        /\ DOMAIN Front(stack) = 1..(Len(stack) - 1)
        /\ \A i \in 1..(Len(stack) - 1) : Front(stack)[i] = stack[i]
    BY <1>1, Fronted DEF Top
  <1>3. Len(stack) \in DOMAIN stack
    BY <1>2
  <1> QED BY <1>1, <1>2, <1>3

\* The imports ahead of a visit are positions of its text.
LEMMA AheadFirst ==
  ASSUME SourceTypeOK, WalkAt, stack # <<>>
  PROVE  /\ Top.file \in Paths /\ parsed[Top.file] # 0 /\ Text = Parsed(Top.file)
         /\ Ahead \subseteq Nat
         /\ Ahead # {} => /\ Min(Ahead) \in Ahead /\ Min(Ahead) \in Nat
                          /\ \A i \in Ahead : Min(Ahead) <= i
  <1>1. Top.file \in Paths /\ parsed[Top.file] # 0
    BY TopFrame DEF WalkAt, IsFrame
  <1>2. Text = Parsed(Top.file) /\ DOMAIN Text = 1..Len(Text) /\ Len(Text) \in Nat
    BY <1>1, ParsedText DEF Text, Parsed
  <1>3. Ahead \subseteq Nat
    BY <1>2 DEF Ahead
  <1>4. Ahead # {} => Min(Ahead) \in Ahead /\ \A i \in Ahead : Min(Ahead) <= i
    BY <1>3, Least
  <1> QED BY <1>1, <1>2, <1>3, <1>4

\* The visits when the next import has been recorded.
LEMMA AdvancedFrames ==
  ASSUME SourceTypeOK, WalkAt, stack # <<>>, Ahead # {}
  PROVE  /\ IsASeq(Advanced) /\ Len(Advanced) = Len(stack)
         /\ DOMAIN Advanced = 1..Len(stack)
         /\ \A i \in 1..(Len(stack) - 1) : Advanced[i] = stack[i]
         /\ Advanced[Len(stack)].file = Top.file /\ Advanced[Len(stack)].pkg = Top.pkg
         /\ Advanced[Len(stack)].next = Min(Ahead) + 1
         /\ \A i \in DOMAIN Advanced : IsFrame(Advanced[i])
  <1> DEFINE f == [Top EXCEPT !.next = Min(Ahead) + 1]
             s == Front(stack)
             n == Len(stack)
  <1>1. /\ n \in Nat \ {0} /\ IsASeq(s) /\ Len(s) = n - 1
        /\ \A i \in 1..(n - 1) : s[i] = stack[i]
        /\ IsFrame(Top)
    BY TopFrame
  <1>2. Min(Ahead) \in Nat
    BY AheadFirst
  <1>3. f.file = Top.file /\ f.pkg = Top.pkg /\ f.next = Min(Ahead) + 1 /\ IsFrame(f)
    BY <1>1, <1>2 DEF IsFrame
  <1> HIDE DEF f, s
  <1>4. /\ IsASeq(Append(s, f)) /\ Len(Append(s, f)) = n /\ DOMAIN Append(s, f) = 1..n
        /\ \A i \in 1..(n - 1) : Append(s, f)[i] = s[i]
        /\ Append(s, f)[n] = f
    <2>1. /\ IsASeq(Append(s, f)) /\ Len(Append(s, f)) = Len(s) + 1
          /\ DOMAIN Append(s, f) = 1..(Len(s) + 1)
          /\ \A i \in 1..Len(s) : Append(s, f)[i] = s[i]
          /\ Append(s, f)[Len(s) + 1] = f
      BY <1>1, Appended
    <2>2. Len(s) + 1 = n
      BY <1>1
    <2> QED BY <1>1, <2>1, <2>2
  <1>5. Advanced = Append(s, f)
    BY DEF Advanced, s, f
  <1>6. \A i \in 1..(n - 1) : IsFrame(stack[i])
    BY <1>1, TopFrame DEF SourceTypeOK
  <1>7. ASSUME NEW i \in 1..n PROVE IsFrame(Append(s, f)[i])
    <2>1. CASE i = n
      BY <1>3, <1>4, <2>1
    <2>2. CASE i # n
      <3>1. i \in 1..(n - 1)
        BY <1>1, <2>2
      <3> QED BY <1>1, <1>4, <1>6, <3>1
    <2> QED BY <2>1, <2>2
  <1> QED BY <1>1, <1>3, <1>4, <1>5, <1>7

\* One import more is on record (visit).
LEMMA RecordAdded ==
  ASSUME SourceTypeOK, NEW r, records' = Append(records, r)
  PROVE  /\ IsASeq(records') /\ Records' = Records \cup {r}
  <1>1. /\ IsASeq(records') /\ DOMAIN records = 1..Len(records) /\ Len(records) \in Nat
        /\ DOMAIN records' = 1..(Len(records) + 1)
        /\ \A i \in 1..Len(records) : records'[i] = records[i]
        /\ records'[Len(records) + 1] = r
    BY Appended DEF SourceTypeOK
  <1>2. Records' \subseteq Records \cup {r}
    <2>1. ASSUME NEW i \in DOMAIN records' PROVE records'[i] \in Records \cup {r}
      <3>1. CASE i = Len(records) + 1
        BY <1>1, <3>1
      <3>2. CASE i # Len(records) + 1
        <4>1. i \in 1..Len(records)
          BY <1>1, <3>2
        <4> QED BY <1>1, <4>1 DEF Records
      <3> QED BY <3>1, <3>2
    <2> QED BY <2>1 DEF Records
  <1>3. ASSUME NEW q \in Records PROVE q \in Records'
    <2>1. PICK i \in DOMAIN records : q = records[i]
      BY DEF Records
    <2>2. i \in DOMAIN records' /\ records'[i] = q
      BY <1>1, <2>1
    <2> QED BY <2>2 DEF Records
  <1>4. r \in Records'
    <2>1. Len(records) + 1 \in DOMAIN records'
      BY <1>1
    <2> QED BY <1>1, <2>1 DEF Records
  <1> QED BY <1>1, <1>2, <1>3, <1>4

\* A file that is visited: read now unless it was before, and its imports next
\* (analyze, visit).
LEMMA Visited ==
  ASSUME SourceTypeOK, NEW p \in Paths, NEW pkg, NEW mounted, NEW below,
         IsASeq(below), \A i \in DOMAIN below : IsFrame(below[i]),
         Visit(p, pkg, mounted, below)
  PROVE  /\ parsed' \in [Paths -> Read] /\ failed' \in BOOLEAN
         /\ IsASeq(stack') /\ \A i \in DOMAIN stack' : IsFrame(stack'[i])
         /\ \A q \in Paths : q # p => parsed'[q] = parsed[q]
         /\ parsed[p] # 0 => parsed'[p] = parsed[p]
         /\ parsed[p] = 0 => parsed'[p] \in {0, content[p]}
         /\ parsed'[p] = 0 => failed' /\ stack' = below
         /\ parsed'[p] # 0 =>
              /\ Len(below) \in Nat /\ DOMAIN below = 1..Len(below)
              /\ DOMAIN stack' = 1..(Len(below) + 1)
              /\ \A i \in 1..Len(below) : stack'[i] = below[i]
              /\ stack'[Len(below) + 1].file = p /\ stack'[Len(below) + 1].next = 1
              /\ stack'[Len(below) + 1].pkg = pkg
         /\ ~failed' => /\ ~failed /\ parsed'[p] # 0
                        /\ \A j \in DOMAIN world.lits[p][parsed'[p]] :
                             world.lits[p][parsed'[p]][j] # Dynamic
  <1> DEFINE v == IF parsed[p] # 0 THEN parsed[p] ELSE IF Exists(p) THEN content[p] ELSE 0
             f == [file |-> p, pkg |-> pkg, mounted |-> mounted, next |-> 1]
  <1>1. /\ parsed' = [parsed EXCEPT ![p] = v]
        /\ failed' = (failed \/ v = 0 \/ \E i \in DOMAIN world.lits[p][v] :
                                           world.lits[p][v][i] = Dynamic)
        /\ stack' = IF v = 0 THEN below ELSE Append(below, f)
    BY DEF Visit
  <1>2. v \in Read /\ (parsed[p] # 0 => v = parsed[p]) /\ (parsed[p] = 0 => v \in {0, content[p]})
    BY DEF SourceTypeOK, Read, Exists
  <1>3. IsFrame(f) /\ f.file = p /\ f.pkg = pkg /\ f.next = 1
    BY DEF IsFrame
  <1> HIDE DEF v, f
  <1>4. parsed' \in [Paths -> Read] /\ parsed'[p] = v /\ \A q \in Paths : q # p => parsed'[q] = parsed[q]
    BY <1>1, <1>2 DEF SourceTypeOK
  <1>5. failed' \in BOOLEAN
    BY <1>1 DEF SourceTypeOK
  <1>6. CASE v = 0
    BY <1>1, <1>2, <1>4, <1>5, <1>6
  <1>7. CASE v # 0
    <2>1. stack' = Append(below, f)
      BY <1>1, <1>7
    <2>2. /\ IsASeq(Append(below, f)) /\ Len(below) \in Nat /\ DOMAIN below = 1..Len(below)
          /\ DOMAIN Append(below, f) = 1..(Len(below) + 1)
          /\ \A i \in 1..Len(below) : Append(below, f)[i] = below[i]
          /\ Append(below, f)[Len(below) + 1] = f
      BY Appended
    <2>3. ASSUME NEW i \in DOMAIN stack' PROVE IsFrame(stack'[i])
      <3>1. CASE i = Len(below) + 1
        BY <1>3, <2>1, <2>2, <3>1
      <3>2. CASE i # Len(below) + 1
        <4>1. i \in 1..Len(below)
          BY <2>1, <2>2, <3>2
        <4> QED BY <2>1, <2>2, <4>1
      <3> QED BY <3>1, <3>2
    <2>4. ~failed' => /\ ~failed
                      /\ \A j \in DOMAIN world.lits[p][v] : world.lits[p][v][j] # Dynamic
      BY <1>1, <1>7
    <2> QED BY <1>2, <1>3, <1>4, <1>5, <1>7, <2>1, <2>2, <2>3, <2>4
  <1> QED BY <1>6, <1>7

\* The visit of a file that can be read goes on top of those that are on their way.
LEMMA VisitedTop ==
  ASSUME SourceTypeOK, NEW p \in Paths, NEW pkg, NEW mounted, NEW below,
         IsASeq(below), \A i \in DOMAIN below : IsFrame(below[i]),
         Visit(p, pkg, mounted, below), parsed'[p] # 0
  PROVE  /\ Len(below) \in Nat /\ DOMAIN below = 1..Len(below)
         /\ DOMAIN stack' = 1..(Len(below) + 1)
         /\ \A i \in 1..Len(below) : stack'[i] = below[i]
         /\ stack'[Len(below) + 1].file = p /\ stack'[Len(below) + 1].next = 1
         /\ stack'[Len(below) + 1].pkg = pkg
  BY Visited

\* What resolving an import does: it is on record, or about to be read (visit).
LEMMA ResolvedImport ==
  ASSUME SourceTypeOK, ResolveEdge
  PROVE  /\ stack # <<>> /\ Ahead # {} /\ phase = "capture" /\ edge = NoEdge
         /\ UNCHANGED <<world, content, phase, sha0, seen, parsed, failed, snap, out>>
         /\ \E r : /\ IsRecord(r) /\ r.sha = 0
                   /\ r.decl = Top.file /\ r.lit = Text[Min(Ahead)]
                   /\ \/ r.kind \in Captured /\ edge' = <<r>> /\ records' = records /\ stack' = stack
                      \/ r.kind \notin Captured /\ edge' = NoEdge
                         /\ records' = Append(records, r) /\ stack' = Advanced
  <1> DEFINE lit == Text[Min(Ahead)]
             t == Resolve(Top.file, lit, Top.mounted)
             r == [decl |-> Top.file, declPkg |-> Top.pkg, lit |-> lit, kind |-> t.kind,
                   path |-> t.path, pkg |-> PackagePath(t, lit, Top.pkg), sha |-> 0,
                   fromRoot |-> FromRoot(Top.file, lit, t), via |-> "not_followed"]
  <1>1. t.kind \in Captured => t.path \in Paths
    BY ResolvedFile
  <1>2. \/ t.kind \in Captured /\ edge' = <<r>> /\ records' = records /\ stack' = stack
        \/ t.kind \notin Captured /\ records' = Append(records, r) /\ stack' = Advanced
           /\ edge' = edge
    BY DEF ResolveEdge
  <1>3. r.kind = t.kind /\ r.path = t.path /\ r.sha = 0 /\ r.decl = Top.file /\ r.lit = lit
    OBVIOUS
  <1> HIDE DEF t
  <1>4. IsRecord(r)
    BY <1>1 DEF IsRecord, Read
  <1> HIDE DEF r
  <1>5. /\ stack # <<>> /\ Ahead # {} /\ phase = "capture" /\ edge = NoEdge
        /\ UNCHANGED <<world, content, phase, sha0, seen, parsed, failed, snap, out>>
    BY DEF ResolveEdge
  <1> QED BY <1>2, <1>3, <1>4, <1>5

\* What digesting an import does (read_regular_file_beneath).
LEMMA DigestedImport ==
  ASSUME SourceTypeOK, DigestEdge
  PROVE  /\ phase = "capture" /\ edge # NoEdge
         /\ UNCHANGED <<world, content, phase, sha0, stack, records, seen, parsed, failed, snap, out>>
         /\ edge' = <<edge'[1]>> /\ IsRecord(edge'[1])
         /\ edge'[1].kind = edge[1].kind /\ edge'[1].path = edge[1].path
         /\ edge'[1].decl = edge[1].decl /\ edge'[1].lit = edge[1].lit
         /\ edge'[1].sha \in {0, content[edge[1].path]}
  <1> DEFINE e == edge[1]
             x == IF Exists(e.path) THEN content[e.path] ELSE 0
             y == IF Exists(e.path) THEN "digested" ELSE "unreadable"
             f == [e EXCEPT !.sha = x]
             d == [e EXCEPT !.sha = x, !.via = y]
  <1>1. edge' = <<d>> /\ IsRecord(e)
    BY DEF DigestEdge, SourceTypeOK
  <1>2. x \in Read /\ x \in {0, content[e.path]}
    BY DEF Exists, Read
  <1> HIDE DEF e, x, y
  <1>3. d = [f EXCEPT !.via = y]
    OBVIOUS
  <1>4. /\ IsRecord(f) /\ f.kind = e.kind /\ f.path = e.path /\ f.decl = e.decl /\ f.lit = e.lit
        /\ f.sha = x
    BY <1>1, <1>2 DEF IsRecord
  <1> HIDE DEF d, f
  <1>5. /\ IsRecord(d) /\ d.kind = e.kind /\ d.path = e.path /\ d.decl = e.decl /\ d.lit = e.lit
        /\ d.sha = x
    BY <1>3, <1>4 DEF IsRecord
  <1>6. edge'[1] = d
    BY <1>1
  <1>7. /\ phase = "capture" /\ edge # NoEdge
        /\ UNCHANGED <<world, content, phase, sha0, stack, records, seen, parsed, failed, snap, out>>
    BY DEF DigestEdge
  <1> QED BY <1>1, <1>2, <1>5, <1>6, <1>7 DEF e

\* What following an import does: its file is visited, unless it was or is being, or
\* cannot be read (visit).
LEMMA FollowedImport ==
  ASSUME SourceTypeOK, WalkAt, FollowEdge
  PROVE  /\ phase = "capture" /\ edge # NoEdge /\ edge' = NoEdge
         /\ stack # <<>> /\ Ahead # {}
         /\ UNCHANGED <<world, content, phase, sha0, snap, out>>
         /\ \E r : /\ IsRecord(r) /\ r.kind \in Captured /\ r.path \in Paths
                   /\ r.kind = edge[1].kind /\ r.path = edge[1].path /\ r.sha = edge[1].sha
                   /\ r.decl = edge[1].decl /\ r.lit = edge[1].lit
                   /\ records' = Append(records, r)
                   /\ \/ /\ r.path \notin seen /\ seen' = seen \cup {r.path}
                         /\ Visit(r.path, r.pkg, r.kind = "mounted_source", Advanced)
                      \/ /\ seen' = seen /\ stack' = Advanced /\ parsed' = parsed
                         /\ failed' \in BOOLEAN /\ (failed => failed')
                         /\ ~failed' => r.path \in Active \/ r.path \in seen
  <1> DEFINE e == edge[1]
             h == How(e)
             r == [e EXCEPT !.via = h]
  <1>1. IsRecord(e) /\ e.kind \in Captured
    BY DEF SourceTypeOK, FollowEdge
  <1>2. h \in {"cycle", "already_seen", "unreadable", "followed"}
        /\ (h = "followed" => e.path \notin seen)
        /\ (h # "followed" => h = "unreadable" \/ e.path \in Active \/ e.path \in seen)
    BY DEF How
  <1>3. /\ records' = Append(records, r)
        /\ seen' = IF r.via = "followed" THEN seen \cup {r.path} ELSE seen
        /\ IF r.via = "followed"
           THEN Visit(r.path, r.pkg, r.kind = "mounted_source", Advanced)
           ELSE /\ failed' = (failed \/ r.via = "unreadable")
                /\ stack' = Advanced /\ parsed' = parsed
    BY DEF FollowEdge
  <1>4. /\ phase = "capture" /\ edge # NoEdge /\ edge' = NoEdge
        /\ UNCHANGED <<world, content, phase, sha0, snap, out>>
    BY DEF FollowEdge
  <1>5. stack # <<>> /\ Ahead # {}
    BY <1>4 DEF WalkAt
  <1> HIDE DEF e, h
  <1>6. /\ IsRecord(r) /\ r.kind = e.kind /\ r.path = e.path /\ r.sha = e.sha
        /\ r.decl = e.decl /\ r.lit = e.lit /\ r.via = h
    BY <1>1 DEF IsRecord
  <1> HIDE DEF r
  <1>7. r.path \in Paths /\ r.kind \in Captured
    BY <1>1, <1>6 DEF IsRecord
  <1>8. \/ /\ r.path \notin seen /\ seen' = seen \cup {r.path}
           /\ Visit(r.path, r.pkg, r.kind = "mounted_source", Advanced)
        \/ /\ seen' = seen /\ stack' = Advanced /\ parsed' = parsed
           /\ failed' \in BOOLEAN /\ (failed => failed')
           /\ ~failed' => r.path \in Active \/ r.path \in seen
    <2>1. CASE h = "followed"
      BY <1>2, <1>3, <1>6, <2>1
    <2>2. CASE h # "followed"
      <3>1. seen' = seen /\ stack' = Advanced /\ parsed' = parsed
        BY <1>3, <1>6, <2>2
      <3>2. failed' = (failed \/ h = "unreadable")
        BY <1>3, <1>6, <2>2
      <3>3. failed' \in BOOLEAN /\ (failed => failed')
        BY <3>2 DEF SourceTypeOK
      <3> QED BY <1>2, <1>6, <2>2, <3>1, <3>2, <3>3
    <2> QED BY <2>1, <2>2
  <1> QED BY <1>3, <1>4, <1>5, <1>6, <1>7, <1>8 DEF e

-----------------------------------------------------------------------------
(* The types.                                                              *)

\* Types at the start of a capture.
LEMMA SourceTypeStart == Init => SourceTypeOK
  <1> SUFFICES ASSUME Init PROVE SourceTypeOK
    OBVIOUS
  <1>1. IsASeq(<<>>) /\ DOMAIN <<>> = {}
    BY DEF IsASeq
  <1>2. world \in Worlds /\ content \in [Paths -> Versions]
    BY WorldsAssumption DEF Init, Versions
  <1>3. phase \in Early
    BY DEF Init, Early
  <1>4. /\ sha0 \in Read /\ parsed \in [Paths -> Read] /\ failed \in BOOLEAN
        /\ seen \subseteq Paths /\ Entry \in seen /\ snap \in [Paths -> Versions]
    <2>1. /\ sha0 = 0 /\ parsed = [p \in Paths |-> 0] /\ failed = FALSE
          /\ seen = {Entry} /\ snap = [p \in Paths |-> 0]
      BY DEF Init
    <2>2. sha0 \in Read /\ parsed \in [Paths -> Read] /\ snap \in [Paths -> Versions]
      BY <2>1 DEF Read, Versions
    <2>3. failed \in BOOLEAN
      BY <2>1
    <2>4. seen \subseteq Paths /\ Entry \in seen
      BY <2>1, EntryAssumption
    <2> QED BY <2>2, <2>3, <2>4
  <1>5. IsASeq(stack) /\ IsASeq(out) /\ IsASeq(records) /\ Records = {} /\ edge = NoEdge
    BY <1>1 DEF Init, Records
  <1>6. (\A i \in DOMAIN stack : IsFrame(stack[i])) /\ \A i \in DOMAIN out : out[i].of \in Paths
    BY <1>1 DEF Init
  <1> QED BY <1>2, <1>3, <1>4, <1>5, <1>6 DEF SourceTypeOK

\* Each handler of the capture and of the package keeps the types.
LEMMA SourceTypeStep ==
  ASSUME SourceTypeOK, WalkAt, [Next]_vars
  PROVE  SourceTypeOK'
  <1>1. CASE InferRoot \/ RootInferred \/ Begin
    BY <1>1 DEF InferRoot, RootInferred, Begin, SourceTypeOK, Early, Settled, Read, Records,
                Exists, capture
  <1>2. CASE VisitEntry
    <2>1. IsASeq(<<>>) /\ \A i \in DOMAIN <<>> : IsFrame(<<>>[i])
      BY DEF IsASeq
    <2>2. Visit(Entry, Rel(Entry, root), FALSE, <<>>)
      BY <1>2 DEF VisitEntry
    <2>3. /\ parsed' \in [Paths -> Read] /\ failed' \in BOOLEAN
          /\ IsASeq(stack') /\ \A i \in DOMAIN stack' : IsFrame(stack'[i])
      BY <2>1, <2>2, Visited, EntryAssumption
    <2> QED BY <1>2, <2>3 DEF VisitEntry, SourceTypeOK, Records, Early
  <1>3. CASE ResolveEdge
    <2>1. /\ stack # <<>> /\ Ahead # {}
          /\ UNCHANGED <<world, content, phase, sha0, seen, parsed, failed, snap, out>>
      BY <1>3, ResolvedImport
    <2>2. PICK r : /\ IsRecord(r)
                   /\ \/ r.kind \in Captured /\ edge' = <<r>> /\ records' = records /\ stack' = stack
                      \/ records' = Append(records, r) /\ stack' = Advanced /\ edge' = NoEdge
      BY <1>3, ResolvedImport
    <2>3. IsASeq(stack') /\ \A i \in DOMAIN stack' : IsFrame(stack'[i])
      BY <2>1, <2>2, AdvancedFrames DEF SourceTypeOK
    <2>4. IsASeq(records') /\ \A q \in Records' : IsRecord(q)
      <3>1. CASE records' = records
        BY <3>1 DEF SourceTypeOK, Records
      <3>2. CASE records' = Append(records, r)
        BY <2>2, <3>2, RecordAdded DEF SourceTypeOK
      <3> QED BY <2>2, <3>1, <3>2
    <2>5. edge' # NoEdge => edge' = <<edge'[1]>> /\ IsRecord(edge'[1]) /\ edge'[1].kind \in Captured
      BY <2>2
    <2> QED BY <2>1, <2>3, <2>4, <2>5 DEF SourceTypeOK
  <1>4. CASE DigestEdge
    <2>1. /\ UNCHANGED <<world, content, phase, sha0, stack, records, seen, parsed, failed, snap, out>>
          /\ edge' = <<edge'[1]>> /\ IsRecord(edge'[1]) /\ edge'[1].kind \in Captured
      BY <1>4, DigestedImport DEF SourceTypeOK
    <2> QED BY <2>1 DEF SourceTypeOK, Records
  <1>5. CASE FollowEdge
    <2>1. PICK r : /\ IsRecord(r) /\ r.path \in Paths /\ records' = Append(records, r)
                   /\ \/ /\ seen' = seen \cup {r.path}
                         /\ Visit(r.path, r.pkg, r.kind = "mounted_source", Advanced)
                      \/ /\ seen' = seen /\ stack' = Advanced /\ parsed' = parsed
                         /\ failed' \in BOOLEAN
      BY <1>5, FollowedImport
    <2>2. /\ stack # <<>> /\ Ahead # {} /\ edge' = NoEdge
          /\ UNCHANGED <<world, content, phase, sha0, snap, out>>
      BY <1>5, FollowedImport
    <2>3. IsASeq(records') /\ \A q \in Records' : IsRecord(q)
      BY <2>1, RecordAdded DEF SourceTypeOK
    <2>4. IsASeq(Advanced) /\ \A i \in DOMAIN Advanced : IsFrame(Advanced[i])
      BY <2>2, AdvancedFrames
    <2>5. /\ parsed' \in [Paths -> Read] /\ failed' \in BOOLEAN
          /\ IsASeq(stack') /\ \A i \in DOMAIN stack' : IsFrame(stack'[i])
      <3>1. CASE Visit(r.path, r.pkg, r.kind = "mounted_source", Advanced)
        BY <2>1, <2>4, <3>1, Visited
      <3>2. CASE stack' = Advanced /\ parsed' = parsed /\ failed' \in BOOLEAN
        BY <2>4, <3>2 DEF SourceTypeOK
      <3> QED BY <2>1, <3>1, <3>2
    <2>6. seen' \subseteq Paths /\ Entry \in seen'
      BY <2>1 DEF SourceTypeOK
    <2> QED BY <2>2, <2>3, <2>5, <2>6 DEF SourceTypeOK
  <1>6. CASE CaptureRaises \/ CaptureEnds \/ Transport \/ Publish
    BY <1>6 DEF CaptureRaises, CaptureEnds, Transport, Publish, SourceTypeOK, Settled, Records, capture
  <1>7. CASE Return
    <2>1. stack # <<>> /\ stack' = Front(stack)
      BY <1>7 DEF Return
    <2>2. IsASeq(stack') /\ \A i \in DOMAIN stack' : IsFrame(stack'[i])
      <3>1. /\ Len(stack) \in Nat \ {0} /\ DOMAIN stack = 1..Len(stack)
            /\ IsASeq(stack') /\ DOMAIN stack' = 1..(Len(stack) - 1)
            /\ \A i \in 1..(Len(stack) - 1) : stack'[i] = stack[i]
        BY <2>1, TopFrame
      <3>2. \A i \in 1..(Len(stack) - 1) : i \in DOMAIN stack
        BY <3>1
      <3> QED BY <3>1, <3>2 DEF SourceTypeOK
    <2> QED BY <1>7, <2>2 DEF Return, SourceTypeOK, Records
  <1>8. CASE Stage
    <2> DEFINE item == Input(Min(Unstaged))
               c == [pkg |-> item.pkg, of |-> item.path, bytes |-> content[item.path]]
    <2>1. out' = Append(out, c) /\ Exists(item.path) /\ c.of = item.path
      BY <1>8 DEF Stage, Fresh
    <2>2. c.of \in Paths
      BY <2>1 DEF Exists
    <2> HIDE DEF c
    <2>3. /\ IsASeq(out') /\ DOMAIN out = 1..Len(out) /\ DOMAIN out' = 1..(Len(out) + 1)
          /\ Len(out) \in Nat
          /\ \A i \in 1..Len(out) : out'[i] = out[i]
          /\ out'[Len(out) + 1] = c
      BY <2>1, Appended DEF SourceTypeOK
    <2>4. ASSUME NEW i \in DOMAIN out' PROVE out'[i].of \in Paths
      <3>1. CASE i = Len(out) + 1
        BY <2>2, <2>3, <3>1
      <3>2. CASE i # Len(out) + 1
        <4>1. i \in 1..Len(out)
          BY <2>3, <3>2
        <4> QED BY <2>3, <4>1 DEF SourceTypeOK
      <3> QED BY <3>1, <3>2
    <2> QED BY <1>8, <2>3, <2>4 DEF Stage, SourceTypeOK, Records, capture
  <1>9. CASE StageRefuses
    <2>1. IsASeq(<<>>) /\ DOMAIN <<>> = {}
      BY DEF IsASeq
    <2> QED BY <1>9, <2>1 DEF StageRefuses, SourceTypeOK, Records, capture
  <1>10. CASE \E p \in Paths : Edit(p)
    <2>1. PICK p \in Paths : Edit(p)
      BY <1>10
    <2>2. content' \in [Paths -> Versions]
      BY <2>1 DEF Edit, SourceTypeOK, Versions
    <2> QED BY <2>1, <2>2 DEF Edit, SourceTypeOK, Records, capture
  <1>11. CASE UNCHANGED vars
    BY <1>11 DEF vars, capture, SourceTypeOK, Records
  <1> QED BY <1>1, <1>2, <1>3, <1>4, <1>5, <1>6, <1>7, <1>8, <1>9, <1>10, <1>11
       DEF Next, Capturing, Packaging

-----------------------------------------------------------------------------
(* Digests and readings against the end of the capture.                    *)

\* No step makes a file, or what it was when the capture ended, older (Edit).
LEMMA BoundGrows ==
  ASSUME SourceTypeOK, RecordedBefore, [Next]_vars, NEW p \in Paths
  PROVE  /\ Bound(p) \in Versions /\ content'[p] \in Versions
         /\ Bound(p) <= Bound(p)' /\ Bound(p)' <= content'[p]
  <1>0. /\ content[p] \in Versions /\ snap[p] \in Versions
        /\ Bound(p) \in Versions /\ Bound(p) <= content[p]
    BY DEF SourceTypeOK, RecordedBefore, Bound
  <1>1. CASE \E q \in Paths : Edit(q)
    <2>1. PICK q \in Paths : Edit(q)
      BY <1>1
    <2>2. /\ content'[p] \in Versions /\ content[p] <= content'[p]
          /\ phase' = phase /\ snap' = snap
      BY <2>1 DEF Edit, SourceTypeOK, Versions
    <2>3. Bound(p)' = IF phase \in Settled THEN snap[p] ELSE content'[p]
      BY <2>2 DEF Bound
    <2>4. CASE phase \in Settled
      <3>1. Bound(p)' = Bound(p)
        BY <2>3, <2>4 DEF Bound
      <3> QED BY <1>0, <2>2, <3>1 DEF Versions
    <2>5. CASE phase \notin Settled
      <3>1. Bound(p) = content[p] /\ Bound(p)' = content'[p]
        BY <2>3, <2>5 DEF Bound
      <3> QED BY <1>0, <2>2, <3>1 DEF Versions
    <2> QED BY <2>4, <2>5
  <1>2. CASE CaptureEnds
    <2>1. content' = content /\ snap' = content /\ phase = "capture" /\ phase' = "transport"
      BY <1>2 DEF CaptureEnds
    <2>2. Bound(p) = content[p] /\ Bound(p)' = content[p]
      BY <2>1 DEF Bound, Settled
    <2> QED BY <1>0, <2>1, <2>2 DEF Versions
  <1>3. CASE ~(\E q \in Paths : Edit(q)) /\ ~CaptureEnds
    <2>1. /\ content' = content /\ snap' = snap
          /\ phase \in Settled => phase' \in Settled \cup {"refused"}
          /\ phase \notin Settled => phase' \notin Settled
      BY <1>3 DEF Next, Capturing, Packaging, InferRoot, RootInferred, Begin, VisitEntry,
                  ResolveEdge, DigestEdge, FollowEdge, CaptureRaises, Return, Transport, Stage,
                  StageRefuses, Publish, vars, Settled
    <2>2. Bound(p)' \in {Bound(p), content[p]} /\ content'[p] = content[p]
      BY <2>1 DEF Bound, Settled
    <2> QED BY <1>0, <2>2 DEF Versions
  <1> QED BY <1>1, <1>2, <1>3

\* Who reads and digests: nothing else changes what was read (analyze, visit).
LEMMA ReadingSteps ==
  ASSUME SourceTypeOK, [Next]_vars, ~VisitEntry, ~FollowEdge
  PROVE  UNCHANGED <<parsed, seen>>
  BY DEF Next, Capturing, Packaging, InferRoot, RootInferred, Begin,
         ResolveEdge, DigestEdge, CaptureRaises, Return, CaptureEnds, Transport, Stage,
         StageRefuses, Publish, Edit, vars, capture

\* What was read of a file is no later than the file (analyze).
LEMMA ParsedStep ==
  ASSUME SourceTypeOK, WalkAt, RecordedBefore, [Next]_vars, NEW p \in Paths
  PROVE  parsed'[p] <= Bound(p)'
  <1>0. /\ Bound(p) \in Versions /\ Bound(p) <= Bound(p)' /\ parsed[p] <= Bound(p)
        /\ parsed[p] \in Read /\ Bound(p)' \in Int
    <2>1. Bound(p)' \in Int
      BY SourceTypeStep DEF Bound, SourceTypeOK, Versions
    <2> QED BY <2>1, BoundGrows DEF RecordedBefore, SourceTypeOK
  <1>1. CASE ~VisitEntry /\ ~FollowEdge
    <2>1. parsed' = parsed
      BY <1>1, ReadingSteps
    <2> QED BY <1>0, <2>1 DEF Versions, Read
  <1>2. CASE VisitEntry \/ FollowEdge
    <2>1. /\ content' = content /\ Bound(p) = content[p] /\ Bound(p)' = content[p]
      BY <1>2 DEF VisitEntry, FollowEdge, Bound, Settled
    <2>2. parsed'[p] \in {0, parsed[p], content[p]}
      <3>1. CASE VisitEntry
        <4>1. IsASeq(<<>>) /\ \A i \in DOMAIN <<>> : IsFrame(<<>>[i])
          BY DEF IsASeq
        <4>2. Visit(Entry, Rel(Entry, root), FALSE, <<>>)
          BY <3>1 DEF VisitEntry
        <4>3. /\ \A q \in Paths : q # Entry => parsed'[q] = parsed[q]
              /\ parsed[Entry] # 0 => parsed'[Entry] = parsed[Entry]
              /\ parsed[Entry] = 0 => parsed'[Entry] \in {0, content[Entry]}
          BY <4>1, <4>2, Visited, EntryAssumption
        <4> QED BY <4>3
      <3>2. CASE FollowEdge
        <4>1. PICK r : /\ IsRecord(r) /\ r.path \in Paths
                       /\ \/ Visit(r.path, r.pkg, r.kind = "mounted_source", Advanced)
                          \/ parsed' = parsed
          BY <3>2, FollowedImport
        <4>2. IsASeq(Advanced) /\ \A i \in DOMAIN Advanced : IsFrame(Advanced[i])
          BY <3>2, FollowedImport, AdvancedFrames
        <4>3. CASE Visit(r.path, r.pkg, r.kind = "mounted_source", Advanced)
          <5>1. /\ \A q \in Paths : q # r.path => parsed'[q] = parsed[q]
                /\ parsed[r.path] # 0 => parsed'[r.path] = parsed[r.path]
                /\ parsed[r.path] = 0 => parsed'[r.path] \in {0, content[r.path]}
            BY <4>1, <4>2, <4>3, Visited
          <5> QED BY <5>1
        <4> QED BY <4>1, <4>3
      <3> QED BY <1>2, <3>1, <3>2
    <2> QED BY <1>0, <2>1, <2>2 DEF Versions, Read
  <1> QED BY <1>1, <1>2

\* No record is later than the capture's end, and no file older than any.
LEMMA RecordedStep ==
  ASSUME SourceTypeOK, WalkAt, RecordedBefore, [Next]_vars
  PROVE  RecordedBefore'
  <1>0. SourceTypeOK'
    BY SourceTypeStep
  <1>1. \A p \in Paths : Bound(p)' <= content'[p] /\ parsed'[p] <= Bound(p)'
    BY BoundGrows, ParsedStep
  <1>2. ASSUME NEW n \in Read, NEW p \in Paths, n <= Bound(p) PROVE n <= Bound(p)'
    <2>1. Bound(p) \in Versions /\ Bound(p)' \in Versions /\ Bound(p) <= Bound(p)'
      BY <1>0, BoundGrows DEF Bound, SourceTypeOK
    <2> QED BY <1>2, <2>1 DEF Versions, Read
  <1>3. sha0' <= Bound(Entry)'
    <2>1. CASE Begin
      <3>1. sha0' = content[Entry] /\ content' = content /\ Bound(Entry)' = content'[Entry]
        BY <2>1 DEF Begin, Bound, Settled
      <3> QED BY <3>1, EntryAssumption DEF SourceTypeOK, Versions
    <2>2. CASE ~Begin
      <3>1. sha0' = sha0
        BY <2>2 DEF Next, Capturing, Packaging, InferRoot, RootInferred, VisitEntry, ResolveEdge,
                    DigestEdge, FollowEdge, CaptureRaises, Return, CaptureEnds, Transport, Stage,
                    StageRefuses, Publish, Edit, vars, capture
      <3> QED BY <1>2, <3>1, EntryAssumption DEF SourceTypeOK, RecordedBefore
    <2> QED BY <2>1, <2>2
  <1>4. \A r \in Records' : r.kind \in Captured => r.sha <= Bound(r.path)'
    <2>1. ASSUME NEW r \in Records, r.kind \in Captured PROVE r.sha <= Bound(r.path)'
      BY <1>2, <2>1 DEF SourceTypeOK, RecordedBefore, IsRecord
    <2>2. CASE ResolveEdge
      <3>1. PICK r : IsRecord(r) /\ r.sha = 0
                     /\ (records' = records \/ (r.kind \notin Captured /\ records' = Append(records, r)))
        BY <2>2, ResolvedImport
      <3>2. Records' = Records \/ (r.kind \notin Captured /\ Records' = Records \cup {r})
        BY <3>1, RecordAdded DEF Records
      <3> QED BY <2>1, <3>2
    <2>3. CASE FollowEdge
      <3>1. PICK r : /\ IsRecord(r) /\ r.path \in Paths /\ records' = Append(records, r)
                     /\ r.sha = edge[1].sha /\ r.path = edge[1].path
        BY <2>3, FollowedImport
      <3>2. Records' = Records \cup {r}
        BY <3>1, RecordAdded
      <3>3. r.sha \in Read /\ r.sha <= Bound(r.path)
        BY <2>3, <3>1, FollowedImport DEF RecordedBefore, IsRecord
      <3>4. r.sha <= Bound(r.path)'
        BY <1>2, <3>1, <3>3
      <3> QED BY <2>1, <3>2, <3>4
    <2>4. CASE ~ResolveEdge /\ ~FollowEdge
      <3>1. records' = records
        BY <2>4 DEF Next, Capturing, Packaging, InferRoot, RootInferred, Begin, VisitEntry,
                    DigestEdge, CaptureRaises, Return, CaptureEnds, Transport, Stage,
                    StageRefuses, Publish, Edit, vars, capture
      <3>2. Records' = Records
        BY <3>1 DEF Records
      <3> QED BY <2>1, <3>2
    <2> QED BY <2>2, <2>3, <2>4
  <1>5. ASSUME edge' # NoEdge, NEW p \in Paths, p = edge'[1].path
        PROVE  edge'[1].sha <= Bound(p)'
    <2>0. Bound(p)' \in Versions
      BY <1>0 DEF Bound, SourceTypeOK
    <2>1. CASE ResolveEdge
      <3>1. PICK r : r.sha = 0 /\ (edge' = <<r>> \/ edge' = NoEdge)
        BY <2>1, ResolvedImport
      <3>2. edge'[1] = r
        BY <1>5, <3>1
      <3> QED BY <2>0, <3>1, <3>2 DEF Versions
    <2>2. CASE DigestEdge
      <3>1. /\ edge'[1].path = edge[1].path /\ edge'[1].sha \in {0, content[edge[1].path]}
            /\ phase = "capture" /\ phase' = phase /\ content' = content
        BY <2>2, DigestedImport
      <3>2. Bound(p)' = content[p] /\ edge'[1].sha \in {0, content[p]}
        BY <1>5, <3>1 DEF Bound, Settled
      <3> QED BY <2>0, <3>2 DEF Versions
    <2>3. CASE ~ResolveEdge /\ ~DigestEdge
      <3>1. edge' = edge
        BY <1>5, <2>3
           DEF Next, Capturing, Packaging, InferRoot, RootInferred, Begin, VisitEntry,
               FollowEdge, CaptureRaises, Return, CaptureEnds, Transport, Stage,
               StageRefuses, Publish, Edit, vars, capture
      <3>2. edge[1].sha \in Read /\ edge[1].path = p /\ edge[1].sha <= Bound(edge[1].path)
        BY <1>5, <3>1 DEF RecordedBefore, SourceTypeOK, IsRecord
      <3>3. edge[1].sha <= Bound(p)'
        BY <1>2, <3>2
      <3> QED BY <3>1, <3>3
    <2> QED BY <2>1, <2>2, <2>3
  <1>6. edge' # NoEdge => edge'[1].path \in Paths
    BY <1>0 DEF SourceTypeOK, IsRecord
  <1>7. edge' # NoEdge => (edge[1].sha <= Bound(edge[1].path))'
    <2> SUFFICES ASSUME edge' # NoEdge PROVE (edge[1].sha <= Bound(edge[1].path))'
      OBVIOUS
    <2>1. PICK q \in Paths : q = edge'[1].path
      BY <1>6
    <2>2. edge'[1].sha <= Bound(q)'
      BY <1>5, <2>1
    <2> QED BY <2>1, <2>2 DEF Bound
  <1> QED BY <1>1, <1>3, <1>4, <1>7 DEF RecordedBefore

-----------------------------------------------------------------------------
(* What was visited.                                                       *)

\* A capture that has begun is not at its start again, and what spoils it is not
\* forgotten (build_source_dependency_closure).
LEMMA PhaseSteps ==
  ASSUME SourceTypeOK, StartsAt, WalkAt, [Next]_vars
  PROVE  /\ world' = world
         /\ phase' \in Early => phase \in Early
         /\ phase' \in Early => UNCHANGED <<stack, records, edge, seen, parsed, failed>>
         /\ phase' \notin Early /\ ~VisitEntry => phase \notin Early /\ sha0' = sha0
         /\ ~failed' => ~failed
         /\ Records \subseteq Records'
  <1>1. CASE VisitEntry
    <2>1. /\ world' = world /\ phase' = "capture" /\ records' = records
          /\ Visit(Entry, Rel(Entry, root), FALSE, <<>>)
      BY <1>1 DEF VisitEntry
    <2>2. IsASeq(<<>>) /\ \A i \in DOMAIN <<>> : IsFrame(<<>>[i])
      BY DEF IsASeq
    <2>3. ~failed' => ~failed
      BY <2>1, <2>2, Visited, EntryAssumption
    <2> QED BY <1>1, <2>1, <2>3 DEF Early, Records
  <1>2. CASE ResolveEdge
    <2>1. /\ phase = "capture" /\ UNCHANGED <<world, phase, sha0, failed>>
          /\ \E r : records' = records \/ records' = Append(records, r)
      BY <1>2, ResolvedImport
    <2>2. Records \subseteq Records'
      BY <2>1, RecordAdded DEF Records
    <2> QED BY <2>1, <2>2 DEF Early
  <1>3. CASE FollowEdge
    <2>1. PICK r : /\ r.path \in Paths /\ records' = Append(records, r)
                   /\ \/ Visit(r.path, r.pkg, r.kind = "mounted_source", Advanced)
                      \/ failed => failed'
      BY <1>3, FollowedImport
    <2>2. /\ phase = "capture" /\ UNCHANGED <<world, phase, sha0>>
          /\ IsASeq(Advanced) /\ \A i \in DOMAIN Advanced : IsFrame(Advanced[i])
      BY <1>3, FollowedImport, AdvancedFrames
    <2>3. ~failed' => ~failed
      <3>1. CASE Visit(r.path, r.pkg, r.kind = "mounted_source", Advanced)
        BY <2>1, <2>2, <3>1, Visited
      <3> QED BY <2>1, <3>1
    <2>4. Records \subseteq Records'
      BY <2>1, RecordAdded
    <2> QED BY <2>2, <2>3, <2>4 DEF Early
  <1>4. CASE ~VisitEntry /\ ~ResolveEdge /\ ~FollowEdge
    <2>1. world' = world /\ records' = records /\ (~failed' => ~failed)
      BY <1>4 DEF Next, Capturing, Packaging, InferRoot, RootInferred, Begin, DigestEdge,
                  CaptureRaises, Return, CaptureEnds, Transport, Stage, StageRefuses, Publish,
                  Edit, vars, capture
    <2>2. /\ phase' \in Early => phase \in Early
          /\ phase' \in Early => UNCHANGED <<stack, records, edge, seen, parsed, failed>>
          /\ phase' \notin Early => phase \notin Early /\ sha0' = sha0
      BY <1>4 DEF Next, Capturing, Packaging, InferRoot, RootInferred, Begin, DigestEdge,
                  CaptureRaises, Return, CaptureEnds, Transport, Stage, StageRefuses, Publish,
                  Edit, vars, capture, Early
    <2> QED BY <1>4, <2>1, <2>2 DEF Records
  <1> QED BY <1>1, <1>2, <1>3, <1>4

\* Until the entrypoint is visited nothing has been.
LEMMA StartsStep ==
  ASSUME SourceTypeOK, StartsAt, WalkAt, [Next]_vars
  PROVE  StartsAt'
  <1> SUFFICES ASSUME phase' \in Early
               PROVE  /\ stack' = <<>> /\ records' = <<>> /\ edge' = NoEdge /\ seen' = {Entry}
                      /\ ~failed' /\ \A p \in Paths : parsed'[p] = 0
    BY DEF StartsAt
  <1>1. phase \in Early /\ UNCHANGED <<stack, records, edge, seen, parsed, failed>>
    BY PhaseSteps
  <1> QED BY <1>1 DEF StartsAt

\* How a file came to be visited, for one file.
Analysed(p) ==
  /\ parsed[p] # 0 /\ \A j \in DOMAIN Parsed(p) : Parsed(p)[j] # Dynamic
  /\ \/ p = Entry /\ sha0 <= parsed[p]
     \/ \E r \in Records : r.kind \in Captured /\ r.path = p /\ r.sha <= parsed[p]

\* A file that is visited is read then, at the latest version yet (analyze).
LEMMA VisitedStep ==
  ASSUME SourceTypeOK, RecordedBefore, StartsAt, VisitedAt, WalkAt, [Next]_vars
  PROVE  VisitedAt'
  <1>0. SourceTypeOK'
    BY SourceTypeStep
  <1>1. /\ world' = world /\ (~failed' => ~failed) /\ Records \subseteq Records'
        /\ phase' \notin Early /\ ~VisitEntry => phase \notin Early /\ sha0' = sha0
    BY PhaseSteps
  <1>2. ASSUME phase \notin Early, ~failed', sha0' = sha0, NEW p \in seen, parsed'[p] = parsed[p]
        PROVE  Analysed(p)'
    <2>1. Analysed(p)
      BY <1>1, <1>2 DEF VisitedAt, Analysed
    <2>2. Parsed(p)' = Parsed(p)
      BY <1>1, <1>2 DEF Parsed
    <2> QED BY <1>1, <1>2, <2>1, <2>2 DEF Analysed
  <1>3. CASE VisitEntry
    <2>1. /\ phase = "entry" /\ content' = content /\ seen' = seen /\ records' = records
          /\ sha0' = sha0 /\ Visit(Entry, Rel(Entry, root), FALSE, <<>>)
      BY <1>3 DEF VisitEntry
    <2>2. seen = {Entry} /\ records = <<>> /\ \A p \in Paths : parsed[p] = 0
      BY <2>1 DEF StartsAt, Early
    <2>3. IsASeq(<<>>) /\ \A i \in DOMAIN <<>> : IsFrame(<<>>[i])
      BY DEF IsASeq
    <2>4. /\ \A q \in Paths : q # Entry => parsed'[q] = parsed[q]
          /\ parsed[Entry] = 0 => parsed'[Entry] \in {0, content[Entry]}
          /\ ~failed' => /\ parsed'[Entry] # 0
                         /\ \A j \in DOMAIN world.lits[Entry][parsed'[Entry]] :
                              world.lits[Entry][parsed'[Entry]][j] # Dynamic
      BY <2>1, <2>3, Visited, EntryAssumption
    <2>5. sha0 <= content[Entry]
      BY <2>1 DEF RecordedBefore, Bound, Settled
    <2>6. ~failed' => Analysed(Entry)'
      BY <1>1, <2>1, <2>2, <2>4, <2>5, EntryAssumption DEF Analysed, Parsed
    <2>7. Records' = {}
      BY <2>1, <2>2 DEF Records
    <2> QED BY <2>1, <2>2, <2>4, <2>6, <2>7 DEF VisitedAt, Analysed
  <1>4. CASE FollowEdge
    <2>1. PICK r : /\ IsRecord(r) /\ r.kind \in Captured /\ r.path \in Paths
                   /\ r.path = edge[1].path /\ r.sha = edge[1].sha
                   /\ records' = Append(records, r)
                   /\ \/ /\ r.path \notin seen /\ seen' = seen \cup {r.path}
                         /\ Visit(r.path, r.pkg, r.kind = "mounted_source", Advanced)
                      \/ /\ seen' = seen /\ stack' = Advanced /\ parsed' = parsed
                         /\ failed' \in BOOLEAN /\ (failed => failed')
                         /\ ~failed' => r.path \in Active \/ r.path \in seen
      BY <1>4, FollowedImport
    <2>2. /\ phase = "capture" /\ edge # NoEdge /\ UNCHANGED <<content, phase, sha0>>
          /\ IsASeq(Advanced) /\ \A i \in DOMAIN Advanced : IsFrame(Advanced[i])
      BY <1>4, FollowedImport, AdvancedFrames
    <2>3. Records' = Records \cup {r}
      BY <2>1, RecordAdded
    <2>4. phase \notin Early
      BY <2>2 DEF Early
    <2>5. CASE r.path \notin seen /\ seen' = seen \cup {r.path}
               /\ Visit(r.path, r.pkg, r.kind = "mounted_source", Advanced)
      <3>1. parsed[r.path] = 0
        BY <2>1, <2>5 DEF VisitedAt
      <3>2. /\ \A q \in Paths : q # r.path => parsed'[q] = parsed[q]
            /\ parsed'[r.path] \in {0, content[r.path]}
            /\ ~failed' => /\ parsed'[r.path] # 0
                           /\ \A j \in DOMAIN world.lits[r.path][parsed'[r.path]] :
                                world.lits[r.path][parsed'[r.path]][j] # Dynamic
        BY <2>1, <2>2, <2>5, <3>1, Visited
      <3>3. r.sha <= content[r.path]
        BY <2>1, <2>2 DEF RecordedBefore, Bound, Settled
      <3>4. ~failed' => Analysed(r.path)'
        BY <1>1, <2>1, <2>3, <3>2, <3>3 DEF Analysed, Parsed
      <3>5. ASSUME ~failed', NEW p \in seen PROVE Analysed(p)'
        <4>1. p \in Paths /\ p # r.path
          BY <2>5 DEF SourceTypeOK
        <4> QED BY <1>2, <2>2, <2>4, <3>2, <3>5, <4>1
      <3>6. \A p \in Paths : parsed'[p] # 0 => p \in seen'
        BY <2>5, <3>2 DEF VisitedAt
      <3>7. ~failed' => \A q \in Records' : q.kind \in Captured => q.path \in seen'
        BY <1>1, <2>3, <2>5 DEF VisitedAt
      <3> QED BY <2>5, <3>4, <3>5, <3>6, <3>7 DEF VisitedAt, Analysed
    <2>6. CASE seen' = seen /\ parsed' = parsed /\ (~failed' => r.path \in Active \/ r.path \in seen)
      <3>1. Active \subseteq seen
        BY DEF Active, WalkAt, VisitedAt, SourceTypeOK, IsFrame
      <3>2. ~failed' => \A q \in Records' : q.kind \in Captured => q.path \in seen'
        BY <1>1, <2>3, <2>6, <3>1 DEF VisitedAt
      <3>3. ASSUME ~failed', NEW p \in seen PROVE Analysed(p)'
        BY <1>2, <2>2, <2>4, <2>6, <3>3
      <3>4. \A p \in Paths : parsed'[p] # 0 => p \in seen'
        BY <2>6 DEF VisitedAt
      <3> QED BY <2>6, <3>2, <3>3, <3>4 DEF VisitedAt, Analysed
    <2> QED BY <2>1, <2>5, <2>6
  <1>5. CASE ~VisitEntry /\ ~FollowEdge
    <2>1. parsed' = parsed /\ seen' = seen
      BY <1>5, ReadingSteps
    <2>2. ~failed' => \A q \in Records' : q.kind \in Captured => q.path \in seen'
      <3>1. \A q \in Records' : q.kind \in Captured => q \in Records
        <4>1. CASE ResolveEdge
          <5>1. PICK r : records' = records \/ (r.kind \notin Captured /\ records' = Append(records, r))
            BY <4>1, ResolvedImport
          <5>2. Records' = Records \/ (r.kind \notin Captured /\ Records' = Records \cup {r})
            BY <5>1, RecordAdded DEF Records
          <5> QED BY <5>2
        <4>2. CASE ~ResolveEdge
          <5>1. records' = records
            BY <1>5, <4>2 DEF Next, Capturing, Packaging, InferRoot, RootInferred, Begin, DigestEdge,
                  CaptureRaises, Return, CaptureEnds, Transport, Stage, StageRefuses, Publish,
                  Edit, vars, capture
          <5> QED BY <5>1 DEF Records
        <4> QED BY <4>1, <4>2
      <3> QED BY <1>1, <2>1, <3>1 DEF VisitedAt
    <2>3. ASSUME phase' \notin Early, ~failed', NEW p \in seen PROVE Analysed(p)'
      BY <1>1, <1>2, <1>5, <2>1, <2>3
    <2> QED BY <2>1, <2>2, <2>3 DEF VisitedAt, Analysed
  <1> QED BY <1>3, <1>4, <1>5

-----------------------------------------------------------------------------
(* The walk along the imports.                                             *)

Under(s, p, j) == \E i \in DOMAIN s : s[i].file = p /\ s[i].next <= j

\* Recording the next import of a visit loses none: it is on record, and those that
\* follow are still ahead (visit).
LEMMA AdvanceKeeps ==
  ASSUME SourceTypeOK, WalkAt, stack # <<>>, Ahead # {},
         NEW p \in Paths, parsed[p] # 0, NEW j \in DOMAIN Parsed(p), Parsed(p)[j] # Dynamic,
         Under(stack, p, j)
  PROVE  \/ p = Top.file /\ Parsed(p)[j] = Text[Min(Ahead)]
         \/ Under(Advanced, p, j)
  <1> DEFINE n == Len(stack)
  <1>1. PICK i \in DOMAIN stack : stack[i].file = p /\ stack[i].next <= j
    BY DEF Under
  <1>2. n \in Nat \ {0} /\ DOMAIN stack = 1..n /\ Top = stack[n] /\ IsFrame(Top)
    BY TopFrame
  <1>3. /\ DOMAIN Advanced = 1..n
        /\ \A k \in 1..(n - 1) : Advanced[k] = stack[k]
        /\ Advanced[n].file = Top.file /\ Advanced[n].next = Min(Ahead) + 1
    BY AdvancedFrames
  <1>4. CASE i # n
    <2>1. i \in 1..(n - 1) /\ i \in 1..n
      BY <1>1, <1>2, <1>4
    <2> QED BY <1>1, <1>3, <2>1 DEF Under
  <1>5. CASE i = n
    <2>1. p = Top.file /\ Top.next <= j
      BY <1>1, <1>2, <1>5
    <2>2. Text = Parsed(p) /\ Min(Ahead) \in Nat /\ \A k \in Ahead : Min(Ahead) <= k
      BY <2>1, AheadFirst
    <2>3. j \in Ahead /\ j \in Nat
      BY <2>1, <2>2, ParsedText DEF Ahead
    <2>4. CASE j = Min(Ahead)
      BY <2>1, <2>2, <2>4
    <2>5. CASE j # Min(Ahead)
      <3>1. Min(Ahead) + 1 <= j
        BY <2>2, <2>3, <2>5
      <3> QED BY <1>2, <1>3, <2>1, <3>1 DEF Under
    <2> QED BY <2>4, <2>5
  <1> QED BY <1>4, <1>5

\* The files that are being visited stay so.
LEMMA AdvancedFiles ==
  ASSUME SourceTypeOK, WalkAt, stack # <<>>, Ahead # {}
  PROVE  \A i \in DOMAIN Advanced : Advanced[i].file \in Paths /\ parsed[Advanced[i].file] # 0
  <1> DEFINE n == Len(stack)
  <1>1. n \in Nat \ {0} /\ DOMAIN stack = 1..n /\ Top = stack[n]
    BY TopFrame
  <1>0. n \in Nat \ {0}
    BY <1>1
  <1>2. /\ DOMAIN Advanced = 1..n
        /\ \A k \in 1..(n - 1) : Advanced[k] = stack[k]
        /\ Advanced[n].file = Top.file
        /\ \A i \in DOMAIN Advanced : IsFrame(Advanced[i])
    BY AdvancedFrames
  <1>3. ASSUME NEW i \in 1..n PROVE parsed[Advanced[i].file] # 0
    <2>1. Advanced[i].file = stack[i].file
      <3>1. CASE i = n
        BY <1>1, <1>2, <3>1
      <3>2. CASE i # n
        <4>1. i \in 1..(n - 1)
          BY <1>0, <3>2
        <4>2. Advanced[i] = stack[i]
          BY <1>2, <4>1
        <4> QED BY <4>2
      <3> QED BY <3>1, <3>2
    <2> QED BY <1>1, <2>1 DEF WalkAt
  <1> QED BY <1>2, <1>3 DEF IsFrame

\* An import of a visited file is recorded or ahead.
Ensured(p) ==
  parsed[p] # 0 =>
    \A j \in DOMAIN Parsed(p) : Parsed(p)[j] # Dynamic => Recorded(p, j) \/ Under(stack, p, j)

\* A record stays one of the same file's imports (visit).
LEMMA RecordedStays ==
  ASSUME Records \subseteq Records', world' = world, NEW p, parsed'[p] = parsed[p],
         NEW j, Recorded(p, j)
  PROVE  Recorded(p, j)'
  BY DEF Recorded, Parsed

\* No import of a visited file is lost on the way (visit, its recursion).
LEMMA WalkStep ==
  ASSUME SourceTypeOK, RecordedBefore, StartsAt, VisitedAt, WalkAt, [Next]_vars
  PROVE  WalkAt'
  <1>1. world' = world /\ Records \subseteq Records'
    BY PhaseSteps
  <1>2. SUFFICES /\ \A i \in DOMAIN stack' : parsed'[stack'[i].file] # 0
                 /\ (edge # NoEdge => /\ stack # <<>> /\ Ahead # {}
                                      /\ edge[1].decl = Top.file /\ edge[1].lit = Text[Min(Ahead)])'
                 /\ \A p \in Paths : Ensured(p)'
                 /\ (phase \in Settled => stack = <<>>)'
    BY DEF WalkAt, Ensured, Under
  <1>3. \A p \in Paths : Ensured(p)
    BY DEF WalkAt, Ensured, Under
  <1>4. CASE VisitEntry
    <2>1. /\ phase' = "capture" /\ edge' = edge /\ phase = "entry"
          /\ Visit(Entry, Rel(Entry, root), FALSE, <<>>)
      BY <1>4 DEF VisitEntry
    <2>2. edge = NoEdge /\ \A p \in Paths : parsed[p] = 0
      BY <2>1 DEF StartsAt, Early
    <2>3. IsASeq(<<>>) /\ (\A i \in DOMAIN <<>> : IsFrame(<<>>[i])) /\ Len(<<>>) = 0
      BY DEF IsASeq
    <2>4. /\ \A q \in Paths : q # Entry => parsed'[q] = 0
          /\ parsed'[Entry] = 0 => stack' = <<>>
          /\ parsed'[Entry] # 0 => /\ DOMAIN stack' = 1..(0 + 1)
                                   /\ stack'[0 + 1].file = Entry /\ stack'[0 + 1].next = 1
          /\ parsed' \in [Paths -> Read]
      <3>0. \E pkg, mounted, below : below = <<>> /\ Visit(Entry, pkg, mounted, below)
        BY <2>1, Zenon
      <3>1. PICK pkg, mounted, below : below = <<>> /\ Visit(Entry, pkg, mounted, below)
        BY <3>0, Zenon
      <3>6. IsASeq(below) /\ \A i \in DOMAIN below : IsFrame(below[i])
        BY <2>3, <3>1
      <3>7. Visit(Entry, pkg, mounted, below)
        BY <3>1
      <3>2. /\ \A q \in Paths : q # Entry => parsed'[q] = parsed[q]
            /\ parsed' \in [Paths -> Read]
        BY <3>6, <3>7, Visited, EntryAssumption
      <3>3. parsed'[Entry] = 0 => stack' = below
        BY <3>6, <3>7, Visited, EntryAssumption
      <3>4. ASSUME parsed'[Entry] # 0
            PROVE  /\ DOMAIN stack' = 1..(Len(below) + 1)
                   /\ stack'[Len(below) + 1].file = Entry /\ stack'[Len(below) + 1].next = 1
        BY <3>4, <3>6, <3>7, VisitedTop, EntryAssumption
      <3>5. below = <<>> /\ Len(below) + 1 = 1 /\ 0 + 1 = 1
        BY <2>3, <3>1
      <3> QED BY <2>2, <3>2, <3>3, <3>4, <3>5
    <2>5. \A i \in DOMAIN stack' : parsed'[stack'[i].file] # 0
      BY <2>4
    <2>6. ASSUME NEW p \in Paths PROVE Ensured(p)'
      <3>1. SUFFICES ASSUME p = Entry, parsed'[Entry] # 0 PROVE Ensured(p)'
        BY <2>4 DEF Ensured
      <3>2. DOMAIN Parsed(Entry)' \subseteq Nat \ {0}
        <4>1. SourceTypeOK'
          BY SourceTypeStep
        <4>2. (Len(Parsed(Entry)) \in Nat /\ DOMAIN Parsed(Entry) = 1..Len(Parsed(Entry)))'
          <5>1. parsed'[Entry] \in {1, 2} /\ world' \in Worlds
            BY <3>1, <4>1, EntryAssumption DEF SourceTypeOK, Read
          <5>2. world'.lits[Entry][parsed'[Entry]] \in Seq(ToSet(world'.lits[Entry][parsed'[Entry]]))
            BY <5>1, WorldsAssumption, EntryAssumption
          <5> QED BY <5>2 DEF Parsed
        <4> QED BY <4>2
      <3>3. 1 \in DOMAIN stack' /\ stack'[1].file = Entry /\ stack'[1].next = 1
        BY <2>4, <3>1
      <3>4. \A j \in DOMAIN Parsed(Entry)' : Under(stack, Entry, j)'
        BY <3>2, <3>3 DEF Under
      <3> QED BY <3>1, <3>4 DEF Ensured
    <2> QED BY <2>1, <2>2, <2>5, <2>6 DEF Settled
  <1>5. CASE ResolveEdge
    <2>1. /\ stack # <<>> /\ Ahead # {} /\ phase = "capture"
          /\ UNCHANGED <<phase, parsed>>
      BY <1>5, ResolvedImport
    <2>2. PICK r : /\ r.decl = Top.file /\ r.lit = Text[Min(Ahead)]
                   /\ \/ edge' = <<r>> /\ records' = records /\ stack' = stack
                      \/ edge' = NoEdge /\ records' = Append(records, r) /\ stack' = Advanced
      BY <1>5, ResolvedImport
    <2>3. CASE edge' = <<r>> /\ records' = records /\ stack' = stack
      <3>1. Top' = Top /\ Text' = Text /\ Ahead' = Ahead
        BY <1>1, <2>1, <2>3 DEF Top, Text, Ahead
      <3>2. edge'[1] = r
        BY <2>3
      <3>3. \A p \in Paths : Ensured(p)'
        BY <1>1, <1>3, <2>1, <2>3 DEF Ensured, Recorded, Parsed, Records
      <3> QED BY <2>1, <2>2, <2>3, <3>1, <3>2, <3>3 DEF WalkAt, Settled
    <2>4. CASE edge' = NoEdge /\ records' = Append(records, r) /\ stack' = Advanced
      <3>1. Records' = Records \cup {r}
        BY <2>4, RecordAdded
      <3>2. ASSUME NEW p \in Paths, parsed[p] # 0, NEW j \in DOMAIN Parsed(p),
                   Parsed(p)[j] # Dynamic
            PROVE  Recorded(p, j)' \/ Under(stack', p, j)
        <4>1. CASE Recorded(p, j)
          BY <1>1, <2>1, <4>1, RecordedStays
        <4>2. CASE Under(stack, p, j)
          <5>1. (p = Top.file /\ Parsed(p)[j] = Text[Min(Ahead)]) \/ Under(Advanced, p, j)
            BY <2>1, <3>2, <4>2, AdvanceKeeps
          <5>2. ASSUME p = Top.file, Parsed(p)[j] = Text[Min(Ahead)] PROVE Recorded(p, j)'
            BY <1>1, <2>1, <2>2, <3>1, <5>2 DEF Recorded, Parsed
          <5> QED BY <2>4, <5>1, <5>2
        <4> QED BY <1>3, <3>2, <4>1, <4>2 DEF Ensured
      <3>3. \A p \in Paths : Ensured(p)'
        BY <1>1, <2>1, <3>2 DEF Ensured, Parsed, Under
      <3>4. \A i \in DOMAIN stack' : parsed'[stack'[i].file] # 0
        BY <2>1, <2>4, AdvancedFiles
      <3> QED BY <2>1, <2>4, <3>3, <3>4 DEF Settled
    <2> QED BY <2>2, <2>3, <2>4
  <1>6. CASE FollowEdge
    <2>1. PICK r : /\ r.kind \in Captured /\ r.path \in Paths
                   /\ r.decl = edge[1].decl /\ r.lit = edge[1].lit
                   /\ records' = Append(records, r)
                   /\ \/ /\ r.path \notin seen
                         /\ Visit(r.path, r.pkg, r.kind = "mounted_source", Advanced)
                      \/ stack' = Advanced /\ parsed' = parsed
      BY <1>6, FollowedImport
    <2>2. /\ phase = "capture" /\ phase' = phase /\ edge # NoEdge /\ edge' = NoEdge
          /\ stack # <<>> /\ Ahead # {}
      BY <1>6, FollowedImport
    <2>3. /\ IsASeq(Advanced) /\ \A i \in DOMAIN Advanced : IsFrame(Advanced[i])
          /\ \A i \in DOMAIN Advanced : Advanced[i].file \in Paths /\ parsed[Advanced[i].file] # 0
      BY <2>2, AdvancedFrames, AdvancedFiles
    <2>4. r.decl = Top.file /\ r.lit = Text[Min(Ahead)]
      BY <2>1, <2>2 DEF WalkAt
    <2>5. Records' = Records \cup {r}
      BY <2>1, RecordAdded
    <2>6. ASSUME NEW p \in Paths, parsed[p] # 0, parsed'[p] = parsed[p],
                 NEW j \in DOMAIN Parsed(p), Parsed(p)[j] # Dynamic
          PROVE  Recorded(p, j)' \/ Under(Advanced, p, j)
      <3>1. CASE Recorded(p, j)
        BY <1>1, <2>6, <3>1, RecordedStays
      <3>2. CASE Under(stack, p, j)
        <4>1. (p = Top.file /\ Parsed(p)[j] = Text[Min(Ahead)]) \/ Under(Advanced, p, j)
          BY <2>2, <2>6, <3>2, AdvanceKeeps
        <4>2. ASSUME p = Top.file, Parsed(p)[j] = Text[Min(Ahead)] PROVE Recorded(p, j)'
          BY <1>1, <2>4, <2>5, <2>6, <4>2 DEF Recorded, Parsed
        <4> QED BY <4>1, <4>2
      <3> QED BY <1>3, <2>6, <3>1, <3>2 DEF Ensured
    <2>7. CASE stack' = Advanced /\ parsed' = parsed
      <3>1. \A p \in Paths : Ensured(p)'
        BY <1>1, <2>6, <2>7 DEF Ensured, Parsed, Under
      <3> QED BY <2>2, <2>3, <2>7, <3>1 DEF Settled
    <2>8. CASE /\ r.path \notin seen
               /\ Visit(r.path, r.pkg, r.kind = "mounted_source", Advanced)
      <3>1. parsed[r.path] = 0
        BY <2>1, <2>8 DEF VisitedAt
      <3>2. /\ \A q \in Paths : q # r.path => parsed'[q] = parsed[q]
            /\ parsed' \in [Paths -> Read]
            /\ parsed'[r.path] = 0 => stack' = Advanced
            /\ parsed'[r.path] # 0 =>
                 /\ Len(Advanced) \in Nat /\ DOMAIN Advanced = 1..Len(Advanced)
                 /\ DOMAIN stack' = 1..(Len(Advanced) + 1)
                 /\ \A i \in 1..Len(Advanced) : stack'[i] = Advanced[i]
                 /\ stack'[Len(Advanced) + 1].file = r.path
                 /\ stack'[Len(Advanced) + 1].next = 1
        BY <2>1, <2>3, <2>8, Visited
      <3>3. ASSUME NEW i \in DOMAIN Advanced PROVE parsed'[Advanced[i].file] # 0
        BY <2>3, <3>1, <3>2
      <3>4. ASSUME NEW i \in DOMAIN stack' PROVE parsed'[stack'[i].file] # 0
        <4>1. CASE parsed'[r.path] = 0
          BY <3>2, <3>3, <4>1
        <4>2. CASE parsed'[r.path] # 0
          <5>1. CASE i = Len(Advanced) + 1
            BY <3>2, <4>2, <5>1
          <5>2. CASE i # Len(Advanced) + 1
            <6>1. i \in 1..Len(Advanced)
              BY <3>2, <4>2, <5>2
            <6> QED BY <3>2, <3>3, <4>2, <6>1
          <5> QED BY <5>1, <5>2
        <4> QED BY <4>1, <4>2
      <3>5. ASSUME NEW p, NEW j, Under(Advanced, p, j) PROVE Under(stack', p, j)
        <4>1. CASE parsed'[r.path] = 0
          BY <3>2, <3>5, <4>1
        <4>2. CASE parsed'[r.path] # 0
          <5>1. PICK i \in DOMAIN Advanced : Advanced[i].file = p /\ Advanced[i].next <= j
            BY <3>5 DEF Under
          <5>2. i \in DOMAIN stack' /\ stack'[i] = Advanced[i]
            BY <3>2, <4>2, <5>1
          <5> QED BY <5>1, <5>2 DEF Under
        <4> QED BY <4>1, <4>2
      <3>6. ASSUME NEW p \in Paths, p # r.path PROVE Ensured(p)'
        <4>1. parsed'[p] = parsed[p] /\ Parsed(p)' = Parsed(p)
          BY <1>1, <3>2, <3>6 DEF Parsed
        <4>2. parsed[p] # 0 => \A j \in DOMAIN Parsed(p) : Parsed(p)[j] # Dynamic =>
                                 Recorded(p, j)' \/ Under(stack', p, j)
          BY <2>6, <3>5, <4>1
        <4> QED BY <4>1, <4>2 DEF Ensured, Under
      <3>7. ASSUME NEW p \in Paths, p = r.path PROVE Ensured(p)'
        <4>1. SUFFICES ASSUME parsed'[p] # 0 PROVE Ensured(p)'
          BY DEF Ensured
        <4>2. parsed'[p] \in {1, 2} /\ world' \in Worlds
          BY <1>1, <3>2, <4>1 DEF Read, SourceTypeOK
        <4>3. world'.lits[p][parsed'[p]] \in Seq(ToSet(world'.lits[p][parsed'[p]]))
          BY <4>2, WorldsAssumption
        <4>4. DOMAIN Parsed(p)' \subseteq Nat \ {0}
          BY <4>3 DEF Parsed
        <4> DEFINE n == Len(Advanced) + 1
        <4>5. n \in DOMAIN stack' /\ stack'[n].file = p /\ stack'[n].next = 1
          BY <3>2, <3>7, <4>1
        <4>6. \A j \in DOMAIN Parsed(p)' : Under(stack', p, j)
          BY <4>4, <4>5 DEF Under
        <4> QED BY <4>6 DEF Ensured, Under
      <3> QED BY <2>2, <3>4, <3>6, <3>7 DEF Settled
    <2> QED BY <2>1, <2>7, <2>8
  <1>7. CASE Return
    <2>1. /\ stack # <<>> /\ Ahead = {} /\ stack' = Front(stack) /\ phase = "capture"
          /\ edge = NoEdge /\ UNCHANGED <<phase, edge, records, parsed>>
      BY <1>7 DEF Return
    <2>2. /\ Len(stack) \in Nat \ {0} /\ DOMAIN stack = 1..Len(stack) /\ Top = stack[Len(stack)]
          /\ DOMAIN stack' = 1..(Len(stack) - 1)
          /\ \A i \in 1..(Len(stack) - 1) : stack'[i] = stack[i]
      BY <2>1, TopFrame
    <2>3. \A i \in DOMAIN stack' : parsed'[stack'[i].file] # 0
      BY <2>1, <2>2 DEF WalkAt
    <2>4. ASSUME NEW p \in Paths, parsed[p] # 0, NEW j \in DOMAIN Parsed(p),
                 Parsed(p)[j] # Dynamic, Under(stack, p, j)
          PROVE  Under(stack', p, j)
      <3>1. PICK i \in DOMAIN stack : stack[i].file = p /\ stack[i].next <= j
        BY <2>4 DEF Under
      <3>2. i # Len(stack)
        <4>1. SUFFICES ASSUME i = Len(stack) PROVE FALSE
          OBVIOUS
        <4>2. p = Top.file /\ Top.next <= j
          BY <2>2, <3>1, <4>1
        <4>3. Text = Parsed(p) /\ IsFrame(Top)
          BY <2>1, <4>2, AheadFirst, TopFrame
        <4>4. j \in Ahead
          <5>1. j \in Nat
            BY <2>4, ParsedText
          <5> QED BY <2>4, <4>2, <4>3, <5>1 DEF Ahead, IsFrame
        <4> QED BY <2>1, <4>4
      <3>3. i \in DOMAIN stack' /\ stack'[i] = stack[i]
        BY <2>2, <3>1, <3>2
      <3> QED BY <3>1, <3>3 DEF Under
    <2>5. \A p \in Paths : Ensured(p)'
      <3>1. \A p \in Paths : Parsed(p)' = Parsed(p) /\ parsed'[p] = parsed[p]
        BY <1>1, <2>1 DEF Parsed
      <3>2. \A p, j : Recorded(p, j) => Recorded(p, j)'
        BY <1>1, <2>1 DEF Recorded, Parsed
      <3> QED BY <1>3, <2>4, <3>1, <3>2 DEF Ensured, Under
    <2> QED BY <2>1, <2>3, <2>5 DEF Settled
  <1>8. CASE ~VisitEntry /\ ~ResolveEdge /\ ~FollowEdge /\ ~Return
    <2>1. parsed' = parsed
      BY <1>8, ReadingSteps
    <2>2. UNCHANGED <<stack, records>>
      BY <1>8 DEF Next, Capturing, Packaging, InferRoot, RootInferred, Begin, DigestEdge,
                  CaptureRaises, CaptureEnds, Transport, Stage, StageRefuses, Publish,
                  Edit, vars, capture
    <2>3. /\ Top' = Top /\ Text' = Text /\ Ahead' = Ahead
          /\ \A p \in Paths : Ensured(p)' = Ensured(p)
      BY <1>1, <2>1, <2>2 DEF Top, Text, Ahead, Ensured, Parsed, Under, Recorded, Records
    <2>4. edge' # NoEdge => edge # NoEdge /\ edge'[1].decl = edge[1].decl
                            /\ edge'[1].lit = edge[1].lit
      <3>1. CASE DigestEdge
        BY <3>1, DigestedImport
      <3>2. CASE ~DigestEdge
        <4>1. edge' = edge
          BY <1>8, <3>2 DEF Next, Capturing, Packaging, InferRoot, RootInferred, Begin,
                  CaptureRaises, CaptureEnds, Transport, Stage, StageRefuses, Publish,
                  Edit, vars, capture
        <4> QED BY <4>1
      <3> QED BY <3>1, <3>2
    <2>5. phase' \in Settled => stack = <<>>
      <3>1. phase' \in Settled => phase \in Settled \/ stack = <<>>
        BY <1>8 DEF Next, Capturing, Packaging, InferRoot, RootInferred, Begin, DigestEdge,
                  CaptureRaises, CaptureEnds, Transport, Stage, StageRefuses, Publish,
                  Edit, vars, capture, Settled
      <3> QED BY <3>1 DEF WalkAt
    <2> QED BY <1>3, <2>1, <2>2, <2>3, <2>4, <2>5 DEF WalkAt
  <1> QED BY <1>4, <1>5, <1>6, <1>7, <1>8

-----------------------------------------------------------------------------
(* The package.                                                            *)

\* What a package copies: the entrypoint and the captured imports.
LEMMA Copied ==
  ASSUME SourceTypeOK
  PROVE  /\ Inputs \subseteq Nat /\ 0 \in Inputs
         /\ Input(0).path = Entry /\ Input(0).sha = sha0
         /\ \A i \in Inputs : i # 0 => /\ i \in DOMAIN records /\ records[i] \in Records
                                      /\ records[i].kind \in Captured /\ Input(i) = records[i]
         /\ \A r \in Records : r.kind \in Captured =>
              \E i \in Inputs : i # 0 /\ records[i] = r /\ Input(i) = r
  <1>1. DOMAIN records = 1..Len(records) /\ Len(records) \in Nat
    BY Appended DEF SourceTypeOK
  <1>2. Inputs \subseteq Nat /\ 0 \in Inputs
    BY <1>1 DEF Inputs
  <1>3. Input(0).path = Entry /\ Input(0).sha = sha0
    BY DEF Input
  <1>4. \A i \in Inputs : i # 0 => /\ i \in DOMAIN records /\ records[i] \in Records
                                  /\ records[i].kind \in Captured /\ Input(i) = records[i]
    BY DEF Inputs, Input, Records
  <1>5. ASSUME NEW r \in Records, r.kind \in Captured
        PROVE  \E i \in Inputs : i # 0 /\ records[i] = r /\ Input(i) = r
    <2>1. PICK i \in DOMAIN records : records[i] = r
      BY DEF Records
    <2>2. i # 0 /\ i \in Inputs
      BY <1>1, <1>5, <2>1 DEF Inputs
    <2> QED BY <2>1, <2>2 DEF Input
  <1> QED BY <1>2, <1>3, <1>4, <1>5

\* Where nothing is captured the copies to make stay the same.
LEMMA PackageKeeps ==
  ASSUME UNCHANGED <<world, root, sha0, records>>
  PROVE  /\ Records' = Records /\ Inputs' = Inputs /\ \A i : Input(i)' = Input(i)
         /\ Collision' = Collision /\ \A r : Refusing(r)' = Refusing(r)
  <1>1. Records' = Records /\ Inputs' = Inputs /\ \A i : Input(i)' = Input(i)
    BY DEF Records, Inputs, Input
  <1>2. Collision' = Collision
    BY <1>1 DEF Collision, Mapped
  <1>3. \A r : Refusing(r)' = Refusing(r)
    BY DEF Refusing
  <1> QED BY <1>1, <1>2, <1>3

\* What passes the copy's comparison is as it was when the capture ended: its digest
\* is not later than that moment, which is not later than the copy (read_bytes_beneath).
LEMMA FreshIsOld ==
  ASSUME SourceTypeOK, RecordedBefore, phase \in Settled,
         NEW i \in Inputs, Fresh(Input(i))
  PROVE  /\ Input(i).path \in Paths
         /\ content[Input(i).path] = Input(i).sha /\ snap[Input(i).path] = Input(i).sha
  <1>1. Input(i).path \in Paths /\ content[Input(i).path] = Input(i).sha
    BY DEF Fresh, Exists
  <1>2. Input(i).sha <= Bound(Input(i).path)
    <2>1. CASE i = 0
      BY <2>1, Copied DEF RecordedBefore
    <2>2. CASE i # 0
      BY <2>2, Copied DEF RecordedBefore
    <2> QED BY <2>1, <2>2
  <1>3. Bound(Input(i).path) = snap[Input(i).path] /\ snap[Input(i).path] <= content[Input(i).path]
    BY <1>1 DEF RecordedBefore, Bound
  <1> DEFINE x == snap[Input(i).path]
             y == content[Input(i).path]
  <1>4. x \in Versions /\ y \in Versions /\ y <= x /\ x <= y
    BY <1>1, <1>2, <1>3 DEF SourceTypeOK
  <1>5. x = y
    BY <1>4 DEF Versions
  <1> QED BY <1>1, <1>5

\* Every copy made is of a recorded file as it was when the capture ended (the package).
LEMMA CopiedStep ==
  ASSUME SourceTypeOK, RecordedBefore, CopiedAt, [Next]_vars
  PROVE  CopiedAt'
  <1>1. CASE Transport
    <2>1. /\ UNCHANGED <<world, root, sha0, records>> /\ out' = out /\ failed' = failed
          /\ phase = "transport" /\ phase' \in {"refused", "package"}
          /\ phase' = "package" => ~failed /\ ~Collision /\ \A r \in Records : ~Refusing(r)
      BY <1>1 DEF Transport, capture
    <2>2. out = <<>> /\ DOMAIN <<>> = {}
      BY <2>1 DEF CopiedAt
    <2> QED BY <2>1, <2>2, PackageKeeps DEF CopiedAt
  <1>2. CASE Stage
    <2>0. PICK m : m = Min(Unstaged)
      OBVIOUS
    <2> DEFINE c == [pkg |-> Input(m).pkg, of |-> Input(m).path, bytes |-> content[Input(m).path]]
    <2>1. /\ UNCHANGED <<world, root, sha0, records>> /\ UNCHANGED <<phase, failed, snap>>
          /\ phase = "package" /\ Unstaged # {} /\ Fresh(Input(m)) /\ out' = Append(out, c)
      BY <1>2, <2>0 DEF Stage, capture
    <2>2. m \in Inputs
      <3>1. Unstaged \subseteq Inputs /\ Unstaged \subseteq Nat
        BY Copied DEF Unstaged
      <3> QED BY <2>0, <2>1, <3>1, Least
    <2>3. c.pkg = Input(m).pkg /\ c.of = Input(m).path /\ c.bytes = content[Input(m).path]
      OBVIOUS
    <2> HIDE DEF c
    <2>4. content[Input(m).path] = Input(m).sha /\ snap[Input(m).path] = Input(m).sha
      BY <2>1, <2>2, FreshIsOld DEF Settled
    <2>5. /\ DOMAIN out = 1..Len(out) /\ Len(out) \in Nat /\ DOMAIN out' = 1..(Len(out) + 1)
          /\ \A k \in 1..Len(out) : out'[k] = out[k]
          /\ out'[Len(out) + 1] = c
      BY <2>1, Appended DEF SourceTypeOK
    <2>6. Inputs' = Inputs /\ \A i : Input(i)' = Input(i)
      BY <2>1, PackageKeeps
    <2>7. ASSUME NEW k \in DOMAIN out' PROVE \E i \in Inputs' : Copy(k, i)'
      <3>1. CASE k = Len(out) + 1
        <4>1. Copy(k, m)'
          BY <2>1, <2>3, <2>4, <2>5, <2>6, <3>1 DEF Copy
        <4> QED BY <2>2, <2>6, <4>1
      <3>2. CASE k # Len(out) + 1
        <4>1. k \in 1..Len(out)
          BY <2>5, <3>2
        <4>2. PICK i \in Inputs : Copy(k, i)
          BY <2>5, <4>1 DEF CopiedAt
        <4>3. Copy(k, i)'
          BY <2>1, <2>5, <2>6, <4>1, <4>2 DEF Copy
        <4> QED BY <2>6, <4>2, <4>3
      <3> QED BY <3>1, <3>2
    <2>8. ~failed' /\ ~Collision' /\ \A r \in Records' : ~Refusing(r)'
      BY <2>1, PackageKeeps DEF CopiedAt
    <2> QED BY <2>1, <2>7, <2>8 DEF CopiedAt
  <1>3. CASE Publish
    <2>1. /\ UNCHANGED <<world, root, sha0, records>> /\ UNCHANGED <<out, failed, snap>>
          /\ phase = "package" /\ phase' = "published" /\ Unstaged = {}
      BY <1>3 DEF Publish, capture
    <2>2. Inputs' = Inputs /\ (\A i : Input(i)' = Input(i)) /\ Unstaged' = Unstaged
      BY <2>1, PackageKeeps DEF Unstaged, Staged
    <2>3. \A k \in DOMAIN out' : \E i \in Inputs' : Copy(k, i)'
      BY <2>1, <2>2 DEF CopiedAt, Copy
    <2>4. ~failed' /\ ~Collision' /\ \A r \in Records' : ~Refusing(r)'
      BY <2>1, PackageKeeps DEF CopiedAt
    <2> QED BY <2>1, <2>2, <2>3, <2>4 DEF CopiedAt
  <1>4. CASE (\E p \in Paths : Edit(p)) \/ UNCHANGED vars
    <2>1. /\ UNCHANGED <<world, root, sha0, records>> /\ UNCHANGED <<phase, out, failed, snap>>
      BY <1>4 DEF Edit, vars, capture
    <2>2. Inputs' = Inputs /\ (\A i : Input(i)' = Input(i)) /\ Unstaged' = Unstaged
      BY <2>1, PackageKeeps DEF Unstaged, Staged
    <2>3. \A k \in DOMAIN out' : \E i \in Inputs' : Copy(k, i)'
      BY <2>1, <2>2 DEF CopiedAt, Copy
    <2>4. phase \in {"package", "published"} =>
            ~failed' /\ ~Collision' /\ \A r \in Records' : ~Refusing(r)'
      BY <2>1, PackageKeeps DEF CopiedAt
    <2> QED BY <2>1, <2>2, <2>3, <2>4 DEF CopiedAt
  <1>5. CASE StageRefuses \/ Capturing
    <2>1. phase' \notin {"package", "published"} /\ out' = <<>>
      BY <1>5 DEF StageRefuses, Capturing, InferRoot, RootInferred, Begin, VisitEntry, ResolveEdge,
                  DigestEdge, FollowEdge, CaptureRaises, Return, CaptureEnds, CopiedAt
    <2>2. DOMAIN <<>> = {}
      OBVIOUS
    <2> QED BY <2>1, <2>2 DEF CopiedAt
  <1> QED BY <1>1, <1>2, <1>3, <1>4, <1>5 DEF Next, Packaging

\* What a published package holds of a file is what was analysed of it.
LEMMA PublishedIsAnalysed ==
  ASSUME SourceInv, phase = "published", NEW k \in DOMAIN out
  PROVE  /\ out[k].of \in Paths /\ parsed[out[k].of] # 0
         /\ out[k].bytes = parsed[out[k].of]
         /\ \A j \in DOMAIN Parsed(out[k].of) : Parsed(out[k].of)[j] # Dynamic
  <1> DEFINE p == out[k].of
  <1>0. SourceTypeOK /\ RecordedBefore /\ VisitedAt /\ CopiedAt
    BY DEF SourceInv
  <1>1. /\ ~failed /\ ~Collision /\ Unstaged = {}
        /\ \A n \in DOMAIN out : \E i \in Inputs : Copy(n, i)
    BY <1>0 DEF CopiedAt
  <1>2. PICK i \in Inputs : Copy(k, i)
    BY <1>1
  <1>3. out[k].bytes = snap[p] /\ p = Input(i).path /\ p \in Paths
    BY <1>0, <1>2 DEF Copy, SourceTypeOK
  <1>4. p \in seen
    <2>1. CASE i = 0
      BY <1>0, <1>3, <2>1, Copied DEF SourceTypeOK
    <2>2. CASE i # 0
      BY <1>0, <1>1, <1>3, <2>2, Copied DEF VisitedAt
    <2> QED BY <2>1, <2>2
  <1>5. Analysed(p)
    BY <1>0, <1>1, <1>4 DEF VisitedAt, Analysed, Early
  <1>6. \E m \in Inputs : Input(m).path = p /\ Input(m).sha <= parsed[p]
    <2>1. CASE p = Entry /\ sha0 <= parsed[p]
      BY <1>0, <2>1, Copied
    <2>2. CASE \E r \in Records : r.kind \in Captured /\ r.path = p /\ r.sha <= parsed[p]
      <3>1. PICK r \in Records : r.kind \in Captured /\ r.path = p /\ r.sha <= parsed[p]
        BY <2>2
      <3>2. PICK m \in Inputs : Input(m) = r
        BY <1>0, <3>1, Copied
      <3> QED BY <3>1, <3>2
    <2> QED BY <1>5, <2>1, <2>2 DEF Analysed
  <1>7. PICK m \in Inputs : Input(m).path = p /\ Input(m).sha <= parsed[p]
    BY <1>6
  <1>8. PICK n \in DOMAIN out : out[n].pkg = Input(m).pkg
    BY <1>1 DEF Unstaged, Staged
  <1>9. PICK h \in Inputs : Copy(n, h)
    BY <1>1
  <1>10. Input(h).pkg = Input(m).pkg
    BY <1>8, <1>9 DEF Copy
  <1>11. Input(h).path = Input(m).path /\ Input(h).sha = Input(m).sha
    BY <1>1, <1>10 DEF Collision
  <1>12. Input(m).sha = snap[p]
    BY <1>7, <1>9, <1>11 DEF Copy
  <1>13. snap[p] <= parsed[p] /\ parsed[p] <= snap[p]
    BY <1>0, <1>3, <1>7, <1>12 DEF RecordedBefore, Bound, Settled
  <1>14. snap[p] \in Versions /\ parsed[p] \in Read
    BY <1>0, <1>3 DEF SourceTypeOK
  <1>15. snap[p] = parsed[p]
    BY <1>13, <1>14 DEF Versions, Read
  <1> QED BY <1>3, <1>5, <1>15 DEF Analysed

\* A published package is what its sources were at one moment, and complete.
LEMMA PublishedIsTrue ==
  ASSUME SourceInv
  PROVE  PackageTrue
  <1> SUFFICES ASSUME phase = "published" PROVE Snapshot /\ Complete
    BY DEF PackageTrue
  <1>0. SourceTypeOK /\ WalkAt /\ CopiedAt
    BY DEF SourceInv
  <1>1. Snapshot
    BY <1>0 DEF CopiedAt, Copy, Snapshot
  <1>2. ASSUME NEW k \in DOMAIN out, NEW j \in DOMAIN world.lits[out[k].of][out[k].bytes]
        PROVE  \E r \in Records :
                 /\ r.decl = out[k].of /\ r.lit = world.lits[out[k].of][out[k].bytes][j]
                 /\ r.kind = "unresolved" \/ r.pkg \in Staged
    <2> DEFINE p == out[k].of
    <2>1. /\ p \in Paths /\ parsed[p] # 0 /\ out[k].bytes = parsed[p]
          /\ \A n \in DOMAIN Parsed(p) : Parsed(p)[n] # Dynamic
      BY PublishedIsAnalysed
    <2>2. j \in DOMAIN Parsed(p) /\ world.lits[p][out[k].bytes][j] = Parsed(p)[j]
      BY <1>2, <2>1 DEF Parsed
    <2>3. stack = <<>> /\ DOMAIN <<>> = {}
      BY <1>0 DEF WalkAt, Settled
    <2>4. Recorded(p, j)
      BY <1>0, <2>1, <2>2, <2>3 DEF WalkAt
    <2>5. PICK r \in Records : r.decl = p /\ r.lit = Parsed(p)[j]
      BY <2>4 DEF Recorded
    <2>6. r.kind \in Captured \/ r.kind = "unresolved"
      BY <1>0 DEF CopiedAt, Refusing
    <2>7. ASSUME r.kind \in Captured PROVE r.pkg \in Staged
      <3>1. PICK i \in Inputs : Input(i) = r
        BY <1>0, <2>7, Copied
      <3> QED BY <1>0, <3>1 DEF CopiedAt, Unstaged
    <2> QED BY <2>2, <2>5, <2>6, <2>7
  <1> QED BY <1>1, <1>2 DEF Complete

-----------------------------------------------------------------------------
\* A capture starts with nothing read, recorded or copied.
LEMMA SourceStart == Init => SourceInv
  <1> SUFFICES ASSUME Init PROVE SourceInv
    OBVIOUS
  <1>1. SourceTypeOK
    BY SourceTypeStart
  <1>2. /\ phase \in Early /\ stack = <<>> /\ records = <<>> /\ edge = NoEdge /\ out = <<>>
        /\ seen = {Entry} /\ ~failed /\ sha0 = 0 /\ \A p \in Paths : parsed[p] = 0
    BY DEF Init, Early
  <1>3. Records = {} /\ DOMAIN <<>> = {}
    BY <1>2 DEF Records
  <1>4. RecordedBefore
    <2>1. \A p \in Paths : Bound(p) = content[p] /\ content[p] \in Versions
      BY <1>1, <1>2 DEF Bound, Settled, Early, SourceTypeOK
    <2> QED BY <1>2, <1>3, <2>1, EntryAssumption DEF RecordedBefore, Versions
  <1>5. StartsAt /\ VisitedAt
    BY <1>2, <1>3 DEF StartsAt, VisitedAt
  <1>6. WalkAt
    BY <1>2, <1>3 DEF WalkAt, Settled, Early
  <1>7. CopiedAt
    BY <1>2, <1>3 DEF CopiedAt, Early
  <1> QED BY <1>1, <1>4, <1>5, <1>6, <1>7 DEF SourceInv

\* What is published of a source tree, however it is edited meanwhile, is what its
\* files were at one moment, and every import in it is recorded and, unless it is the
\* profile's, in the package (build_source_dependency_closure, the transport and the
\* copy of the package).
THEOREM PackageTrueHolds == Spec => []PackageTrue
  <1>1. Init => SourceInv
    BY SourceStart
  <1>2. SourceInv /\ [Next]_vars => SourceInv'
    BY SourceTypeStep, RecordedStep, StartsStep, VisitedStep, WalkStep, CopiedStep DEF SourceInv
  <1>3. SourceInv => PackageTrue
    BY PublishedIsTrue
  <1> QED BY <1>1, <1>2, <1>3, PTL DEF Spec

-----------------------------------------------------------------------------
(* Paths: what normalising them leaves of what they begin with.            *)

\* Induction over the natural numbers, for a set of them (os.path.normpath's pass over
\* the components of a path).
LEMMA Induction ==
  ASSUME NEW S, 0 \in S, \A n \in Nat : n \in S => n + 1 \in S
  PROVE  Nat \subseteq S
  <1> DEFINE T == Nat \ S
             R == {p \in Nat \X Nat : p[1] < p[2]}
  <1> SUFFICES ASSUME T # {} PROVE FALSE
    OBVIOUS
  <1>1. IsWellFoundedOn(R, Nat)
    BY NatLessThanWellFounded DEF OpToRel
  <1>2. PICK x \in T : \A y \in T : ~ (<<y, x>> \in R)
    BY <1>1, WFMin
  <1>3. x # 0 /\ x - 1 \in Nat /\ x - 1 < x
    BY <1>2
  <1>4. x - 1 \in S
    BY <1>2, <1>3
  <1>5. (x - 1) + 1 = x
    BY <1>3
  <1> QED BY <1>2, <1>3, <1>4, <1>5

\* Two sequences of the same elements are one (a path is its components).
LEMMA SeqSame ==
  ASSUME NEW s, IsASeq(s), NEW t, IsASeq(t), Len(s) = Len(t),
         \A i \in 1..Len(s) : s[i] = t[i]
  PROVE  s = t
  <1>1. PICK S : s \in Seq(S)
    BY DEF IsASeq
  <1>2. PICK T : t \in Seq(T)
    BY DEF IsASeq
  <1> QED BY <1>1, <1>2

\* A path below a directory (os.path.join).
LEMMA Joined ==
  ASSUME NEW s, IsASeq(s), NEW t, IsASeq(t)
  PROVE  /\ IsASeq(s \o t) /\ Len(s) \in Nat /\ Len(t) \in Nat /\ Len(s \o t) = Len(s) + Len(t)
         /\ \A i \in 1..Len(s) : (s \o t)[i] = s[i]
         /\ \A i \in 1..Len(t) : (s \o t)[Len(s) + i] = t[i]
  <1>1. PICK S : s \in Seq(S)
    BY DEF IsASeq
  <1>2. PICK T : t \in Seq(T)
    BY DEF IsASeq
  <1>3. s \in Seq(S \cup T) /\ t \in Seq(S \cup T)
    BY <1>1, <1>2
  <1>4. s \o t \in Seq(S \cup T)
    BY <1>3
  <1> QED BY <1>3, <1>4 DEF IsASeq

\* The same, one component more or less.
LEMMA JoinedAppend ==
  ASSUME NEW s, IsASeq(s), NEW t, IsASeq(t), NEW e
  PROVE  s \o Append(t, e) = Append(s \o t, e)
  <1> DEFINE a == s \o Append(t, e)
             b == Append(s \o t, e)
  <1>0. IsASeq(s \o t) /\ Len(s) \in Nat /\ Len(t) \in Nat /\ Len(s \o t) = Len(s) + Len(t)
        /\ (\A i \in 1..Len(s) : (s \o t)[i] = s[i])
        /\ (\A i \in 1..Len(t) : (s \o t)[Len(s) + i] = t[i])
    BY Joined
  <1>1. IsASeq(Append(t, e)) /\ Len(Append(t, e)) = Len(t) + 1
        /\ (\A i \in 1..Len(t) : Append(t, e)[i] = t[i]) /\ Append(t, e)[Len(t) + 1] = e
    BY Appended
  <1>2. PICK te : te = Append(t, e)
    OBVIOUS
  <1>9. IsASeq(te)
    BY <1>1, <1>2
  <1>3. IsASeq(s \o te) /\ Len(s \o te) = Len(s) + Len(te)
        /\ (\A i \in 1..Len(s) : (s \o te)[i] = s[i])
        /\ (\A i \in 1..Len(te) : (s \o te)[Len(s) + i] = te[i])
    BY <1>9, Joined
  <1>4. PICK st : st = s \o t
    OBVIOUS
  <1>5. IsASeq(Append(st, e)) /\ Len(Append(st, e)) = Len(st) + 1
        /\ (\A i \in 1..Len(st) : Append(st, e)[i] = st[i]) /\ Append(st, e)[Len(st) + 1] = e
    BY <1>0, <1>4, Appended
  <1>6. IsASeq(a) /\ IsASeq(b) /\ Len(a) = Len(b) /\ Len(a) = Len(s) + Len(t) + 1
    BY <1>0, <1>1, <1>2, <1>3, <1>4, <1>5
  <1>7. ASSUME NEW i \in 1..Len(a) PROVE a[i] = b[i]
    <2>1. CASE i \in 1..Len(s)
      <3>1. a[i] = s[i] /\ st[i] = s[i] /\ i \in 1..Len(st)
        BY <1>0, <1>2, <1>3, <1>4, <2>1
      <3> QED BY <1>4, <1>5, <3>1
    <2>2. CASE i \notin 1..Len(s)
      <3>1. PICK j \in 1..(Len(t) + 1) : i = Len(s) + j
        <4>1. i - Len(s) \in 1..(Len(t) + 1) /\ i = Len(s) + (i - Len(s))
          BY <1>0, <1>6, <2>2
        <4> QED BY <4>1
      <3>2. a[i] = te[j]
        BY <1>1, <1>2, <1>3, <3>1
      <3>3. CASE j = Len(t) + 1
        BY <1>0, <1>1, <1>2, <1>4, <1>5, <3>1, <3>2, <3>3
      <3>4. CASE j # Len(t) + 1
        <4>1. j \in 1..Len(t) /\ i \in 1..Len(st)
          BY <1>0, <1>4, <3>1, <3>4
        <4>2. te[j] = t[j] /\ st[i] = t[j] /\ b[i] = st[i]
          BY <1>0, <1>1, <1>2, <1>4, <1>5, <3>1, <4>1
        <4> QED BY <3>2, <4>2
      <3> QED BY <3>3, <3>4
    <2> QED BY <2>1, <2>2
  <1> HIDE DEF a, b
  <1>8. a = b
    BY <1>6, <1>7, SeqSame
  <1> QED BY <1>8 DEF a, b

\* What is below a directory has its directory below that too (Path.parent).
LEMMA JoinedFront ==
  ASSUME NEW s, IsASeq(s), NEW t, IsASeq(t), t # <<>>
  PROVE  s \o t # <<>> /\ Last(s \o t) = Last(t) /\ Front(s \o t) = s \o Front(t)
  <1>1. IsASeq(Front(t)) /\ t = Append(Front(t), Last(t)) /\ Len(t) \in Nat \ {0}
        /\ Last(t) = t[Len(t)]
    BY Fronted
  <1>2. PICK f, e : f = Front(t) /\ e = Last(t)
    OBVIOUS
  <1>3. t = Append(f, e) /\ IsASeq(f)
    BY <1>1, <1>2
  <1>4. s \o t = Append(s \o f, e)
    BY <1>3, JoinedAppend
  <1>5. PICK u : u = s \o f
    OBVIOUS
  <1>6. IsASeq(u) /\ s \o t = Append(u, e)
    BY <1>3, <1>4, <1>5, Joined
  <1>7. PICK v : v = Append(u, e)
    OBVIOUS
  <1>8. /\ IsASeq(v) /\ v # <<>> /\ Len(u) \in Nat /\ Len(v) = Len(u) + 1 /\ v[Len(u) + 1] = e
        /\ \A i \in 1..Len(u) : v[i] = u[i]
    BY <1>6, <1>7, Appended
  <1>9. /\ IsASeq(Front(v)) /\ Len(Front(v)) = Len(v) - 1 /\ Last(v) = v[Len(v)]
        /\ \A i \in 1..(Len(v) - 1) : Front(v)[i] = v[i]
    BY <1>8, Fronted
  <1>10. PICK w : w = Front(v)
    OBVIOUS
  <1>11. IsASeq(w) /\ Len(w) = Len(u) /\ \A i \in 1..Len(w) : w[i] = u[i]
    BY <1>8, <1>9, <1>10
  <1>12. w = u
    BY <1>6, <1>11, SeqSame
  <1>13. Last(v) = e
    BY <1>8, <1>9
  <1> QED BY <1>2, <1>5, <1>6, <1>7, <1>8, <1>10, <1>12, <1>13

\* What a path is below a directory that it begins with (PurePath.relative_to).
LEMMA RelType ==
  ASSUME NEW s, IsASeq(s), NEW r, IsASeq(r), IsPrefix(r, s)
  PROVE  IsASeq(Rel(s, r)) /\ s = r \o Rel(s, r) /\ (s # r => Rel(s, r) # <<>>)
  <1>1. PICK S : s \in Seq(S)
    BY DEF IsASeq
  <1>2. PICK R : r \in Seq(R)
    BY DEF IsASeq
  <1>3. Len(r) \in Nat /\ Len(s) \in Nat /\ Len(r) <= Len(s)
    BY <1>1, <1>2 DEF IsPrefix
  <1>4. ASSUME NEW i \in 1..Len(r) PROVE r[i] = s[i]
    <2>1. SubSeq(r, 1, Len(r))[i] = r[i]
      BY <1>2, <1>3
    <2>2. SubSeq(s, 1, Len(r))[i] = s[i]
      BY <1>1, <1>3
    <2> QED BY <2>1, <2>2 DEF IsPrefix
  <1>12. PICK t : t = Rel(s, r)
    OBVIOUS
  <1>5. /\ t \in Seq(S) /\ Len(t) = Len(s) - Len(r)
        /\ \A i \in 1..(Len(s) - Len(r)) : t[i] = s[Len(r) + i]
    BY <1>1, <1>3, <1>12 DEF Rel
  <1>6. IsASeq(t)
    BY <1>5 DEF IsASeq
  <1>7. /\ IsASeq(r \o t) /\ Len(r \o t) = Len(r) + Len(t)
        /\ (\A i \in 1..Len(r) : (r \o t)[i] = r[i])
        /\ (\A i \in 1..Len(t) : (r \o t)[Len(r) + i] = t[i])
    BY <1>6, Joined
  <1>8. PICK u : u = r \o t
    OBVIOUS
  <1>9. ASSUME NEW i \in 1..Len(s) PROVE s[i] = u[i]
    <2>1. CASE i \in 1..Len(r)
      BY <1>4, <1>7, <1>8, <2>1
    <2>2. CASE i \notin 1..Len(r)
      <3>1. PICK j \in 1..Len(t) : i = Len(r) + j
        <4>1. i - Len(r) \in 1..Len(t) /\ i = Len(r) + (i - Len(r))
          BY <1>3, <1>5, <2>2
        <4> QED BY <4>1
      <3> QED BY <1>5, <1>7, <1>8, <3>1
    <2> QED BY <2>1, <2>2
  <1>10. s = u
    <2>1. IsASeq(u)
      BY <1>7, <1>8
    <2>2. Len(s) = Len(u)
      BY <1>3, <1>5, <1>7, <1>8
    <2> QED BY <1>9, <2>1, <2>2, SeqSame
  <1>11. ASSUME t = <<>> PROVE s = r
    <2>1. Len(s) = Len(r)
      BY <1>3, <1>5, <1>11
    <2> QED BY <1>4, <2>1, SeqSame
  <1> QED BY <1>12, <1>6, <1>8, <1>10, <1>11

\* A path below a directory is again itself, seen from that (relative_to).
LEMMA RelOf ==
  ASSUME NEW r, IsASeq(r), NEW t, IsASeq(t)
  PROVE  IsPrefix(r, r \o t) /\ Rel(r \o t, r) = t
  <1>1. PICK u : u = r \o t
    OBVIOUS
  <1>2. /\ IsASeq(u) /\ Len(r) \in Nat /\ Len(t) \in Nat /\ Len(u) = Len(r) + Len(t)
        /\ (\A i \in 1..Len(r) : u[i] = r[i])
        /\ (\A i \in 1..Len(t) : u[Len(r) + i] = t[i])
    BY <1>1, Joined
  <1>3. PICK S : u \in Seq(S)
    BY <1>2 DEF IsASeq
  <1>4. PICK R : r \in Seq(R)
    BY DEF IsASeq
  <1>5. IsPrefix(r, u)
    <2> DEFINE a == SubSeq(r, 1, Len(r))
               b == SubSeq(u, 1, Len(r))
    <2>1. a \in Seq(R) /\ Len(a) = Len(r) /\ \A i \in 1..Len(r) : a[i] = r[i]
      BY <1>2, <1>4
    <2>2. b \in Seq(S) /\ Len(b) = Len(r) /\ \A i \in 1..Len(r) : b[i] = u[i]
      BY <1>2, <1>3
    <2> HIDE DEF a, b
    <2>3. a = b
      BY <1>2, <2>1, <2>2, SeqSame DEF IsASeq
    <2> QED BY <1>2, <2>3 DEF IsPrefix, a, b
  <1>6. /\ Rel(u, r) \in Seq(S) /\ Len(Rel(u, r)) = Len(t)
        /\ \A i \in 1..Len(t) : Rel(u, r)[i] = u[Len(r) + i]
    BY <1>2, <1>3 DEF Rel
  <1>7. PICK v : v = Rel(u, r)
    OBVIOUS
  <1>8. IsASeq(v)
    BY <1>6, <1>7 DEF IsASeq
  <1>9. v = t
    BY <1>2, <1>6, <1>7, <1>8, SeqSame
  <1> QED BY <1>1, <1>5, <1>7, <1>9

\* Normalising a path goes over its components one by one (os.path.normpath).
Passes(f, s) ==
  /\ f[0] = <<>> /\ \A n \in 1..Len(s) : f[n] = Tidied(f[n - 1], s[n])
  /\ Normal(s) = f[Len(s)]

\* Every path can be normalised, one component at a time (os.path.normpath).
LEMMA NormalDefined ==
  ASSUME NEW s, IsASeq(s)
  PROVE  \E f : Passes(f, s)
  <1> DEFINE Is(f, n) == f = [i \in 0..n |-> IF i = 0 THEN <<>> ELSE Tidied(f[i - 1], s[i])]
             S == {n \in Nat : \E f : Is(f, n)}
  <1>0. Len(s) \in Nat
    BY DEF IsASeq
  <1>1. 0 \in S
    <2>1. Is([i \in 0..0 |-> <<>>], 0)
      OBVIOUS
    <2> QED BY <2>1
  <1>2. ASSUME NEW n \in Nat, n \in S PROVE n + 1 \in S
    <2>1. PICK f : Is(f, n)
      BY <1>2
    <2> DEFINE g == [i \in 0..(n + 1) |-> IF i = n + 1 THEN Tidied(f[n], s[n + 1]) ELSE f[i]]
    <2>2. ASSUME NEW i \in 0..(n + 1)
          PROVE  g[i] = IF i = 0 THEN <<>> ELSE Tidied(g[i - 1], s[i])
      <3>1. CASE i = n + 1
        BY <3>1
      <3>2. CASE i # n + 1
        <4>1. i \in 0..n /\ (i # 0 => i - 1 \in 0..n /\ i - 1 # n + 1)
          BY <3>2
        <4>2. f[i] = IF i = 0 THEN <<>> ELSE Tidied(f[i - 1], s[i])
          BY <4>1, <2>1
        <4> QED BY <4>1, <4>2, <3>2
      <3> QED BY <3>1, <3>2
    <2>3. Is(g, n + 1)
      BY <2>2
    <2> HIDE DEF g, Is
    <2> QED BY <2>3
  <1>3. Len(s) \in S
    <2> HIDE DEF S
    <2> QED BY <1>0, <1>1, <1>2, Induction
  <1>4. PICK e : Is(e, Len(s))
    BY <1>3
  <1> DEFINE f == CHOOSE h : Is(h, Len(s))
  <1>5. Normal(s) = f[Len(s)]
    BY DEF Normal
  <1>6. f = CHOOSE h : Is(h, Len(s))
    OBVIOUS
  <1> HIDE DEF f
  <1>7. Is(f, Len(s))
    BY <1>4, <1>6
  <1>8. f[0] = <<>> /\ \A n \in 1..Len(s) : f[n] = Tidied(f[n - 1], s[n])
    BY <1>0, <1>7
  <1> QED BY <1>5, <1>8 DEF Passes

Plain(p) == \A i \in DOMAIN p : p[i] # ".."

\* What is dropped of a path is never a component ".." (Tidied).
LEMMA TidiedStep ==
  ASSUME NEW u, IsASeq(u), NEW part
  PROVE  /\ IsASeq(Tidied(u, part))
         /\ Plain(Tidied(u, part)) => Plain(u)
  <1>1. CASE part = "."
    BY <1>1 DEF Tidied
  <1>2. CASE part # "." /\ part = ".." /\ u # <<>> /\ Last(u) # ".."
    <2>1. PICK f, e : f = Front(u) /\ e = Last(u)
      OBVIOUS
    <2>2. Tidied(u, part) = f
      BY <1>2, <2>1 DEF Tidied
    <2>3. /\ IsASeq(f) /\ Len(u) \in Nat \ {0} /\ DOMAIN u = 1..Len(u) /\ DOMAIN f = 1..(Len(u) - 1)
          /\ (\A i \in 1..(Len(u) - 1) : f[i] = u[i]) /\ e = u[Len(u)]
      BY <1>2, <2>1, Fronted
    <2>4. ASSUME Plain(f), NEW i \in DOMAIN u PROVE u[i] # ".."
      <3>1. CASE i = Len(u)
        BY <1>2, <2>1, <2>3, <3>1
      <3>2. CASE i # Len(u)
        BY <2>3, <2>4, <3>2 DEF Plain
      <3> QED BY <3>1, <3>2
    <2> QED BY <2>2, <2>3, <2>4 DEF Plain
  <1>3. CASE part # "." /\ ~(part = ".." /\ u # <<>> /\ Last(u) # "..")
    <2>1. PICK a : a = Append(u, part)
      OBVIOUS
    <2>2. Tidied(u, part) = a
      BY <1>3, <2>1 DEF Tidied
    <2>3. /\ IsASeq(a) /\ Len(u) \in Nat /\ DOMAIN u = 1..Len(u) /\ DOMAIN a = 1..(Len(u) + 1)
          /\ \A i \in 1..Len(u) : a[i] = u[i]
      BY <2>1, Appended
    <2>4. Plain(a) => Plain(u)
      BY <2>3 DEF Plain
    <2> QED BY <2>2, <2>3, <2>4
  <1> QED BY <1>1, <1>2, <1>3

\* Below a directory a path is normalised as it is by itself, unless it leaves that
\* directory (Tidied).
LEMMA TidiedUnder ==
  ASSUME NEW c, IsASeq(c), NEW u, IsASeq(u), NEW part, Plain(Tidied(u, part))
  PROVE  Tidied(c \o u, part) = c \o Tidied(u, part)
  <1>1. CASE part = "."
    BY <1>1 DEF Tidied
  <1>2. CASE part = ".."
    <2>1. u # <<>> /\ Last(u) # ".."
      <3>1. SUFFICES ASSUME ~(u # <<>> /\ Last(u) # "..") PROVE FALSE
        OBVIOUS
      <3>2. PICK a : a = Append(u, part)
        OBVIOUS
      <3>3. Tidied(u, part) = a
        BY <1>2, <3>1, <3>2 DEF Tidied
      <3>4. Len(u) + 1 \in DOMAIN a /\ a[Len(u) + 1] = ".."
        BY <1>2, <3>2, Appended
      <3> QED BY <3>3, <3>4 DEF Plain
    <2>2. Tidied(u, part) = Front(u)
      BY <1>2, <2>1 DEF Tidied
    <2>3. c \o u # <<>> /\ Last(c \o u) = Last(u) /\ Front(c \o u) = c \o Front(u)
      BY <2>1, JoinedFront
    <2>4. PICK v : v = c \o u
      OBVIOUS
    <2>5. Tidied(v, part) = Front(v)
      BY <1>2, <2>1, <2>3, <2>4 DEF Tidied
    <2> QED BY <2>2, <2>3, <2>4, <2>5
  <1>3. CASE part # "." /\ part # ".."
    <2>1. PICK v : v = c \o u
      OBVIOUS
    <2>2. Tidied(v, part) = Append(v, part) /\ Tidied(u, part) = Append(u, part)
      BY <1>3 DEF Tidied
    <2>3. c \o Append(u, part) = Append(c \o u, part)
      BY JoinedAppend
    <2> QED BY <2>1, <2>2, <2>3
  <1> QED BY <1>1, <1>2, <1>3

\* A directory without "." and ".." in its path.
IsDirectory(c) == IsASeq(c) /\ \A i \in 1..Len(c) : c[i] \notin {".", ".."}

\* The components of a directory stand when those below it come (os.path.normpath).
LEMMA NormalBegins ==
  ASSUME NEW c, IsDirectory(c), NEW x, IsASeq(x), NEW s, s = c \o x, NEW g, Passes(g, s)
  PROVE  g[Len(c)] = c
  <1>0. IsASeq(c) /\ Len(c) \in Nat /\ Len(x) \in Nat
    BY Joined DEF IsDirectory
  <1>2. Len(s) = Len(c) + Len(x) /\ \A i \in 1..Len(c) : s[i] = c[i]
    BY <1>0, Joined
  <1>3. g[0] = <<>> /\ \A n \in 1..Len(s) : g[n] = Tidied(g[n - 1], s[n])
    BY DEF Passes
  <1> DEFINE A(n) == IsASeq(g[n]) /\ Len(g[n]) = n /\ \A i \in 1..n : g[n][i] = c[i]
             S == {n \in Nat : n <= Len(c) => A(n)}
  <1>4. 0 \in S
    <2>1. IsASeq(<<>>) /\ Len(<<>>) = 0
      BY DEF IsASeq
    <2> QED BY <1>3, <2>1
  <1>5. ASSUME NEW n \in Nat, n \in S PROVE n + 1 \in S
    <2> SUFFICES ASSUME n + 1 <= Len(c) PROVE A(n + 1)
      OBVIOUS
    <2>1. A(n)
      BY <1>0, <1>5
    <2>2. PICK u : u = g[n]
      OBVIOUS
    <2>3. n + 1 \in 1..Len(c) /\ n + 1 \in 1..Len(s) /\ (n + 1) - 1 = n
      BY <1>0, <1>2
    <2>4. PICK part : part = c[n + 1]
      OBVIOUS
    <2>5. part \notin {".", ".."} /\ s[n + 1] = part
      BY <1>2, <2>3, <2>4 DEF IsDirectory
    <2>6. g[n + 1] = Tidied(u, part)
      BY <1>3, <2>2, <2>3, <2>5
    <2>7. g[n + 1] = Append(u, part)
      BY <2>5, <2>6 DEF Tidied
    <2>8. PICK a : a = Append(u, part)
      OBVIOUS
    <2>9. IsASeq(u) /\ Len(u) = n /\ \A i \in 1..n : u[i] = c[i]
      BY <2>1, <2>2
    <2>10. IsASeq(a) /\ Len(a) = n + 1 /\ (\A i \in 1..n : a[i] = u[i]) /\ a[n + 1] = part
      BY <2>8, <2>9, Appended
    <2>11. \A i \in 1..(n + 1) : a[i] = c[i]
      BY <2>4, <2>9, <2>10
    <2> QED BY <2>7, <2>8, <2>10, <2>11
  <1>6. Len(c) \in S
    <2> HIDE DEF S
    <2> QED BY <1>0, <1>4, <1>5, Induction
  <1>7. A(Len(c))
    BY <1>0, <1>6
  <1>8. PICK u : u = g[Len(c)]
    OBVIOUS
  <1>9. IsASeq(u) /\ Len(u) = Len(c) /\ \A i \in 1..Len(c) : u[i] = c[i]
    BY <1>7, <1>8
  <1>10. u = c
    BY <1>0, <1>9, SeqSame
  <1> QED BY <1>8, <1>10

\* What stands of a path after some of its components is a path (os.path.normpath).
LEMMA PassType ==
  ASSUME NEW x, IsASeq(x), NEW f, f[0] = <<>>,
         \A n \in 1..Len(x) : f[n] = Tidied(f[n - 1], x[n])
  PROVE  \A n \in 0..Len(x) : IsASeq(f[n])
  <1>0. Len(x) \in Nat
    BY Appended
  <1> DEFINE S == {n \in Nat : n <= Len(x) => IsASeq(f[n])}
  <1>1. 0 \in S
    <2>1. IsASeq(<<>>)
      BY DEF IsASeq
    <2>2. IsASeq(f[0])
      BY <2>1
    <2> QED BY <2>2
  <1>2. ASSUME NEW n \in Nat, n \in S PROVE n + 1 \in S
    <2> SUFFICES ASSUME n + 1 <= Len(x) PROVE IsASeq(f[n + 1])
      OBVIOUS
    <2>1. IsASeq(f[n]) /\ n + 1 \in 1..Len(x) /\ (n + 1) - 1 = n
      BY <1>0, <1>2
    <2>2. PICK u, part : u = f[n] /\ part = x[n + 1]
      OBVIOUS
    <2>3. f[n + 1] = Tidied(u, part)
      BY <2>1, <2>2
    <2>4. IsASeq(u)
      BY <2>1, <2>2
    <2>5. IsASeq(Tidied(u, part))
      BY <2>4, TidiedStep
    <2> QED BY <2>3, <2>5
  <1>3. Nat \subseteq S
    <2> HIDE DEF S
    <2> QED BY <1>1, <1>2, Induction
  <1> QED BY <1>0, <1>3

\* If what comes of a path has no component "..", nothing on the way to it has.
LEMMA PassPlain ==
  ASSUME NEW x, IsASeq(x), NEW f, f[0] = <<>>,
         \A n \in 1..Len(x) : f[n] = Tidied(f[n - 1], x[n]), Plain(f[Len(x)])
  PROVE  \A n \in 0..Len(x) : Plain(f[n])
  <1>0. Len(x) \in Nat
    BY Appended
  <1>1. \A n \in 0..Len(x) : IsASeq(f[n])
    BY PassType
  <1> DEFINE B == {n \in Nat : n <= Len(x) => Plain(f[Len(x) - n])}
  <1>2. 0 \in B
    <2>1. Len(x) - 0 = Len(x)
      BY <1>0
    <2> QED BY <2>1
  <1>3. ASSUME NEW n \in Nat, n \in B PROVE n + 1 \in B
    <2> SUFFICES ASSUME n + 1 <= Len(x) PROVE Plain(f[Len(x) - (n + 1)])
      OBVIOUS
    <2>1. PICK m : m = Len(x) - (n + 1)
      OBVIOUS
    <2>2. m \in 0..Len(x) /\ m + 1 \in 1..Len(x) /\ (m + 1) - 1 = m /\ m + 1 = Len(x) - n
      BY <1>0, <2>1
    <2>3. Plain(f[m + 1])
      BY <1>0, <1>3, <2>2
    <2>4. PICK u, part : u = f[m] /\ part = x[m + 1]
      OBVIOUS
    <2>5. f[m + 1] = Tidied(u, part) /\ IsASeq(u)
      BY <1>1, <2>2, <2>4
    <2>6. Plain(u)
      BY <2>3, <2>5, TidiedStep
    <2> QED BY <2>1, <2>4, <2>6
  <1>4. Nat \subseteq B
    <2> HIDE DEF B
    <2> QED BY <1>2, <1>3, Induction
  <1>5. ASSUME NEW n \in 0..Len(x) PROVE Plain(f[n])
    <2>1. PICK m : m = Len(x) - n
      OBVIOUS
    <2>2. m \in Nat /\ m <= Len(x) /\ Len(x) - m = n
      BY <1>0, <2>1
    <2>3. m \in B
      BY <1>4, <2>2
    <2> QED BY <2>2, <2>3
  <1> QED BY <1>5

\* A path that does not lead out of a directory is the same below it as by itself
\* (os.path.normpath of the capture, proof_run_normalized_source_dir of the child).
LEMMA NormalUnder ==
  ASSUME NEW c, IsDirectory(c), NEW x, IsASeq(x), Plain(Normal(x))
  PROVE  Normal(c \o x) = c \o Normal(x)
  <1>0. IsASeq(c) /\ Len(c) \in Nat /\ Len(x) \in Nat
    BY Joined DEF IsDirectory
  <1>1. PICK s : s = c \o x
    OBVIOUS
  <1>2. /\ IsASeq(s) /\ Len(s) = Len(c) + Len(x)
        /\ \A i \in 1..Len(x) : s[Len(c) + i] = x[i]
    <2>1. /\ IsASeq(c \o x) /\ Len(c \o x) = Len(c) + Len(x)
          /\ \A i \in 1..Len(x) : (c \o x)[Len(c) + i] = x[i]
      BY <1>0, Joined
    <2> QED BY <1>1, <2>1
  <1>3. PICK f : Passes(f, x)
    BY NormalDefined
  <1>4. PICK g : Passes(g, s)
    BY <1>2, NormalDefined
  <1>5. g[Len(c)] = c
    BY <1>1, <1>4, NormalBegins
  <1>6. /\ f[0] = <<>> /\ (\A n \in 1..Len(x) : f[n] = Tidied(f[n - 1], x[n]))
        /\ Normal(x) = f[Len(x)]
        /\ (\A n \in 1..Len(s) : g[n] = Tidied(g[n - 1], s[n])) /\ Normal(s) = g[Len(s)]
    BY <1>3, <1>4 DEF Passes
  <1>7. \A n \in 0..Len(x) : IsASeq(f[n])
    BY <1>6, PassType
  <1>8. \A n \in 0..Len(x) : Plain(f[n])
    BY <1>6, PassPlain
  <1> DEFINE D == {n \in Nat : n <= Len(x) => g[Len(c) + n] = c \o f[n]}
  <1>9. 0 \in D
    <2>1. Len(c) + 0 = Len(c)
      BY <1>0
    <2>2. c \o <<>> = c
      <3>1. PICK R : c \in Seq(R)
        BY <1>0 DEF IsASeq
      <3> QED BY <3>1
    <2> QED BY <1>5, <1>6, <2>1, <2>2
  <1>10. ASSUME NEW n \in Nat, n \in D PROVE n + 1 \in D
    <2> SUFFICES ASSUME n + 1 <= Len(x) PROVE g[Len(c) + (n + 1)] = c \o f[n + 1]
      OBVIOUS
    <2>1. PICK k : k = Len(c) + (n + 1)
      OBVIOUS
    <2>2. /\ n \in 0..Len(x) /\ n + 1 \in 0..Len(x) /\ n + 1 \in 1..Len(x) /\ (n + 1) - 1 = n
          /\ k \in 1..Len(s) /\ k - 1 = Len(c) + n
      BY <1>0, <1>2, <2>1
    <2>3. PICK u, part : u = f[n] /\ part = x[n + 1]
      OBVIOUS
    <2>4. g[k - 1] = c \o u
      BY <1>10, <2>2, <2>3
    <2>5. s[k] = part
      BY <1>2, <2>1, <2>2, <2>3
    <2>6. g[k] = Tidied(c \o u, part)
      <3>1. PICK v : v = c \o u
        OBVIOUS
      <3>2. g[k] = Tidied(v, part)
        BY <1>6, <2>2, <2>4, <2>5, <3>1
      <3> QED BY <3>1, <3>2
    <2>7. f[n + 1] = Tidied(u, part) /\ IsASeq(u) /\ Plain(f[n + 1])
      BY <1>6, <1>7, <1>8, <2>2, <2>3
    <2>8. Tidied(c \o u, part) = c \o Tidied(u, part)
      BY <1>0, <2>7, TidiedUnder
    <2> QED BY <2>1, <2>6, <2>7, <2>8
  <1>11. Len(x) \in D
    <2> HIDE DEF D
    <2> QED BY <1>0, <1>9, <1>10, Induction
  <1>12. g[Len(c) + Len(x)] = c \o f[Len(x)]
    BY <1>0, <1>11
  <1> QED BY <1>1, <1>2, <1>6, <1>12

\* A normalised path is a path (os.path.normpath).
LEMMA NormalType ==
  ASSUME NEW x, IsASeq(x)
  PROVE  IsASeq(Normal(x))
  <1>1. PICK f : Passes(f, x)
    BY NormalDefined
  <1>2. /\ f[0] = <<>> /\ (\A n \in 1..Len(x) : f[n] = Tidied(f[n - 1], x[n]))
        /\ Normal(x) = f[Len(x)]
    BY <1>1 DEF Passes
  <1>3. \A n \in 0..Len(x) : IsASeq(f[n])
    BY <1>2, PassType
  <1>4. Len(x) \in 0..Len(x)
    BY Appended
  <1> QED BY <1>2, <1>3, <1>4

-----------------------------------------------------------------------------
(* The package root, and what an import is recorded with.                  *)

\* A path begins with those whose components it has (PurePath.is_relative_to).
LEMMA Begins ==
  ASSUME NEW r, IsASeq(r), NEW s, IsASeq(s)
  PROVE  IsPrefix(r, s) <=> Len(r) <= Len(s) /\ \A i \in 1..Len(r) : r[i] = s[i]
  <1>1. PICK R : r \in Seq(R)
    BY DEF IsASeq
  <1>2. PICK S : s \in Seq(S)
    BY DEF IsASeq
  <1>3. SUFFICES ASSUME Len(r) <= Len(s)
                 PROVE  SubSeq(r, 1, Len(r)) = SubSeq(s, 1, Len(r))
                          <=> \A i \in 1..Len(r) : r[i] = s[i]
    BY DEF IsPrefix
  <1>4. PICK a, b : a = SubSeq(r, 1, Len(r)) /\ b = SubSeq(s, 1, Len(r))
    OBVIOUS
  <1>5. a \in Seq(R) /\ Len(a) = Len(r) /\ \A i \in 1..Len(r) : a[i] = r[i]
    BY <1>1, <1>4
  <1>6. Len(r) \in Nat /\ Len(s) \in Nat
    BY <1>1, <1>2
  <1>7. b \in Seq(S) /\ Len(b) = Len(r) /\ \A i \in 1..Len(r) : b[i] = s[i]
    BY <1>2, <1>3, <1>4, <1>6
  <1>8. ASSUME \A i \in 1..Len(r) : r[i] = s[i] PROVE a = b
    <2>1. IsASeq(a) /\ IsASeq(b)
      BY <1>5, <1>7 DEF IsASeq
    <2> QED BY <1>5, <1>7, <1>8, <2>1, SeqSame
  <1>9. ASSUME a = b PROVE \A i \in 1..Len(r) : r[i] = s[i]
    BY <1>5, <1>7, <1>9
  <1> QED BY <1>4, <1>8, <1>9

\* A step that stays or goes up, and is not beyond the top, stays above what it began in.
LEMMA UpStep ==
  ASSUME NEW u, IsASeq(u), NEW d, IsASeq(d), IsPrefix(u, d),
         NEW part, part \in {".", ".."}, Plain(Tidied(u, part))
  PROVE  IsPrefix(Tidied(u, part), d)
  <1>1. CASE part = "."
    BY <1>1 DEF Tidied
  <1>2. CASE part = ".." /\ ~(u # <<>> /\ Last(u) # "..")
    <2>1. PICK a : a = Append(u, part)
      OBVIOUS
    <2>2. Tidied(u, part) = a
      BY <1>2, <2>1 DEF Tidied
    <2>3. Len(u) + 1 \in DOMAIN a /\ a[Len(u) + 1] = ".."
      BY <1>2, <2>1, Appended
    <2> QED BY <2>2, <2>3 DEF Plain
  <1>3. CASE part = ".." /\ u # <<>> /\ Last(u) # ".."
    <2>1. PICK f : f = Front(u)
      OBVIOUS
    <2>2. Tidied(u, part) = f
      BY <1>3, <2>1 DEF Tidied
    <2>3. /\ IsASeq(f) /\ Len(u) \in Nat \ {0} /\ Len(f) = Len(u) - 1
          /\ \A i \in 1..(Len(u) - 1) : f[i] = u[i]
      BY <1>3, <2>1, Fronted
    <2>4. Len(u) <= Len(d) /\ (\A i \in 1..Len(u) : u[i] = d[i]) /\ Len(d) \in Nat
      BY Begins, Appended
    <2>5. Len(f) <= Len(d) /\ \A i \in 1..Len(f) : f[i] = d[i]
      BY <2>3, <2>4
    <2>6. IsPrefix(f, d)
      BY <2>3, <2>5, Begins
    <2> QED BY <2>2, <2>6
  <1> QED BY <1>1, <1>2, <1>3

\* A literal that goes up first does so above where it began, if what it names is not
\* outside (Sys.file_exists).
LEMMA UpInside ==
  ASSUME NEW d, IsDirectory(d), NEW l, IsASeq(l), UpFirst(l), Plain(Normal(d \o l)),
         NEW n \in 1..Len(l), l[n] = ".."
  PROVE  IsPrefix(Normal(d \o SubSeq(l, 1, n - 1)), d)
  <1>0. /\ IsASeq(d) /\ Len(d) \in Nat /\ Len(l) \in Nat /\ DOMAIN l = 1..Len(l)
    BY Appended DEF IsDirectory
  <1>1. PICK s, m : s = d \o l /\ m = SubSeq(l, 1, n - 1)
    OBVIOUS
  <1>2. IsASeq(m) /\ Len(m) = n - 1 /\ \A i \in 1..(n - 1) : m[i] = l[i]
    <2>1. PICK S : l \in Seq(S)
      BY DEF IsASeq
    <2>2. m \in Seq(S) /\ Len(m) = n - 1 /\ \A i \in 1..(n - 1) : m[i] = l[i]
      BY <1>0, <1>1, <2>1
    <2> QED BY <2>2 DEF IsASeq
  <1>3. PICK w : w = d \o m
    OBVIOUS
  <1>4. /\ IsASeq(s) /\ Len(s) = Len(d) + Len(l)
        /\ \A i \in 1..Len(l) : s[Len(d) + i] = l[i]
    <2>1. /\ IsASeq(d \o l) /\ Len(d \o l) = Len(d) + Len(l)
          /\ \A i \in 1..Len(l) : (d \o l)[Len(d) + i] = l[i]
      BY <1>0, Joined
    <2> QED BY <1>1, <2>1
  <1>5. /\ IsASeq(w) /\ Len(w) = Len(d) + (n - 1)
        /\ \A i \in 1..(n - 1) : w[Len(d) + i] = l[i]
    <2>1. /\ IsASeq(d \o m) /\ Len(d \o m) = Len(d) + Len(m)
          /\ \A i \in 1..Len(m) : (d \o m)[Len(d) + i] = m[i]
      <3>1. IsASeq(m)
        BY <1>2
      <3> QED BY <1>0, <3>1, Joined
    <2> QED BY <1>2, <1>3, <2>1
  <1>6. PICK g : Passes(g, s)
    BY <1>4, NormalDefined
  <1>7. PICK h : Passes(h, w)
    BY <1>5, NormalDefined
  <1>8. g[Len(d)] = d /\ h[Len(d)] = d
    BY <1>1, <1>2, <1>3, <1>6, <1>7, NormalBegins
  <1>9. /\ g[0] = <<>> /\ (\A i \in 1..Len(s) : g[i] = Tidied(g[i - 1], s[i])) /\ Normal(s) = g[Len(s)]
        /\ (\A i \in 1..Len(w) : h[i] = Tidied(h[i - 1], w[i])) /\ Normal(w) = h[Len(w)]
    BY <1>6, <1>7 DEF Passes
  <1>10. Plain(g[Len(s)])
    BY <1>1, <1>9
  <1>11. \A i \in 0..Len(s) : IsASeq(g[i]) /\ Plain(g[i])
    BY <1>4, <1>9, <1>10, PassType, PassPlain
  <1> DEFINE A(k) == h[Len(d) + k] = g[Len(d) + k] /\ IsPrefix(g[Len(d) + k], d)
             S == {k \in Nat : k <= n - 1 => A(k)}
  <1>12. 0 \in S
    <2>1. Len(d) + 0 = Len(d) /\ IsPrefix(d, d)
      BY <1>0, Begins
    <2> QED BY <1>8, <2>1
  <1>13. ASSUME NEW k \in Nat, k \in S PROVE k + 1 \in S
    <2> SUFFICES ASSUME k + 1 <= n - 1 PROVE A(k + 1)
      OBVIOUS
    <2>1. PICK i : i = Len(d) + (k + 1)
      OBVIOUS
    <2>2. /\ i \in 1..Len(s) /\ i \in 1..Len(w) /\ i - 1 = Len(d) + k /\ i - 1 \in 0..Len(s)
          /\ k + 1 \in 1..(n - 1) /\ k + 1 \in 1..Len(l) /\ k + 1 < n /\ k <= n - 1
          /\ i \in 0..Len(s)
      BY <1>0, <1>4, <1>5, <2>1
    <2>3. A(k)
      BY <1>13, <2>2
    <2>4. PICK u, part : u = g[i - 1] /\ part = l[k + 1]
      OBVIOUS
    <2>5. s[i] = part /\ w[i] = part
      BY <1>4, <1>5, <2>1, <2>2, <2>4
    <2>6. h[i - 1] = u /\ IsPrefix(u, d)
      BY <2>2, <2>3, <2>4
    <2>7. g[i] = Tidied(u, part) /\ h[i] = Tidied(u, part)
      BY <1>9, <2>2, <2>4, <2>5, <2>6
    <2>8. part \in {".", ".."}
      BY <1>0, <2>2, <2>4 DEF UpFirst
    <2>9. IsASeq(u) /\ Plain(g[i])
      BY <1>11, <2>2, <2>4
    <2>10. IsPrefix(Tidied(u, part), d)
      BY <1>0, <2>6, <2>7, <2>8, <2>9, UpStep
    <2> QED BY <2>1, <2>7, <2>10
  <1>14. n - 1 \in S
    <2> HIDE DEF S
    <2>1. n - 1 \in Nat
      BY <1>0
    <2> QED BY <1>12, <1>13, <2>1, Induction
  <1>15. A(n - 1)
    BY <1>0, <1>14
  <1>16. IsPrefix(Normal(w), d)
    BY <1>5, <1>9, <1>15
  <1> QED BY <1>1, <1>3, <1>16

RootAt == IsASeq(root) /\ IsPrefix(root, Front(Entry))

\* A file is below directories of sensible names (Path.resolve).
LEMMA APath ==
  ASSUME NEW p \in Paths
  PROVE  IsDirectory(p) /\ IsASeq(p) /\ p # <<>>
  <1>1. p \in Seq(ToSet(p)) /\ p # <<>> /\ \A i \in DOMAIN p : p[i] \notin {".", ".."}
    BY PathsAssumption
  <1>2. IsASeq(p) /\ DOMAIN p = 1..Len(p)
    BY <1>1 DEF IsASeq
  <1> QED BY <1>1, <1>2 DEF IsDirectory

\* The root is a directory above the entrypoint.
LEMMA RootAbove ==
  ASSUME RootAt
  PROVE  IsDirectory(root) /\ IsPrefix(root, Entry) /\ root # Entry
  <1>1. IsDirectory(Entry) /\ IsASeq(Entry) /\ Entry # <<>>
    BY APath, EntryAssumption
  <1>2. PICK f : f = Front(Entry)
    OBVIOUS
  <1>3. /\ IsASeq(f) /\ Len(f) = Len(Entry) - 1 /\ Len(Entry) \in Nat \ {0}
        /\ \A i \in 1..(Len(Entry) - 1) : f[i] = Entry[i]
    BY <1>1, <1>2, Fronted
  <1>4. IsASeq(root) /\ IsPrefix(root, f)
    BY <1>2 DEF RootAt
  <1>5. Len(root) <= Len(f) /\ \A i \in 1..Len(root) : root[i] = f[i]
    BY <1>3, <1>4, Begins
  <1>6. Len(root) \in Nat
    BY <1>4, Appended
  <1>7. \A i \in 1..Len(root) : i \in 1..Len(Entry) /\ root[i] = Entry[i]
    BY <1>3, <1>5, <1>6
  <1>8. IsDirectory(root)
    BY <1>1, <1>4, <1>7 DEF IsDirectory
  <1>9. Len(root) <= Len(Entry) /\ Len(root) # Len(Entry)
    BY <1>3, <1>5, <1>6
  <1>10. IsPrefix(root, Entry)
    BY <1>1, <1>4, <1>7, <1>9, Begins
  <1> QED BY <1>8, <1>9, <1>10

\* A file of the root, and its directory, as the root and the rest (relative_to).
LEMMA BelowRoot ==
  ASSUME RootAt, NEW p \in Paths, Within(p, root)
  PROVE  /\ IsASeq(Rel(p, root)) /\ p = root \o Rel(p, root)
         /\ IsASeq(Front(Rel(p, root))) /\ Front(p) = root \o Front(Rel(p, root))
  <1>1. IsASeq(p) /\ IsASeq(root) /\ IsPrefix(root, p)
    BY APath DEF RootAt, Within
  <1>2. p # root
    BY RootAbove, PathsAssumption
  <1>3. PICK t : t = Rel(p, root)
    OBVIOUS
  <1>4. IsASeq(t) /\ p = root \o t /\ t # <<>>
    BY <1>1, <1>2, <1>3, RelType
  <1>5. Front(root \o t) = root \o Front(t) /\ IsASeq(Front(t))
    BY <1>1, <1>4, JoinedFront, Fronted
  <1> QED BY <1>3, <1>4, <1>5

\* What several directories have in common is above each of them
\* (_inferred_source_closure_root).
LEMMA CommonRoot ==
  ASSUME NEW S, \A s \in S : IsASeq(s), NEW r \in S
  PROVE  IsASeq(LongestCommonPrefix(S)) /\ IsPrefix(LongestCommonPrefix(S), r)
  <1>1. ASSUME NEW c \in CommonPrefixes(S) PROVE IsASeq(c) /\ IsPrefix(c, r)
    <2>4. PICK s \in S : c \in Prefixes(s)
      BY DEF CommonPrefixes
    <2>1. PICK n \in 0..Len(s) : c = SubSeq(s, 1, n)
      BY <2>4 DEF Prefixes
    <2>2. PICK R : s \in Seq(R)
      BY DEF IsASeq
    <2>3. c \in Seq(R)
      BY <2>1, <2>2
    <2> QED BY <2>3 DEF IsASeq, CommonPrefixes
  <1>2. IsASeq(r) /\ Len(r) \in Nat
    BY Appended
  <1>3. <<>> \in CommonPrefixes(S)
    <2>1. IsASeq(<<>>) /\ Len(<<>>) = 0
      BY DEF IsASeq
    <2>2. \A s \in S : IsPrefix(<<>>, s)
      <3>1. ASSUME NEW s \in S PROVE IsPrefix(<<>>, s)
        <4>1. IsASeq(s) /\ Len(s) \in Nat
          BY Appended
        <4> QED BY <2>1, <4>1, Begins
      <3> QED BY <3>1
    <2>3. SubSeq(r, 1, 0) = <<>>
      <3>1. PICK R : r \in Seq(R)
        BY <1>2 DEF IsASeq
      <3> QED BY <3>1
    <2>4. <<>> \in Prefixes(r)
      <3>1. 0 \in 0..Len(r)
        BY <1>2
      <3> QED BY <2>3, <3>1 DEF Prefixes
    <2> QED BY <2>2, <2>4 DEF CommonPrefixes
  <1> DEFINE N == {n \in Nat : \E c \in CommonPrefixes(S) : n = Len(r) - Len(c)}
  <1>4. ASSUME NEW c \in CommonPrefixes(S)
        PROVE  Len(r) - Len(c) \in N /\ Len(c) \in Nat
    <2>1. Len(c) \in Nat /\ Len(c) <= Len(r)
      BY <1>1, <1>2, Begins, Appended
    <2> QED BY <1>2, <2>1
  <1>5. N # {} /\ N \in SUBSET Nat
    BY <1>3, <1>4
  <1>6. PICK m : m = Min(N)
    OBVIOUS
  <1>7. m \in N /\ \A i \in N : m <= i
    <2> HIDE DEF N
    <2> QED BY <1>5, <1>6, Least
  <1>8. PICK c \in CommonPrefixes(S) : m = Len(r) - Len(c)
    BY <1>7
  <1>9. \A d \in CommonPrefixes(S) : Len(d) <= Len(c)
    <2>1. ASSUME NEW d \in CommonPrefixes(S) PROVE Len(d) <= Len(c)
      <3>1. Len(r) - Len(d) \in N /\ Len(d) \in Nat /\ Len(c) \in Nat
        BY <1>4
      <3>2. Len(r) - Len(c) <= Len(r) - Len(d)
        BY <1>7, <1>8, <3>1
      <3> QED BY <1>2, <3>1, <3>2
    <2> QED BY <2>1
  <1>10. LongestCommonPrefix(S) \in CommonPrefixes(S)
    BY <1>9 DEF LongestCommonPrefix
  <1> QED BY <1>1, <1>10

\* What is above a directory is above all that is below it (is_relative_to).
LEMMA BeginsBoth ==
  ASSUME NEW a, IsASeq(a), NEW b, IsASeq(b), NEW c, IsASeq(c), IsPrefix(a, b), IsPrefix(b, c)
  PROVE  IsPrefix(a, c)
  <1>1. Len(a) \in Nat /\ Len(b) \in Nat /\ Len(c) \in Nat
    BY Appended
  <1>2. Len(a) <= Len(b) /\ (\A i \in 1..Len(a) : a[i] = b[i])
    BY Begins
  <1>3. Len(b) <= Len(c) /\ (\A i \in 1..Len(b) : b[i] = c[i])
    BY Begins
  <1>4. Len(a) <= Len(c) /\ \A i \in 1..Len(a) : a[i] = c[i]
    BY <1>1, <1>2, <1>3
  <1> QED BY <1>4, Begins

\* The root moves up while it is inferred, and never again.
LEMMA RootStep ==
  ASSUME SourceTypeOK, RootAt, [Next]_vars
  PROVE  RootAt' /\ world' = world /\ (~InferRoot => root' = root)
  <1>1. world' = world
    BY DEF Next, Capturing, Packaging, InferRoot, RootInferred, Begin, VisitEntry,
           ResolveEdge, DigestEdge, FollowEdge, CaptureRaises, Return, CaptureEnds, Transport,
           Stage, StageRefuses, Publish, Edit, vars, capture
  <1>2. ~InferRoot => root' = root
    BY DEF Next, Capturing, Packaging, RootInferred, Begin, VisitEntry,
           ResolveEdge, DigestEdge, FollowEdge, CaptureRaises, Return, CaptureEnds, Transport,
           Stage, StageRefuses, Publish, Edit, vars, capture
  <1>3. CASE InferRoot
    <2> DEFINE new == Siblings(Last(queue)) \ found
               S == {root} \cup {Front(q) : q \in new}
    <2>1. root' = LongestCommonPrefix(S)
      BY <1>3 DEF InferRoot
    <2>2. new \subseteq Paths
      BY DEF Siblings
    <2>3. ASSUME NEW s \in S PROVE IsASeq(s)
      <3>1. CASE s = root
        BY <3>1 DEF RootAt
      <3>2. CASE \E q \in new : s = Front(q)
        <4>1. PICK q \in new : s = Front(q)
          BY <3>2
        <4>2. IsASeq(q) /\ q # <<>>
          BY <2>2, APath
        <4> QED BY <4>1, <4>2, Fronted
      <3> QED BY <3>1, <3>2
    <2>4. root \in S
      OBVIOUS
    <2> HIDE DEF S
    <2>5. PICK c : c = LongestCommonPrefix(S)
      OBVIOUS
    <2>6. IsASeq(c) /\ IsPrefix(c, root)
      BY <2>3, <2>4, <2>5, CommonRoot
    <2>7. PICK f : f = Front(Entry)
      OBVIOUS
    <2>8. IsASeq(f)
      <3>1. IsASeq(Entry) /\ Entry # <<>>
        BY APath, EntryAssumption
      <3> QED BY <2>7, <3>1, Fronted
    <2>9. IsPrefix(c, f)
      BY <2>6, <2>7, <2>8, BeginsBoth DEF RootAt
    <2> QED BY <1>1, <1>3, <2>1, <2>5, <2>6, <2>7, <2>9 DEF RootAt
  <1>4. CASE ~InferRoot
    BY <1>1, <1>2, <1>4 DEF RootAt
  <1> QED BY <1>3, <1>4

\* What a record says of an import: found from the root or next to the importing file,
\* or kept beside its copy.
RightOf(r) ==
  /\ r.decl \in Paths /\ IsASeq(r.lit) /\ r.lit # <<>>
  /\ r.kind \in Captured /\ Absolute(r.lit) => r.kind = "holdir_source"
  /\ r.fromRoot => r.kind = "source_local" /\ Within(r.decl, root)
  /\ r.kind = "source_local" =>
       r.pkg = Rel(r.path, root) /\ r.path = IF r.fromRoot THEN root \o r.lit ELSE Beside(r.decl, r.lit)
  /\ r.kind \in {"holdir_source", "source_overlay"} /\ ~Absolute(r.lit) =>
       r.pkg = Beside(r.declPkg, r.lit)

\* Until something is edited an import found from the root has no file next to the
\* importing one.
StillOf(r) ==
  edits = world.edits /\ r.kind = "source_local" =>
    (r.fromRoot <=> ~Exists(Beside(r.decl, r.lit)))

AnswersAt ==
  /\ edits \in Nat /\ edits <= world.edits
  /\ \A r \in Records : RightOf(r) /\ StillOf(r)
  /\ edge # NoEdge => RightOf(edge[1]) /\ StillOf(edge[1])

SameImport(r, e) ==
  /\ r.decl = e.decl /\ r.declPkg = e.declPkg /\ r.lit = e.lit /\ r.kind = e.kind
  /\ r.path = e.path /\ r.pkg = e.pkg /\ r.fromRoot = e.fromRoot

\* A record is right whatever its digest and its fate (visit).
LEMMA SameRight ==
  ASSUME NEW r, NEW e, SameImport(r, e), RightOf(e), StillOf(e)
  PROVE  RightOf(r) /\ StillOf(r)
  BY DEF SameImport, RightOf, StillOf

\* An import of the package root's tree is next to the importing file, or else below
\* the root, which then has that file too (_resolve_edge).
LEMMA ResolvedLocal ==
  ASSUME NEW p \in Paths, NEW lit, NEW mounted, NEW t, t = Resolve(p, lit, mounted)
  PROVE  /\ t.kind \in Captured /\ Absolute(lit) => t.kind = "holdir_source"
         /\ t.kind = "source_local" =>
              /\ ~Absolute(lit)
              /\ \/ Exists(Beside(p, lit)) /\ t.path = Beside(p, lit)
                 \/ /\ ~Exists(Beside(p, lit)) /\ t.path = root \o lit /\ Exists(t.path)
                    /\ SafeLiteral(lit) /\ Within(p, root)
  <1>1. ASSUME NEW rel PROVE FromTrees(rel).kind # "source_local"
    BY DEF FromTrees, To, Missing
  <1>2. ResolveAbsolute(lit).kind \in {"holdir_source", "unresolved"}
    BY DEF ResolveAbsolute, To
  <1>3. ResolveLogical(lit).kind # "source_local"
    BY DEF ResolveLogical, To
  <1>4. PICK q : q = Beside(p, lit)
    OBVIOUS
  <1>5. ResolveBeside(q, mounted).kind = "source_local" => ResolveBeside(q, mounted).path = q
    BY <1>1 DEF ResolveBeside, To
  <1>6. ResolveElsewhere(p, lit, mounted).kind = "source_local" =>
          /\ ResolveElsewhere(p, lit, mounted).path = root \o lit /\ Exists(root \o lit)
          /\ SafeLiteral(lit) /\ Within(p, root)
    BY <1>1 DEF ResolveElsewhere, To
  <1>7. CASE Absolute(lit)
    <2>1. t = ResolveAbsolute(lit)
      BY <1>7 DEF Resolve
    <2> QED BY <1>2, <2>1 DEF Captured
  <1>8. CASE ~Absolute(lit) /\ Head(lit) = Alias
    <2>1. t = ResolveLogical(lit)
      BY <1>8 DEF Resolve
    <2> QED BY <1>3, <1>8, <2>1
  <1>9. CASE ~Absolute(lit) /\ Head(lit) # Alias /\ Exists(q)
    <2>1. t = ResolveBeside(q, mounted)
      BY <1>4, <1>9 DEF Resolve
    <2> QED BY <1>4, <1>5, <1>9, <2>1
  <1>10. CASE ~Absolute(lit) /\ Head(lit) # Alias /\ ~Exists(q)
    <2>1. t = ResolveElsewhere(p, lit, mounted)
      BY <1>4, <1>10 DEF Resolve
    <2> QED BY <1>4, <1>6, <1>10, <2>1
  <1> QED BY <1>7, <1>8, <1>9, <1>10

\* What is recorded of an import when it is resolved is right of it (visit).
LEMMA ResolvedRight ==
  ASSUME NEW p \in Paths, NEW lit, IsASeq(lit), lit # <<>>, NEW mounted, NEW declPkg,
         NEW t, t = Resolve(p, lit, mounted),
         NEW r, r.decl = p, r.declPkg = declPkg, r.lit = lit, r.kind = t.kind,
         r.path = t.path, r.pkg = PackagePath(t, lit, declPkg),
         r.fromRoot = FromRoot(p, lit, t)
  PROVE  RightOf(r) /\ StillOf(r)
  <1>1. /\ t.kind \in Captured /\ Absolute(lit) => t.kind = "holdir_source"
        /\ t.kind = "source_local" =>
             /\ ~Absolute(lit)
             /\ \/ Exists(Beside(p, lit)) /\ t.path = Beside(p, lit)
                \/ /\ ~Exists(Beside(p, lit)) /\ t.path = root \o lit /\ Exists(t.path)
                   /\ SafeLiteral(lit) /\ Within(p, root)
    BY ResolvedLocal
  <1>2. r.fromRoot <=> /\ t.kind = "source_local" /\ SafeLiteral(lit)
                       /\ Beside(p, lit) # t.path /\ root \o lit = t.path
    BY DEF FromRoot
  <1>3. t.kind = "source_local" => r.pkg = Rel(t.path, root)
    BY DEF PackagePath
  <1>4. t.kind \in {"holdir_source", "source_overlay"} /\ ~Absolute(lit) =>
          r.pkg = Beside(declPkg, lit)
    BY DEF PackagePath
  <1>5. ASSUME t.kind = "source_local"
        PROVE  /\ r.fromRoot <=> ~Exists(Beside(p, lit))
               /\ r.fromRoot => t.path = root \o lit /\ Within(p, root)
               /\ ~r.fromRoot => t.path = Beside(p, lit)
    BY <1>1, <1>2, <1>5
  <1>6. r.fromRoot => t.kind = "source_local"
    BY <1>2
  <1> QED BY <1>1, <1>3, <1>4, <1>5, <1>6 DEF RightOf, StillOf

\* Digesting an import changes nothing else of its record.
LEMMA DigestedSame ==
  ASSUME SourceTypeOK, DigestEdge
  PROVE  /\ edge # NoEdge /\ edge' # NoEdge /\ SameImport(edge'[1], edge[1])
         /\ UNCHANGED <<world, content, root, edits, records>>
  <1> DEFINE e == edge[1]
             x == IF Exists(e.path) THEN content[e.path] ELSE 0
             y == IF Exists(e.path) THEN "digested" ELSE "unreadable"
             d == [e EXCEPT !.sha = x, !.via = y]
  <1>1. edge' = <<d>> /\ IsRecord(e) /\ edge # NoEdge
    BY DEF DigestEdge, SourceTypeOK
  <1>2. UNCHANGED <<world, content, root, edits, records>>
    BY DEF DigestEdge
  <1> HIDE DEF e, x, y
  <1>3. SameImport(d, e)
    BY <1>1 DEF IsRecord, SameImport
  <1> HIDE DEF d
  <1>4. edge'[1] = d /\ edge' # NoEdge
    BY <1>1 DEF NoEdge
  <1> QED BY <1>1, <1>2, <1>3, <1>4 DEF e

\* Following an import puts its record as it is on the list.
LEMMA FollowedSame ==
  ASSUME SourceTypeOK, FollowEdge
  PROVE  /\ edge # NoEdge /\ edge' = NoEdge /\ UNCHANGED <<world, content, root, edits>>
         /\ \E r : SameImport(r, edge[1]) /\ records' = Append(records, r)
  <1> DEFINE e == edge[1]
             h == How(e)
             r == [e EXCEPT !.via = h]
  <1>1. IsRecord(e) /\ edge # NoEdge
    BY DEF SourceTypeOK, FollowEdge
  <1>2. records' = Append(records, r) /\ edge' = NoEdge /\ UNCHANGED <<world, content, root, edits>>
    BY DEF FollowEdge
  <1> HIDE DEF e, h
  <1>3. SameImport(r, e)
    BY <1>1 DEF IsRecord, SameImport
  <1> HIDE DEF r
  <1> QED BY <1>1, <1>2, <1>3 DEF e

\* The literal that is resolved next (visit).
LEMMA NextLiteral ==
  ASSUME SourceTypeOK, WalkAt, stack # <<>>, Ahead # {}
  PROVE  Top.file \in Paths /\ IsASeq(Text[Min(Ahead)]) /\ Text[Min(Ahead)] # <<>>
  <1>1. Top.file \in Paths /\ parsed[Top.file] # 0 /\ Text = Parsed(Top.file)
        /\ Min(Ahead) \in Ahead
    BY AheadFirst
  <1>2. PICK p, v, i : p = Top.file /\ v = parsed[p] /\ i = Min(Ahead)
    OBVIOUS
  <1>3. p \in Paths /\ v \in {1, 2} /\ world \in Worlds
    BY <1>1, <1>2 DEF SourceTypeOK, Read
  <1>4. Text = world.lits[p][v] /\ i \in DOMAIN Text
    BY <1>1, <1>2 DEF Parsed, Ahead
  <1>5. PICK s : s = world.lits[p][v]
    OBVIOUS
  <1>6. /\ s \in Seq(ToSet(s))
        /\ \A l \in ToSet(s) : l \in Seq(ToSet(l)) /\ l # <<>>
    BY <1>3, <1>5, WorldsAssumption
  <1>7. s[i] \in ToSet(s)
    BY <1>4, <1>5, <1>6
  <1>8. s[i] \in Seq(ToSet(s[i])) /\ s[i] # <<>>
    BY <1>6, <1>7
  <1> QED BY <1>1, <1>2, <1>4, <1>5, <1>8 DEF IsASeq

\* Resolving an import records it as it is, or goes on to read it (visit).
LEMMA ResolvedAs ==
  ASSUME SourceTypeOK, WalkAt, ResolveEdge
  PROVE  /\ edge = NoEdge /\ UNCHANGED <<world, content, root, edits>>
         /\ \E r : /\ RightOf(r) /\ StillOf(r)
                   /\ \/ edge' = <<r>> /\ records' = records
                      \/ edge' = NoEdge /\ records' = Append(records, r)
  <1> DEFINE lit == Text[Min(Ahead)]
             t == Resolve(Top.file, lit, Top.mounted)
             r == [decl |-> Top.file, declPkg |-> Top.pkg, lit |-> lit, kind |-> t.kind,
                   path |-> t.path, pkg |-> PackagePath(t, lit, Top.pkg), sha |-> 0,
                   fromRoot |-> FromRoot(Top.file, lit, t), via |-> "not_followed"]
  <1>1. /\ stack # <<>> /\ Ahead # {} /\ edge = NoEdge
        /\ UNCHANGED <<world, content, root, edits>>
        /\ \/ edge' = <<r>> /\ records' = records
           \/ records' = Append(records, r) /\ edge' = edge
    BY DEF ResolveEdge
  <1>2. Top.file \in Paths /\ IsASeq(lit) /\ lit # <<>>
    BY <1>1, NextLiteral
  <1>3. /\ r.decl = Top.file /\ r.declPkg = Top.pkg /\ r.lit = lit /\ r.kind = t.kind
        /\ r.path = t.path /\ r.pkg = PackagePath(t, lit, Top.pkg)
        /\ r.fromRoot = FromRoot(Top.file, lit, t)
    OBVIOUS
  <1>4. PICK p, l, m, q, u : p = Top.file /\ l = lit /\ m = Top.mounted /\ q = Top.pkg /\ u = t
    OBVIOUS
  <1>5. PICK s : s = r
    OBVIOUS
  <1>6. /\ p \in Paths /\ IsASeq(l) /\ l # <<>> /\ u = Resolve(p, l, m)
        /\ s.decl = p /\ s.declPkg = q /\ s.lit = l /\ s.kind = u.kind
        /\ s.path = u.path /\ s.pkg = PackagePath(u, l, q)
    BY <1>2, <1>3, <1>4, <1>5
  <1>7. s.fromRoot = FromRoot(p, l, u)
    BY <1>3, <1>4, <1>5
  <1>8. RightOf(s) /\ StillOf(s)
    <2> HIDE DEF r, t, lit
    <2> QED BY <1>6, <1>7, ResolvedRight
  <1> HIDE DEF r, t, lit
  <1> QED BY <1>1, <1>5, <1>8

\* A record stays right while nothing but a file changes (Edit).
LEMMA RightStays ==
  ASSUME NEW r, RightOf(r), root' = root
  PROVE  RightOf(r)'
  BY DEF RightOf

\* It stays so as long as nothing is edited.
LEMMA StillStays ==
  ASSUME NEW r, StillOf(r), UNCHANGED <<world, content, edits>>
  PROVE  StillOf(r)'
  BY DEF StillOf, Exists

\* What is recorded of an import stays right, whatever is edited meanwhile (visit).
LEMMA AnswersStep ==
  ASSUME SourceTypeOK, StartsAt, WalkAt, RootAt, AnswersAt, [Next]_vars
  PROVE  AnswersAt'
  <1>0. world' = world /\ (~InferRoot => root' = root)
    BY RootStep
  <1>1. CASE ResolveEdge
    <2>1. UNCHANGED <<world, content, root, edits>>
      BY <1>1, ResolvedAs
    <2>2. PICK r : /\ RightOf(r) /\ StillOf(r)
                   /\ \/ edge' = <<r>> /\ records' = records
                      \/ edge' = NoEdge /\ records' = Append(records, r)
      BY <1>1, ResolvedAs
    <2>3. RightOf(r)' /\ StillOf(r)'
      BY <2>1, <2>2, RightStays, StillStays
    <2>4. ASSUME NEW q \in Records PROVE RightOf(q)' /\ StillOf(q)'
      BY <2>1, RightStays, StillStays DEF AnswersAt
    <2>5. Records' \subseteq Records \cup {r}
      <3>1. CASE records' = records
        BY <3>1 DEF Records
      <3>2. CASE records' = Append(records, r)
        BY <3>2, RecordAdded
      <3> QED BY <2>2, <3>1, <3>2
    <2>6. ASSUME NEW q \in Records' PROVE RightOf(q)' /\ StillOf(q)'
      BY <2>3, <2>4, <2>5
    <2>7. edge' # NoEdge => edge'[1] = r
      BY <2>2
    <2>8. edge' # NoEdge => RightOf(edge[1])' /\ StillOf(edge[1])'
      BY <2>3, <2>7 DEF RightOf, StillOf
    <2> QED BY <2>1, <2>6, <2>8 DEF AnswersAt
  <1>2. CASE DigestEdge
    <2>1. edge # NoEdge /\ UNCHANGED <<world, content, root, edits, records>>
      BY <1>2, DigestedSame
    <2>2. PICK e, r : e = edge[1] /\ r = edge'[1]
      OBVIOUS
    <2>3. SameImport(r, e) /\ RightOf(e) /\ StillOf(e)
      BY <1>2, <2>1, <2>2, DigestedSame DEF AnswersAt
    <2>4. RightOf(r)' /\ StillOf(r)'
      BY <2>1, <2>3, SameRight, RightStays, StillStays
    <2>5. RightOf(edge[1])' /\ StillOf(edge[1])'
      BY <2>2, <2>4 DEF RightOf, StillOf
    <2>6. ASSUME NEW q \in Records' PROVE RightOf(q)' /\ StillOf(q)'
      BY <2>1, RightStays, StillStays DEF AnswersAt, Records
    <2> QED BY <2>1, <2>5, <2>6 DEF AnswersAt
  <1>3. CASE FollowEdge
    <2>1. edge # NoEdge /\ edge' = NoEdge /\ UNCHANGED <<world, content, root, edits>>
      BY <1>3, FollowedSame
    <2>2. PICK r : SameImport(r, edge[1]) /\ records' = Append(records, r)
      BY <1>3, FollowedSame
    <2>3. PICK e : e = edge[1]
      OBVIOUS
    <2>4. SameImport(r, e) /\ RightOf(e) /\ StillOf(e)
      BY <2>1, <2>2, <2>3 DEF AnswersAt
    <2>5. RightOf(r)' /\ StillOf(r)'
      BY <2>1, <2>4, SameRight, RightStays, StillStays
    <2>6. ASSUME NEW q \in Records PROVE RightOf(q)' /\ StillOf(q)'
      BY <2>1, RightStays, StillStays DEF AnswersAt
    <2>7. Records' = Records \cup {r}
      BY <2>2, RecordAdded
    <2>8. ASSUME NEW q \in Records' PROVE RightOf(q)' /\ StillOf(q)'
      BY <2>5, <2>6, <2>7
    <2> QED BY <2>1, <2>8 DEF AnswersAt
  <1>4. CASE \E p \in Paths : Edit(p)
    <2>1. /\ edits' = edits - 1 /\ edits > 0 /\ UNCHANGED <<root, edge, records>>
      BY <1>4 DEF Edit, capture
    <2>2. world.edits \in Nat
      BY WorldsAssumption DEF SourceTypeOK
    <2>3. edits' \in Nat /\ edits' <= world'.edits /\ edits' # world'.edits
      BY <1>0, <2>1, <2>2 DEF AnswersAt
    <2>4. \A q : StillOf(q)'
      BY <2>3 DEF StillOf
    <2>5. ASSUME NEW q \in Records' PROVE RightOf(q)'
      BY <2>1, RightStays DEF AnswersAt, Records
    <2>6. edge' # NoEdge => RightOf(edge[1])' /\ StillOf(edge[1])'
      <3> SUFFICES ASSUME edge' # NoEdge PROVE RightOf(edge[1])' /\ StillOf(edge[1])'
        OBVIOUS
      <3>1. PICK e : e = edge[1]
        OBVIOUS
      <3>2. RightOf(e)' /\ StillOf(e)'
        BY <2>1, <2>4, <3>1, RightStays DEF AnswersAt
      <3> QED BY <2>1, <3>1, <3>2 DEF RightOf, StillOf
    <2> QED BY <2>3, <2>4, <2>5, <2>6 DEF AnswersAt
  <1>5. CASE InferRoot
    <2>1. UNCHANGED <<world, edits, edge, records>> /\ records = <<>> /\ edge = NoEdge
      BY <1>5 DEF InferRoot, StartsAt, Early
    <2>2. Records' = {} /\ edge' = NoEdge
      BY <2>1 DEF Records
    <2> QED BY <2>1, <2>2 DEF AnswersAt
  <1>6. CASE ~ResolveEdge /\ ~DigestEdge /\ ~FollowEdge /\ ~InferRoot /\ ~(\E p \in Paths : Edit(p))
    <2>1. UNCHANGED <<world, content, edits, edge, records, root>>
      BY <1>6 DEF Next, Capturing, Packaging, RootInferred, Begin, VisitEntry,
           CaptureRaises, Return, CaptureEnds, Transport,
           Stage, StageRefuses, Publish, vars, capture
    <2>2. ASSUME NEW q \in Records' PROVE RightOf(q)' /\ StillOf(q)'
      BY <2>1, RightStays, StillStays DEF AnswersAt, Records
    <2>3. edge' # NoEdge => RightOf(edge[1])' /\ StillOf(edge[1])'
      <3> SUFFICES ASSUME edge' # NoEdge PROVE RightOf(edge[1])' /\ StillOf(edge[1])'
        OBVIOUS
      <3>1. PICK e : e = edge[1]
        OBVIOUS
      <3>2. RightOf(e)' /\ StillOf(e)'
        BY <2>1, <3>1, RightStays, StillStays DEF AnswersAt
      <3> QED BY <2>1, <3>1, <3>2 DEF RightOf, StillOf
    <2> QED BY <2>1, <2>2, <2>3 DEF AnswersAt
  <1> QED BY <1>1, <1>2, <1>3, <1>4, <1>5, <1>6

\* The package path of a file that is visited: the entrypoint's, or a captured import's.
Known(pkg) ==
  /\ IsASeq(pkg)
  /\ pkg = Rel(Entry, root) \/ \E r \in Records : r.kind \in Captured /\ r.pkg = pkg

KnownOf(r) == Known(r.declPkg) /\ (r.kind \in Captured => IsASeq(r.pkg))

KnownAt ==
  /\ \A r \in Records : KnownOf(r)
  /\ edge # NoEdge => KnownOf(edge[1])
  /\ \A i \in DOMAIN stack : Known(stack[i].pkg)

\* What is left of a path without as many components (PurePath.relative_to).
LEMMA RelSeq ==
  ASSUME NEW s, IsASeq(s), NEW r, IsASeq(r)
  PROVE  IsASeq(Rel(s, r))
  <1>1. PICK S : s \in Seq(S)
    BY DEF IsASeq
  <1>2. PICK R : r \in Seq(R)
    BY DEF IsASeq
  <1>3. Len(r) \in Nat /\ Len(s) \in Nat
    BY <1>1, <1>2
  <1>4. PICK n : n = Len(r) + 1
    OBVIOUS
  <1>5. SubSeq(s, n, Len(s)) \in Seq(S)
    BY <1>1, <1>3, <1>4
  <1> QED BY <1>4, <1>5 DEF IsASeq, Rel

\* The directory of any path, were it empty (Path.parent).
LEMMA FrontSeq ==
  ASSUME NEW s, IsASeq(s)
  PROVE  IsASeq(Front(s))
  <1>1. CASE s = <<>>
    <2>1. SubSeq(<<>>, 1, -1) \in Seq({}) /\ Len(<<>>) - 1 = -1
      OBVIOUS
    <2> QED BY <1>1, <2>1 DEF IsASeq, Front
  <1>2. CASE s # <<>>
    BY <1>2, Fronted
  <1> QED BY <1>1, <1>2

\* A captured import has a path in the package (package_path).
LEMMA PackagePathSeq ==
  ASSUME RootAt, NEW t, t.kind \in Captured, t.path \in Paths,
         NEW lit, IsASeq(lit), NEW declPkg, IsASeq(declPkg)
  PROVE  IsASeq(PackagePath(t, lit, declPkg))
  <1>1. PICK p : p = t.path
    OBVIOUS
  <1>2. IsASeq(p) /\ IsASeq(root) /\ IsASeq(Mount) /\ IsASeq(Holdir)
    BY <1>1, APath, PathsAssumption DEF RootAt, IsASeq
  <1>3. PICK a, b, c : a = Rel(p, root) /\ b = Rel(p, Mount) /\ c = Rel(p, Holdir)
    OBVIOUS
  <1>4. IsASeq(a) /\ IsASeq(b) /\ IsASeq(c)
    BY <1>2, <1>3, RelSeq
  <1>5. IsASeq(<<"roots">> \o b) /\ IsASeq(<<"holdir">> \o c)
    <2>1. PICK g, h : g = <<"roots">> /\ h = <<"holdir">>
      OBVIOUS
    <2>2. IsASeq(g) /\ IsASeq(h)
      <3>1. g \in Seq({"roots"}) /\ h \in Seq({"holdir"})
        BY <2>1
      <3> QED BY <3>1 DEF IsASeq
    <2>3. IsASeq(g \o b) /\ IsASeq(h \o c)
      BY <1>4, <2>2, Joined
    <2> QED BY <2>1, <2>3
  <1>6. IsASeq(Beside(declPkg, lit))
    <2>1. PICK f : f = Front(declPkg)
      OBVIOUS
    <2>2. IsASeq(f)
      BY <2>1, FrontSeq
    <2>3. PICK x : x = f \o lit
      OBVIOUS
    <2>4. IsASeq(x)
      BY <2>2, <2>3, Joined
    <2>5. IsASeq(Normal(x))
      BY <2>4, NormalType
    <2> QED BY <2>1, <2>3, <2>5 DEF Beside
  <1>7. /\ t.kind = "source_local" => PackagePath(t, lit, declPkg) = a
        /\ t.kind = "mounted_source" => PackagePath(t, lit, declPkg) = <<"roots">> \o b
        /\ t.kind = "holdir_source" /\ Absolute(lit) =>
             PackagePath(t, lit, declPkg) = <<"holdir">> \o c
        /\ t.kind \in {"holdir_source", "source_overlay"} /\ ~Absolute(lit) =>
             PackagePath(t, lit, declPkg) = Beside(declPkg, lit)
        /\ t.kind = "source_overlay" /\ Absolute(lit) => PackagePath(t, lit, declPkg) = Nowhere
    BY <1>1, <1>3 DEF PackagePath
  <1>8. IsASeq(Nowhere)
    BY DEF IsASeq, Nowhere
  <1> QED BY <1>4, <1>5, <1>6, <1>7, <1>8 DEF Captured

\* What is known of a package path stays known as imports are recorded (visit).
LEMMA KnownStays ==
  ASSUME NEW p, Known(p), root' = root, Records \subseteq Records'
  PROVE  Known(p)'
  BY DEF Known

\* The same of a record.
LEMMA KnownOfStays ==
  ASSUME NEW r, KnownOf(r), root' = root, Records \subseteq Records'
  PROVE  KnownOf(r)'
  BY KnownStays DEF KnownOf

\* The visits keep their package paths when the next import is recorded (visit).
LEMMA AdvancedKnown ==
  ASSUME SourceTypeOK, WalkAt, KnownAt, stack # <<>>, Ahead # {}, NEW i \in DOMAIN Advanced
  PROVE  Known(Advanced[i].pkg)
  <1>1. PICK n : n = Len(stack)
    OBVIOUS
  <1>2. /\ n \in Nat \ {0} /\ DOMAIN stack = 1..n /\ Top = stack[n]
        /\ DOMAIN Advanced = 1..n /\ Advanced[n].pkg = Top.pkg
        /\ \A k \in 1..(n - 1) : Advanced[k] = stack[k]
    BY <1>1, TopFrame, AdvancedFrames
  <1>3. Advanced[i].pkg = stack[i].pkg /\ i \in DOMAIN stack
    <2>1. CASE i = n
      BY <1>2, <2>1
    <2>2. CASE i # n
      <3>1. i \in 1..(n - 1)
        BY <1>2, <2>2
      <3> QED BY <1>2, <3>1
    <2> QED BY <2>1, <2>2
  <1> QED BY <1>3 DEF KnownAt

\* An import is recorded for the path under which its file is visited, and a captured
\* one with a path of its own (visit).
LEMMA ResolvedKnown ==
  ASSUME SourceTypeOK, WalkAt, RootAt, KnownAt, ResolveEdge
  PROVE  /\ stack # <<>> /\ Ahead # {} /\ root' = root
         /\ stack' = stack \/ stack' = Advanced
         /\ \E r : /\ KnownOf(r)
                   /\ \/ edge' = <<r>> /\ records' = records
                      \/ edge' = NoEdge /\ records' = Append(records, r)
  <1> DEFINE lit == Text[Min(Ahead)]
             t == Resolve(Top.file, lit, Top.mounted)
             r == [decl |-> Top.file, declPkg |-> Top.pkg, lit |-> lit, kind |-> t.kind,
                   path |-> t.path, pkg |-> PackagePath(t, lit, Top.pkg), sha |-> 0,
                   fromRoot |-> FromRoot(Top.file, lit, t), via |-> "not_followed"]
  <1>1. /\ stack # <<>> /\ Ahead # {} /\ edge = NoEdge /\ root' = root
        /\ stack' = stack \/ stack' = Advanced
        /\ \/ edge' = <<r>> /\ records' = records
           \/ records' = Append(records, r) /\ edge' = edge
    BY DEF ResolveEdge
  <1>2. r.declPkg = Top.pkg /\ r.kind = t.kind /\ r.pkg = PackagePath(t, lit, Top.pkg)
    OBVIOUS
  <1>3. PICK l, q, u : l = lit /\ q = Top.pkg /\ u = t
    OBVIOUS
  <1>4. PICK s : s = r
    OBVIOUS
  <1>5. s.declPkg = q /\ s.kind = u.kind /\ s.pkg = PackagePath(u, l, q)
    BY <1>2, <1>3, <1>4
  <1> HIDE DEF r
  <1>6. u.kind \in Captured => u.path \in Paths
    BY <1>3, ResolvedFile
  <1>7. IsASeq(l)
    BY <1>1, <1>3, NextLiteral
  <1>8. Known(q) /\ IsASeq(q)
    <2>1. Known(Top.pkg)
      BY <1>1, TopFrame DEF KnownAt
    <2> QED BY <1>3, <2>1 DEF Known
  <1>9. u.kind \in Captured => IsASeq(PackagePath(u, l, q))
    BY <1>6, <1>7, <1>8, PackagePathSeq
  <1>10. KnownOf(s)
    BY <1>5, <1>8, <1>9 DEF KnownOf
  <1> QED BY <1>1, <1>4, <1>10

\* The visits after one more is begun (visit).
LEMMA VisitedKnown ==
  ASSUME SourceTypeOK, NEW p \in Paths, NEW pkg, NEW mounted, NEW below,
         IsASeq(below), \A k \in DOMAIN below : IsFrame(below[k]),
         Visit(p, pkg, mounted, below), NEW i \in DOMAIN stack'
  PROVE  stack'[i].pkg = pkg \/ (i \in DOMAIN below /\ stack'[i].pkg = below[i].pkg)
  <1>1. CASE parsed'[p] = 0
    <2>1. stack' = below
      BY <1>1, Visited
    <2> QED BY <2>1
  <1>2. CASE parsed'[p] # 0
    <2>1. PICK n : n = Len(below)
      OBVIOUS
    <2>2. /\ n \in Nat /\ DOMAIN below = 1..n /\ DOMAIN stack' = 1..(n + 1)
          /\ \A k \in 1..n : stack'[k] = below[k]
          /\ stack'[n + 1].pkg = pkg
      BY <1>2, <2>1, VisitedTop
    <2>3. CASE i = n + 1
      <3>1. stack'[n + 1].pkg = pkg
        BY <2>2
      <3>2. stack'[i].pkg = pkg
        BY <2>3, <3>1, Zenon
      <3> QED BY <3>2
    <2>4. CASE i # n + 1
      <3>1. i \in DOMAIN below
        BY <2>2, <2>4
      <3>2. stack'[i] = below[i]
        BY <2>2, <3>1
      <3> QED BY <3>1, <3>2
    <2> QED BY <2>3, <2>4
  <1> QED BY <1>1, <1>2

\* An import that is followed is on record as it was, and its file visited under its
\* path in the package, if it is (visit).
LEMMA FollowedVisit ==
  ASSUME SourceTypeOK, FollowEdge
  PROVE  \E r : /\ SameImport(r, edge[1]) /\ records' = Append(records, r)
                /\ r.kind \in Captured /\ r.path \in Paths
                /\ \/ stack' = Advanced
                   \/ Visit(r.path, r.pkg, r.kind = "mounted_source", Advanced)
  <1> DEFINE e == edge[1]
             h == How(e)
             r == [e EXCEPT !.via = h]
  <1>1. IsRecord(e) /\ e.kind \in Captured
    BY DEF SourceTypeOK, FollowEdge
  <1>2. /\ records' = Append(records, r)
        /\ \/ stack' = Advanced
           \/ Visit(r.path, r.pkg, r.kind = "mounted_source", Advanced)
    BY DEF FollowEdge
  <1> HIDE DEF e, h
  <1>3. SameImport(r, e)
    BY <1>1 DEF IsRecord, SameImport
  <1>4. r.kind \in Captured /\ r.path \in Paths
    BY <1>1, <1>3 DEF IsRecord, SameImport
  <1> HIDE DEF r
  <1> QED BY <1>2, <1>3, <1>4 DEF e

\* Nothing is forgotten when a visit ends (visit).
LEMMA KnownUnmoved ==
  ASSUME KnownAt, UNCHANGED <<root, edge, records>>,
         \A i \in DOMAIN stack' : i \in DOMAIN stack /\ stack'[i] = stack[i]
  PROVE  KnownAt'
  <1>1. Records' = Records
    BY DEF Records
  <1>2. \A p : Known(p) => Known(p)'
    BY <1>1, KnownStays
  <1>3. \A r : KnownOf(r) => KnownOf(r)'
    BY <1>1, KnownOfStays
  <1>4. ASSUME edge # NoEdge PROVE KnownOf(edge[1])'
    <2>1. PICK e : e = edge[1]
      OBVIOUS
    <2>2. KnownOf(e)'
      BY <1>3, <1>4, <2>1 DEF KnownAt
    <2> QED BY <2>1, <2>2 DEF KnownOf, Known
  <1>5. ASSUME NEW i \in DOMAIN stack' PROVE Known(stack[i].pkg)'
    <2>1. PICK p : p = stack[i].pkg
      OBVIOUS
    <2>2. Known(p)' /\ stack'[i].pkg = p
      BY <1>2, <2>1 DEF KnownAt
    <2> QED BY <2>2 DEF Known
  <1> QED BY <1>1, <1>3, <1>4, <1>5 DEF KnownAt

\* A file is visited under the entrypoint's package path or a captured import's (visit).
LEMMA KnownStep ==
  ASSUME SourceTypeOK, StartsAt, WalkAt, RootAt, KnownAt, [Next]_vars
  PROVE  KnownAt'
  <1>1. CASE ResolveEdge
    <2>1. /\ stack # <<>> /\ Ahead # {} /\ root' = root
          /\ stack' = stack \/ stack' = Advanced
      BY <1>1, ResolvedKnown
    <2>2. PICK r : /\ KnownOf(r)
                   /\ \/ edge' = <<r>> /\ records' = records
                      \/ edge' = NoEdge /\ records' = Append(records, r)
      BY <1>1, ResolvedKnown
    <2>3. Records \subseteq Records' /\ Records' \subseteq Records \cup {r}
      <3>1. CASE records' = records
        BY <3>1 DEF Records
      <3>2. CASE records' = Append(records, r)
        BY <3>2, RecordAdded DEF SourceTypeOK
      <3> QED BY <2>2, <3>1, <3>2
    <2>4. ASSUME NEW q \in Records \cup {r} PROVE KnownOf(q)'
      BY <2>1, <2>2, <2>3, KnownOfStays DEF KnownAt
    <2>5. edge' # NoEdge => edge'[1] = r
      BY <2>2
    <2>6. edge' # NoEdge => KnownOf(edge[1])'
      BY <2>4, <2>5 DEF KnownOf, Known
    <2>7. ASSUME NEW i \in DOMAIN stack' PROVE Known(stack[i].pkg)'
      <3>1. PICK p : p = stack'[i].pkg
        OBVIOUS
      <3>2. Known(p)
        BY <2>1, <3>1, AdvancedKnown DEF KnownAt
      <3>3. Known(p)'
        BY <2>1, <2>3, <3>2, KnownStays
      <3> QED BY <3>1, <3>3 DEF Known
    <2> QED BY <2>3, <2>4, <2>6, <2>7 DEF KnownAt
  <1>2. CASE DigestEdge
    <2>1. edge # NoEdge /\ UNCHANGED <<root, records, stack>>
      BY <1>2, DigestedSame, DigestedImport
    <2>2. PICK e, r : e = edge[1] /\ r = edge'[1]
      OBVIOUS
    <2>3. SameImport(r, e) /\ KnownOf(e)
      BY <1>2, <2>1, <2>2, DigestedSame DEF KnownAt
    <2>4. KnownOf(r)
      BY <2>3 DEF SameImport, KnownOf
    <2>5. Records' = Records
      BY <2>1 DEF Records
    <2>6. KnownOf(edge[1])'
      <3>1. KnownOf(r)'
        BY <2>1, <2>4, <2>5, KnownOfStays
      <3> QED BY <2>2, <3>1 DEF KnownOf, Known
    <2>7. ASSUME NEW q \in Records PROVE KnownOf(q)'
      BY <2>1, <2>5, KnownOfStays DEF KnownAt
    <2>8. ASSUME NEW i \in DOMAIN stack' PROVE Known(stack[i].pkg)'
      <3>1. PICK p : p = stack[i].pkg
        OBVIOUS
      <3>2. Known(p)'
        BY <2>1, <2>5, <3>1, KnownStays DEF KnownAt
      <3> QED BY <2>1, <3>1, <3>2 DEF Known
    <2> QED BY <2>5, <2>6, <2>7, <2>8 DEF KnownAt
  <1>3. CASE FollowEdge
    <2>1. edge # NoEdge /\ edge' = NoEdge /\ root' = root /\ stack # <<>> /\ Ahead # {}
      BY <1>3, FollowedSame, FollowedImport
    <2>2. PICK r : /\ SameImport(r, edge[1]) /\ records' = Append(records, r)
                   /\ r.kind \in Captured /\ r.path \in Paths
                   /\ \/ stack' = Advanced
                      \/ Visit(r.path, r.pkg, r.kind = "mounted_source", Advanced)
      BY <1>3, FollowedVisit
    <2>3. PICK e, p, a : e = edge[1] /\ p = r.pkg /\ a = Advanced
      OBVIOUS
    <2>4. KnownOf(e) /\ SameImport(r, e)
      BY <2>1, <2>2, <2>3 DEF KnownAt
    <2>5. KnownOf(r)
      BY <2>4 DEF SameImport, KnownOf
    <2>6. Records' = Records \cup {r}
      BY <2>2, RecordAdded DEF SourceTypeOK
    <2>7. Records \subseteq Records' /\ r \in Records'
      BY <2>6
    <2>8. ASSUME NEW q \in Records' PROVE KnownOf(q)'
      BY <2>1, <2>5, <2>6, <2>7, KnownOfStays DEF KnownAt
    <2>9. Known(p)'
      BY <2>2, <2>3, <2>5, <2>7 DEF Known, KnownOf
    <2>10. ASSUME NEW i \in DOMAIN a PROVE \A q : q = a[i].pkg => Known(q)'
      <3> TAKE q
      <3> HAVE q = a[i].pkg
      <3>1. Known(q)
        BY <2>1, <2>3, AdvancedKnown
      <3> QED BY <2>1, <2>7, <3>1, KnownStays
    <2>11. IsASeq(a) /\ \A i \in DOMAIN a : IsFrame(a[i])
      BY <2>1, <2>3, AdvancedFrames
    <2>12. ASSUME NEW i \in DOMAIN stack' PROVE Known(stack[i].pkg)'
      <3>1. PICK q : q = stack'[i].pkg
        OBVIOUS
      <3>2. CASE stack' = a
        BY <2>10, <3>1, <3>2 DEF Known
      <3>3. CASE Visit(r.path, r.pkg, r.kind = "mounted_source", a)
        <4>1. PICK f, m : f = r.path /\ m = (r.kind = "mounted_source")
          OBVIOUS
        <4>2. f \in Paths /\ Visit(f, p, m, a)
          BY <2>2, <2>3, <3>3, <4>1
        <4>3. q = p \/ (i \in DOMAIN a /\ q = a[i].pkg)
          BY <2>11, <3>1, <4>2, VisitedKnown
        <4>4. Known(q)'
          BY <2>9, <2>10, <4>3
        <4> QED BY <3>1, <4>4 DEF Known
      <3> QED BY <2>2, <2>3, <3>2, <3>3
    <2> QED BY <2>1, <2>8, <2>12 DEF KnownAt
  <1>4. CASE VisitEntry
    <2>1. /\ Visit(Entry, Rel(Entry, root), FALSE, <<>>) /\ UNCHANGED <<root, edge, records>>
          /\ edge = NoEdge /\ records = <<>>
      BY <1>4 DEF VisitEntry, StartsAt, Early
    <2>2. PICK p : p = Rel(Entry, root)
      OBVIOUS
    <2>3. Known(p)
      <3>1. IsASeq(Entry) /\ IsASeq(root)
        BY APath, EntryAssumption DEF RootAt
      <3>2. IsASeq(p)
        BY <2>2, <3>1, RelSeq
      <3> QED BY <2>2, <3>2 DEF Known
    <2>4. Records = {} /\ Records' = {}
      BY <2>1 DEF Records
    <2>5. ASSUME NEW i \in DOMAIN stack' PROVE Known(stack[i].pkg)'
      <3>1. PICK q : q = stack'[i].pkg
        OBVIOUS
      <3>2. IsASeq(<<>>) /\ DOMAIN <<>> = {}
        BY DEF IsASeq
      <3>3. q = p
        BY <2>1, <2>2, <3>1, <3>2, VisitedKnown, EntryAssumption
      <3>4. Known(q)'
        BY <2>1, <2>3, <2>4, <3>3, KnownStays
      <3> QED BY <3>1, <3>4 DEF Known
    <2> QED BY <2>1, <2>4, <2>5 DEF KnownAt
  <1>5. CASE InferRoot
    <2>1. stack' = <<>> /\ records' = <<>> /\ edge' = NoEdge
      BY <1>5 DEF InferRoot, StartsAt, Early
    <2>2. Records' = {} /\ DOMAIN <<>> = {}
      BY <2>1 DEF Records
    <2> QED BY <2>1, <2>2 DEF KnownAt
  <1>6. CASE Return
    <2>1. stack # <<>> /\ stack' = Front(stack) /\ UNCHANGED <<root, edge, records>>
      BY <1>6 DEF Return
    <2>2. ASSUME NEW i \in DOMAIN stack'
          PROVE  i \in DOMAIN stack /\ stack'[i] = stack[i]
      BY <2>1, <2>2, TopFrame
    <2> QED BY <2>1, <2>2, KnownUnmoved
  <1>7. CASE /\ ~ResolveEdge /\ ~DigestEdge /\ ~FollowEdge /\ ~VisitEntry /\ ~InferRoot
             /\ ~Return
    <2>1. UNCHANGED <<root, edge, records, stack>>
      BY <1>7 DEF Next, Capturing, Packaging, RootInferred, Begin, CaptureRaises, CaptureEnds,
           Transport, Stage, StageRefuses, Publish, Edit, vars, capture
    <2>2. \A i \in DOMAIN stack' : i \in DOMAIN stack /\ stack'[i] = stack[i]
      BY <2>1
    <2> QED BY <2>1, <2>2, KnownUnmoved
  <1> QED BY <1>1, <1>2, <1>3, <1>4, <1>5, <1>6, <1>7

\* Every copy made has a path inside the package (the copy's check).
SafeAt == \A k \in DOMAIN out : SafePackagePath(out[k].pkg)

\* A file is copied under such a path only (the copy of the package).
LEMMA SafeStep ==
  ASSUME SourceTypeOK, SafeAt, [Next]_vars
  PROVE  SafeAt'
  <1>1. CASE Stage
    <2>1. PICK m : m = Min(Unstaged)
      OBVIOUS
    <2> DEFINE c == [pkg |-> Input(m).pkg, of |-> Input(m).path, bytes |-> content[Input(m).path]]
    <2>2. SafePackagePath(Input(m).pkg) /\ out' = Append(out, c)
      BY <1>1, <2>1 DEF Stage
    <2>3. SafePackagePath(c.pkg)
      BY <2>2
    <2> HIDE DEF c
    <2>4. /\ DOMAIN out = 1..Len(out) /\ Len(out) \in Nat /\ DOMAIN out' = 1..(Len(out) + 1)
          /\ \A k \in 1..Len(out) : out'[k] = out[k]
          /\ out'[Len(out) + 1] = c
      BY <2>2, Appended DEF SourceTypeOK
    <2>5. ASSUME NEW k \in DOMAIN out' PROVE SafePackagePath(out'[k].pkg)
      <3>1. CASE k = Len(out) + 1
        BY <2>3, <2>4, <3>1
      <3>2. CASE k # Len(out) + 1
        <4>1. k \in 1..Len(out)
          BY <2>4, <3>2
        <4> QED BY <2>4, <4>1 DEF SafeAt
      <3> QED BY <3>1, <3>2
    <2> QED BY <2>5 DEF SafeAt
  <1>2. CASE ~Stage
    <2>1. out' = out \/ out' = <<>>
      BY <1>2 DEF Next, Capturing, Packaging, InferRoot, RootInferred, Begin, VisitEntry,
           ResolveEdge, DigestEdge, FollowEdge, CaptureRaises, Return, CaptureEnds, Transport,
           StageRefuses, Publish, Edit, vars, capture
    <2>2. DOMAIN <<>> = {}
      OBVIOUS
    <2> QED BY <2>1, <2>2 DEF SafeAt
  <1> QED BY <1>1, <1>2

AnswerInv == SourceInv /\ RootAt /\ AnswersAt /\ KnownAt /\ SafeAt

\* A capture starts with nothing recorded and a root above the entrypoint (Init).
LEMMA AnswersStart == Init => RootAt /\ AnswersAt /\ KnownAt /\ SafeAt
  <1> SUFFICES ASSUME Init PROVE RootAt /\ AnswersAt /\ KnownAt /\ SafeAt
    OBVIOUS
  <1>1. /\ world \in Worlds /\ edits = world.edits
        /\ records = <<>> /\ edge = NoEdge /\ out = <<>> /\ stack = <<>>
        /\ root = IF world.root = "marked" THEN Marked ELSE Front(Entry)
    BY DEF Init
  <1>2. world.edits \in Nat
    BY <1>1, WorldsAssumption
  <1>3. Records = {} /\ DOMAIN <<>> = {}
    BY <1>1 DEF Records
  <1>4. AnswersAt /\ KnownAt /\ SafeAt
    BY <1>1, <1>2, <1>3 DEF AnswersAt, KnownAt, SafeAt
  <1>5. RootAt
    <2>1. CASE world.root = "marked"
      <3>1. Marked \in Seq(ToSet(Marked)) /\ IsPrefix(Marked, Front(Entry))
        BY <1>1, <2>1, WorldsAssumption
      <3> QED BY <1>1, <2>1, <3>1 DEF RootAt, IsASeq
    <2>2. CASE world.root # "marked"
      <3>1. IsASeq(Entry) /\ Entry # <<>>
        BY APath, EntryAssumption
      <3>2. PICK f : f = Front(Entry)
        OBVIOUS
      <3>3. IsASeq(f) /\ Len(f) \in Nat
        BY <3>1, <3>2, Fronted
      <3>4. IsPrefix(f, f)
        BY <3>3, Begins
      <3> QED BY <1>1, <2>2, <3>2, <3>3, <3>4 DEF RootAt
    <2> QED BY <2>1, <2>2
  <1> QED BY <1>4, <1>5

-----------------------------------------------------------------------------
(* What the child loads.                                                   *)

\* A captured import of a published package has a path in it, which is neither empty
\* nor outside.
LEMMA CapturedStaged ==
  ASSUME AnswerInv, phase = "published", NEW r \in Records, r.kind \in Captured
  PROVE  /\ r.pkg \in Staged /\ SafePackagePath(r.pkg) /\ r.pkg # Nowhere /\ r.pkg # Outside
         /\ RightOf(r) /\ StillOf(r)
  <1>1. PICK i \in Inputs : Input(i) = r
    BY Copied DEF AnswerInv, SourceInv
  <1>2. r.pkg \in Staged
    BY <1>1 DEF AnswerInv, SourceInv, CopiedAt, Unstaged
  <1>3. SafePackagePath(r.pkg)
    BY <1>2 DEF AnswerInv, SafeAt, Staged
  <1>4. r.pkg # Nowhere
    BY <1>3 DEF SafePackagePath, Nowhere
  <1>5. ~SafePackagePath(Outside)
    BY DEF SafePackagePath, Outside
  <1> QED BY <1>2, <1>3, <1>4, <1>5 DEF AnswerInv, AnswersAt

\* A file of a published package has a path in it that only goes down (the copy).
LEMMA KnownStaged ==
  ASSUME AnswerInv, phase = "published", NEW p, Known(p)
  PROVE  p \in Staged /\ IsDirectory(p) /\ p # <<>>
  <1>1. p \in Staged
    <2>1. CASE p = Rel(Entry, root)
      <3>1. 0 \in Inputs /\ Input(0).pkg = p
        BY <2>1, Copied DEF Input, AnswerInv, SourceInv
      <3> QED BY <3>1 DEF AnswerInv, SourceInv, CopiedAt, Unstaged
    <2>2. CASE \E r \in Records : r.kind \in Captured /\ r.pkg = p
      BY <2>2, CapturedStaged
    <2> QED BY <2>1, <2>2 DEF Known
  <1>2. SafePackagePath(p)
    BY <1>1 DEF AnswerInv, SafeAt, Staged
  <1>3. IsASeq(p)
    BY DEF Known
  <1>4. DOMAIN p = 1..Len(p)
    BY <1>3, Appended
  <1> QED BY <1>1, <1>2, <1>3, <1>4 DEF SafePackagePath, IsDirectory

\* What is above a file of the package is a directory of it (Sys.file_exists).
LEMMA FolderAbove ==
  ASSUME NEW p \in Staged, IsASeq(p), p # <<>>, NEW d, IsASeq(d), IsPrefix(d, Front(p))
  PROVE  Folder(d)
  <1>1. PICK f : f = Front(p)
    OBVIOUS
  <1>2. /\ IsASeq(f) /\ Len(p) \in Nat \ {0} /\ Len(f) = Len(p) - 1
        /\ \A i \in 1..(Len(p) - 1) : f[i] = p[i]
    BY <1>1, Fronted
  <1>3. Len(d) \in Nat /\ Len(d) <= Len(f) /\ \A i \in 1..Len(d) : d[i] = f[i]
    BY <1>1, <1>2, Begins, Appended
  <1>4. Len(d) <= Len(p) /\ Len(d) # Len(p) /\ \A i \in 1..Len(d) : d[i] = p[i]
    BY <1>2, <1>3
  <1>5. IsPrefix(d, p) /\ d # p
    BY <1>4, Begins
  <1> QED BY <1>5 DEF Folder, IsStrictPrefix

\* A literal that goes up first and names a copy goes through directories of the package
\* (Sys.file_exists).
LEMMA WayUp ==
  ASSUME AnswerInv, phase = "published", NEW p, Known(p), NEW l, IsASeq(l), UpFirst(l),
         NEW d, d = Front(p), Normal(d \o l) \in Staged
  PROVE  FoundBeside(d, l)
  <1>1. p \in Staged /\ IsDirectory(p) /\ IsASeq(p) /\ p # <<>>
    BY KnownStaged DEF IsDirectory
  <1>2. /\ IsASeq(d) /\ Len(p) \in Nat \ {0} /\ Len(d) = Len(p) - 1
        /\ \A i \in 1..(Len(p) - 1) : d[i] = p[i]
    BY <1>1, Fronted
  <1>3. IsDirectory(d)
    BY <1>1, <1>2 DEF IsDirectory
  <1>4. Plain(Normal(d \o l))
    BY DEF AnswerInv, SafeAt, Staged, SafePackagePath, Plain
  <1>5. DOMAIN l = 1..Len(l) /\ Len(l) \in Nat
    BY Appended
  <1>6. ASSUME NEW n \in DOMAIN l, l[n] = ".."
        PROVE  Folder(Normal(d \o SubSeq(l, 1, n - 1)))
    <2>1. PICK m : m = SubSeq(l, 1, n - 1)
      OBVIOUS
    <2>2. IsASeq(m)
      <3>1. PICK S : l \in Seq(S)
        BY DEF IsASeq
      <3>2. m \in Seq(S)
        BY <1>5, <1>6, <2>1, <3>1
      <3> QED BY <3>2 DEF IsASeq
    <2>3. PICK x : x = d \o m
      OBVIOUS
    <2>4. IsASeq(x)
      BY <1>2, <2>2, <2>3, Joined
    <2>5. PICK u : u = Normal(x)
      OBVIOUS
    <2>6. IsASeq(u)
      BY <2>4, <2>5, NormalType
    <2>7. IsPrefix(Normal(d \o SubSeq(l, 1, n - 1)), d)
      BY <1>3, <1>4, <1>5, <1>6, UpInside
    <2>8. IsPrefix(u, Front(p))
      BY <2>1, <2>3, <2>5, <2>7
    <2>9. Folder(u)
      BY <1>1, <2>6, <2>8, FolderAbove
    <2> QED BY <2>1, <2>3, <2>5, <2>9
  <1> QED BY <1>6 DEF FoundBeside

\* The first record that a literal hits is one of them, if any (the prelude's maps).
LEMMA FirstHit ==
  ASSUME AnswerInv, phase = "published", NEW hits, hits \subseteq DOMAIN records,
         \A i \in hits : records[i].kind \in Captured
  PROVE  /\ FirstPkg(hits) = Nowhere <=> hits = {}
         /\ hits # {} => \E i \in hits : FirstPkg(hits) = records[i].pkg
  <1>1. DOMAIN records = 1..Len(records) /\ Len(records) \in Nat
    BY Appended DEF AnswerInv, SourceInv, SourceTypeOK
  <1>2. CASE hits = {}
    BY <1>2 DEF FirstPkg
  <1>3. CASE hits # {}
    <2>1. PICK i : i = Min(hits)
      OBVIOUS
    <2>2. i \in hits
      BY <1>1, <1>3, <2>1, Least
    <2>3. FirstPkg(hits) = records[i].pkg
      BY <1>3, <2>1 DEF FirstPkg
    <2>4. records[i] \in Records /\ records[i].kind \in Captured
      BY <2>2 DEF Records
    <2>5. records[i].pkg # Nowhere
      BY <2>4, CapturedStaged
    <2> QED BY <1>3, <2>2, <2>3, <2>5
  <1> QED BY <1>2, <1>3

\* The map of logical and legacy imports answers with a captured file, and with one
\* whenever there is such an import (the outermost wrapper).
LEMMA MappedHit ==
  ASSUME AnswerInv, phase = "published", NEW lit
  PROVE  /\ MappedTo(lit) # Nowhere =>
              \E s \in Records :
                /\ s.lit = lit /\ s.kind \in {"mounted_source", "holdir_source"}
                /\ MappedTo(lit) = s.pkg
         /\ MappedTo(lit) = Nowhere =>
              \A s \in Records : s.lit = lit => s.kind # "mounted_source"
                                                /\ (Absolute(lit) => s.kind # "holdir_source")
  <1> DEFINE hits == {i \in DOMAIN records :
                        /\ records[i].lit = lit
                        /\ \/ records[i].kind = "mounted_source"
                           \/ records[i].kind = "holdir_source" /\ Absolute(lit)}
  <1>1. MappedTo(lit) = FirstPkg(hits)
    BY DEF MappedTo
  <1>2. hits \subseteq DOMAIN records /\ \A i \in hits : records[i].kind \in Captured
    BY DEF Captured
  <1>3. \A i \in hits : /\ records[i] \in Records /\ records[i].lit = lit
                        /\ records[i].kind \in {"mounted_source", "holdir_source"}
    BY DEF Records
  <1>4. ASSUME hits = {}, NEW s \in Records, s.lit = lit
        PROVE  s.kind # "mounted_source" /\ (Absolute(lit) => s.kind # "holdir_source")
    <2>1. PICK i \in DOMAIN records : records[i] = s
      BY DEF Records
    <2>2. i \notin hits
      BY <1>4
    <2> QED BY <1>4, <2>1, <2>2
  <1> HIDE DEF hits
  <1>5. /\ FirstPkg(hits) = Nowhere <=> hits = {}
        /\ hits # {} => \E i \in hits : FirstPkg(hits) = records[i].pkg
    BY <1>2, FirstHit
  <1> QED BY <1>1, <1>3, <1>4, <1>5

\* The map of imports found from the root answers with such an import of the same
\* directory, and with one whenever there is any (source_package_root).
LEMMA FromRootHit ==
  ASSUME AnswerInv, phase = "published", NEW dir, NEW lit
  PROVE  /\ FromRootTo(dir, lit) # Nowhere =>
              \E s \in Records :
                /\ s.lit = lit /\ s.fromRoot /\ s.kind = "source_local"
                /\ Within(s.decl, root) /\ s.decl \in Paths
                /\ Front(Rel(s.decl, root)) = dir /\ FromRootTo(dir, lit) = s.pkg
         /\ FromRootTo(dir, lit) = Nowhere =>
              \A s \in Records : s.lit = lit /\ Front(Rel(s.decl, root)) = dir => ~s.fromRoot
  <1> DEFINE hits == {i \in DOMAIN records :
                        /\ records[i].fromRoot /\ records[i].lit = lit
                        /\ Front(Rel(records[i].decl, root)) = dir}
  <1>1. FromRootTo(dir, lit) = FirstPkg(hits)
    BY DEF FromRootTo
  <1>2. ASSUME NEW i \in hits
        PROVE  /\ records[i] \in Records /\ records[i].lit = lit /\ records[i].fromRoot
               /\ records[i].kind = "source_local" /\ records[i].kind \in Captured
               /\ Within(records[i].decl, root) /\ records[i].decl \in Paths
               /\ Front(Rel(records[i].decl, root)) = dir
    <2>1. PICK s : s = records[i]
      OBVIOUS
    <2>2. s \in Records /\ s.lit = lit /\ s.fromRoot /\ Front(Rel(s.decl, root)) = dir
      BY <1>2, <2>1 DEF Records
    <2>3. RightOf(s)
      BY <2>2 DEF AnswerInv, AnswersAt
    <2>4. s.kind = "source_local" /\ Within(s.decl, root) /\ s.decl \in Paths
      BY <2>2, <2>3 DEF RightOf
    <2> QED BY <2>1, <2>2, <2>4 DEF Captured
  <1>3. ASSUME hits = {}, NEW s \in Records, s.lit = lit, Front(Rel(s.decl, root)) = dir
        PROVE  ~s.fromRoot
    <2>1. PICK i \in DOMAIN records : records[i] = s
      BY DEF Records
    <2>2. i \notin hits
      BY <1>3
    <2> QED BY <1>3, <2>1, <2>2
  <1>4. hits \subseteq DOMAIN records
    OBVIOUS
  <1> HIDE DEF hits
  <1>5. /\ FirstPkg(hits) = Nowhere <=> hits = {}
        /\ hits # {} => \E i \in hits : FirstPkg(hits) = records[i].pkg
    BY <1>2, <1>4, FirstHit
  <1>6. ASSUME hits # {}
        PROVE  \E s \in Records :
                 /\ s.lit = lit /\ s.fromRoot /\ s.kind = "source_local"
                 /\ Within(s.decl, root) /\ s.decl \in Paths
                 /\ Front(Rel(s.decl, root)) = dir /\ FirstPkg(hits) = s.pkg
    <2>1. PICK i \in hits : FirstPkg(hits) = records[i].pkg
      BY <1>5, <1>6
    <2> QED BY <1>2, <2>1
  <1> QED BY <1>1, <1>3, <1>5, <1>6

\* Next to a file of the root the capture and the child look in the same place, unless
\* the path leaves the root (resolve_dependency, proof_run_normalized_source_dir).
LEMMA BesideInRoot ==
  ASSUME RootAt, NEW p \in Paths, Within(p, root), NEW lit, IsASeq(lit),
         SafePackagePath(Beside(Rel(p, root), lit))
  PROVE  Rel(Beside(p, lit), root) = Beside(Rel(p, root), lit)
  <1>1. PICK d, f : d = Front(Rel(p, root)) /\ f = Front(p)
    OBVIOUS
  <1>2. IsASeq(d) /\ f = root \o d
    BY <1>1, BelowRoot
  <1>3. PICK x : x = d \o lit
    OBVIOUS
  <1>4. IsASeq(x) /\ IsASeq(root)
    BY <1>2, <1>3, Joined DEF RootAt
  <1>5. f \o lit = root \o x
    <2>1. PICK A : d \in Seq(A)
      BY <1>2 DEF IsASeq
    <2>2. PICK B : lit \in Seq(B)
      BY DEF IsASeq
    <2>3. PICK C : root \in Seq(C)
      BY <1>4 DEF IsASeq
    <2> QED BY <1>2, <1>3, <2>1, <2>2, <2>3
  <1>6. Beside(p, lit) = Normal(root \o x) /\ Beside(Rel(p, root), lit) = Normal(x)
    BY <1>1, <1>3, <1>5 DEF Beside
  <1>7. PICK n : n = Normal(x)
    OBVIOUS
  <1>8. Plain(n)
    BY <1>6, <1>7 DEF SafePackagePath, Plain
  <1>9. Normal(root \o x) = root \o n
    BY <1>4, <1>7, <1>8, RootAbove, NormalUnder
  <1>10. IsASeq(n)
    BY <1>4, <1>7, NormalType
  <1>11. Rel(root \o n, root) = n
    BY <1>4, <1>10, RelOf
  <1> QED BY <1>6, <1>7, <1>9, <1>11

\* The package path that a file's own import has if nothing else answers it.
LEMMA LocalPath ==
  ASSUME AnswerInv, phase = "published", NEW r \in Records, r.kind = "source_local",
         InPlace(r), ~r.fromRoot
  PROVE  Normal(Front(r.declPkg) \o r.lit) = r.pkg
  <1>1. /\ RightOf(r) /\ RootAt
    BY CapturedStaged DEF AnswerInv, Captured
  <1>2. /\ Within(r.decl, root) /\ r.declPkg = Rel(r.decl, root)
        /\ SafePackagePath(Beside(r.declPkg, r.lit))
    BY DEF InPlace
  <1>3. /\ r.decl \in Paths /\ IsASeq(r.lit)
        /\ r.path = Beside(r.decl, r.lit) /\ r.pkg = Rel(r.path, root)
    BY <1>1 DEF RightOf
  <1>4. PICK p, l : p = r.decl /\ l = r.lit
    OBVIOUS
  <1>5. Rel(Beside(p, l), root) = Beside(Rel(p, root), l)
    BY <1>1, <1>2, <1>3, <1>4, BesideInRoot
  <1>6. r.pkg = Beside(r.declPkg, r.lit)
    BY <1>2, <1>3, <1>4, <1>5
  <1> QED BY <1>6 DEF Beside

\* An import that no map answers loads the copy that is next to the importing one
\* (the innermost wrapper).
LEMMA LoadsBeside ==
  ASSUME AnswerInv, phase = "published", NEW r \in Records, r.kind \in Captured, InPlace(r),
         MappedTo(r.lit) = Nowhere, FromRootTo(Front(r.declPkg), r.lit) = Nowhere
  PROVE  Loads(r.declPkg, r.lit) = r.pkg /\ (r.kind = "source_local" => ~r.fromRoot)
  <1>0. RightOf(r) /\ r.pkg \in Staged
    BY CapturedStaged
  <1>1. r.kind # "mounted_source" /\ (Absolute(r.lit) => r.kind # "holdir_source")
    BY MappedHit
  <1>2. ~Absolute(r.lit)
    BY <1>0, <1>1 DEF RightOf
  <1>3. ASSUME r.kind = "source_local"
        PROVE  ~r.fromRoot /\ Normal(Front(r.declPkg) \o r.lit) = r.pkg
    <2>1. r.declPkg = Rel(r.decl, root)
      BY <1>3 DEF InPlace
    <2>2. ~r.fromRoot
      BY <2>1, FromRootHit
    <2> QED BY <1>3, <2>2, LocalPath
  <1>4. ASSUME r.kind # "source_local"
        PROVE  Normal(Front(r.declPkg) \o r.lit) = r.pkg
    <2>1. r.kind \in {"holdir_source", "source_overlay"}
      BY <1>1, <1>4 DEF Captured
    <2> QED BY <1>0, <1>2, <2>1 DEF RightOf, Beside
  <1>5. Normal(Front(r.declPkg) \o r.lit) = r.pkg
    BY <1>3, <1>4
  <1>6. FoundBeside(Front(r.declPkg), r.lit)
    <2>1. PICK p, l, d : p = r.declPkg /\ l = r.lit /\ d = Front(p)
      OBVIOUS
    <2>2. Known(p) /\ IsASeq(l)
      BY <1>0, <2>1 DEF AnswerInv, KnownAt, KnownOf, RightOf
    <2>3. UpFirst(l)
      BY <1>1, <2>1 DEF InPlace
    <2>4. Normal(d \o l) \in Staged
      BY <1>0, <1>5, <2>1
    <2>5. FoundBeside(d, l)
      BY <2>1, <2>2, <2>3, <2>4, WayUp
    <2> QED BY <2>1, <2>5
  <1> QED BY <1>1, <1>2, <1>3, <1>5, <1>6 DEF Loads

\* A captured import never goes to HOL's load path.
LEMMA NeverOutside ==
  ASSUME AnswerInv, phase = "published", NEW r \in Records, r.kind \in Captured, InPlace(r)
  PROVE  Loads(r.declPkg, r.lit) # Outside
  <1>1. CASE MappedTo(r.lit) # Nowhere
    <2>1. PICK s \in Records : s.kind \in {"mounted_source", "holdir_source"}
                               /\ MappedTo(r.lit) = s.pkg
      BY <1>1, MappedHit
    <2>2. s.pkg # Outside
      BY <2>1, CapturedStaged DEF Captured
    <2>3. Loads(r.declPkg, r.lit) = s.pkg
      BY <1>1, <2>1 DEF Loads
    <2> QED BY <2>2, <2>3
  <1>2. CASE MappedTo(r.lit) = Nowhere /\ FromRootTo(Front(r.declPkg), r.lit) # Nowhere
    <2>1. ~Absolute(r.lit)
      <3>1. Absolute(r.lit) => r.kind # "holdir_source"
        BY <1>2, MappedHit
      <3> QED BY <3>1, CapturedStaged DEF RightOf
    <2>2. PICK s \in Records : s.kind = "source_local"
                               /\ FromRootTo(Front(r.declPkg), r.lit) = s.pkg
      BY <1>2, FromRootHit
    <2>3. s.pkg # Outside
      BY <2>2, CapturedStaged DEF Captured
    <2>4. Loads(r.declPkg, r.lit) = s.pkg
      BY <1>2, <2>1, <2>2 DEF Loads
    <2> QED BY <2>3, <2>4
  <1>3. CASE MappedTo(r.lit) = Nowhere /\ FromRootTo(Front(r.declPkg), r.lit) = Nowhere
    <2>1. Loads(r.declPkg, r.lit) = r.pkg
      BY <1>3, LoadsBeside
    <2>2. r.pkg # Outside
      BY CapturedStaged
    <2> QED BY <2>1, <2>2
  <1> QED BY <1>1, <1>2, <1>3

\* In a closure of one tree an import loads a file captured for it in that directory,
\* and the very one if nothing was edited (source_local_needs_prelude).
LEMMA OneTree ==
  ASSUME AnswerInv, phase = "published", \A q \in Records : q.kind = "source_local",
         NEW r \in Records, InPlace(r)
  PROVE  /\ \E s \in Records : Alike(r, s) /\ Loads(r.declPkg, r.lit) = s.pkg
         /\ edits = world.edits => Loads(r.declPkg, r.lit) = r.pkg
  <1>0. RightOf(r) /\ StillOf(r) /\ RootAt /\ r.kind = "source_local" /\ r.kind \in Captured
    BY CapturedStaged DEF AnswerInv, Captured
  <1>1. MappedTo(r.lit) = Nowhere
    BY MappedHit
  <1>2. ~Absolute(r.lit)
    BY <1>0 DEF RightOf
  <1>3. Within(r.decl, root) /\ r.declPkg = Rel(r.decl, root) /\ r.decl \in Paths
    BY <1>0 DEF InPlace, RightOf
  <1>4. CASE FromRootTo(Front(r.declPkg), r.lit) = Nowhere
    <2>1. Loads(r.declPkg, r.lit) = r.pkg
      BY <1>0, <1>1, <1>4, LoadsBeside
    <2> QED BY <2>1 DEF Alike
  <1>5. CASE FromRootTo(Front(r.declPkg), r.lit) # Nowhere
    <2>1. PICK s \in Records :
            /\ s.lit = r.lit /\ s.fromRoot /\ s.kind = "source_local"
            /\ Within(s.decl, root) /\ s.decl \in Paths
            /\ Front(Rel(s.decl, root)) = Front(r.declPkg)
            /\ FromRootTo(Front(r.declPkg), r.lit) = s.pkg
      BY <1>5, FromRootHit
    <2>2. Loads(r.declPkg, r.lit) = s.pkg
      BY <1>1, <1>2, <1>5, <2>1 DEF Loads
    <2>3. PICK p, q : p = s.decl /\ q = r.decl
      OBVIOUS
    <2>4. Front(p) = root \o Front(Rel(p, root)) /\ Front(q) = root \o Front(Rel(q, root))
      BY <1>0, <1>3, <2>1, <2>3, BelowRoot
    <2>5. Front(p) = Front(q)
      BY <1>3, <2>1, <2>3, <2>4
    <2>6. Alike(r, s)
      BY <2>1, <2>3, <2>5 DEF Alike
    <2>7. ASSUME edits = world.edits PROVE s.pkg = r.pkg
      <3>1. RightOf(s) /\ StillOf(s)
        BY <2>1, CapturedStaged DEF Captured
      <3>2. Beside(s.decl, s.lit) = Beside(r.decl, r.lit)
        BY <2>1, <2>3, <2>5 DEF Beside
      <3>3. ~Exists(Beside(s.decl, s.lit))
        BY <2>1, <2>7, <3>1 DEF StillOf
      <3>4. r.fromRoot
        BY <1>0, <2>7, <3>2, <3>3 DEF StillOf
      <3>5. s.pkg = Rel(root \o s.lit, root) /\ r.pkg = Rel(root \o r.lit, root)
        BY <1>0, <2>1, <3>1, <3>4 DEF RightOf
      <3> QED BY <2>1, <3>5
    <2> QED BY <2>2, <2>6, <2>7
  <1> QED BY <1>4, <1>5

\* In the child of a published package a captured import of a file that stands in the
\* package as it does in the root is answered from the package, and in a closure of one
\* tree by a file captured for it in that directory, by its own if nothing was edited
\* (source_local_needs_prelude, proof_run_load_source).
THEOREM ImportsAnsweredHolds == Spec => []ImportsAnswered
  <1>1. Init => AnswerInv
    BY SourceStart, AnswersStart DEF AnswerInv
  <1>2. AnswerInv /\ [Next]_vars => AnswerInv'
    <2> SUFFICES ASSUME AnswerInv, [Next]_vars PROVE AnswerInv'
      OBVIOUS
    <2>1. SourceInv'
      BY SourceTypeStep, RecordedStep, StartsStep, VisitedStep, WalkStep, CopiedStep
         DEF AnswerInv, SourceInv
    <2>2. RootAt' /\ AnswersAt' /\ KnownAt' /\ SafeAt'
      BY RootStep, AnswersStep, KnownStep, SafeStep DEF AnswerInv, SourceInv
    <2> QED BY <2>1, <2>2 DEF AnswerInv
  <1>3. AnswerInv => ImportsAnswered
    <2> SUFFICES ASSUME AnswerInv, phase = "published" PROVE ImportsAnswered
      BY DEF ImportsAnswered
    <2>1. \A r \in CapturedRecords : InPlace(r) => Loads(r.declPkg, r.lit) # Outside
      BY NeverOutside DEF CapturedRecords
    <2>2. (\A q \in Records : q.kind = "source_local") =>
            \A r \in Records : InPlace(r) =>
              /\ \E s \in Records : Alike(r, s) /\ Loads(r.declPkg, r.lit) = s.pkg
              /\ edits = world.edits => Loads(r.declPkg, r.lit) = r.pkg
      BY OneTree
    <2> QED BY <2>1, <2>2 DEF ImportsAnswered
  <1> QED BY <1>1, <1>2, <1>3, PTL DEF Spec
=============================================================================

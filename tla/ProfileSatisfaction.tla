-------------------------- MODULE ProfileSatisfaction --------------------------
(***************************************************************************)
(* Which imports of a captured source a warm shelf already answers.  HOL   *)
(* skips a `needs` whose basename and digest it has loaded, and with it    *)
(* everything below that file; a decision therefore compares the captured  *)
(* closure with the inventory of what the shelf's basis loaded, it is made *)
(* again just before the evaluation, and a prelude in the child holds      *)
(* `needs` to it.  Files are edited at any step.                           *)
(*                                                                         *)
(* A path starts with its tree: "c" the captured checkout, "p" the profile *)
(* working directory, "h" HOLDIR (one for host and shelf).  Bytes are a    *)
(* number, 0 an absent file; what a file imports is a function of them.    *)
(* The capture is one step here and its package has the captured bytes:    *)
(* SourceClosure has both in full, with logical roots and worktrees.  Also *)
(* left out: ELF artifacts, symlinks, entries that are ambiguous.          *)
(***************************************************************************)
EXTENDS Naturals, Sequences, FiniteSets, SequencesExt

CONSTANTS
  AnswerPaths, AnswerEntry,
  Says,         \* bytes -> the imports in them, [loader, lit]
  AnswerWorlds  \* [disk, loaded, holdir, edits]: files, what the basis loaded,
                \* whether a host HOLDIR is configured, edits that may happen

VARIABLES
  tree, budget, \* files, edits that may still happen
  basis,    \* path -> bytes: the loaded closure in the shelf's manifest
  holdir,
  imports,  \* imports of the captured closure
  document, \* the decision, or Undecided
  step,
  mem,      \* loaded_files of the child
  loads,    \* files it is loading, [file, packaged, todo, id]
  skipped   \* recorded imports it was told are already loaded

answerVars == <<tree, budget, basis, holdir, imports, document, step, mem, loads, skipped>>

NoPath == <<>>
Undecided == <<>>
Leaves == {bytes \in DOMAIN Says : Says[bytes] = <<>>}
In(top, p) == Head(p) = top
AbsoluteName(lit) == Head(lit) = "/"
Name(p) == Last(p)

\* What HOL finds for a relative name: its directory, then HOLDIR.
LoadPath(lit) == <<<<"p">> \o lit, <<"h">> \o lit>>

ASSUME AnswerAssumption ==
  /\ IsFiniteSet(AnswerPaths) /\ AnswerEntry \in AnswerPaths /\ In("c", AnswerEntry)
  \* a tree, and a path in it
  /\ \A p \in AnswerPaths : p \in Seq(ToSet(p)) /\ Len(p) > 1
  /\ \A w \in AnswerWorlds :
       /\ DOMAIN w.disk = AnswerPaths /\ w.disk[AnswerEntry] # 0 /\ w.holdir \in BOOLEAN
       \* the basis loaded what its files import, from either place
       /\ \A p \in w.loaded :
            /\ p \in AnswerPaths /\ w.disk[p] # 0
            /\ \A i \in DOMAIN Says[w.disk[p]] :
                 \E j \in {1, 2} : LoadPath(Says[w.disk[p]][i].lit)[j] \in w.loaded

-----------------------------------------------------------------------------
(* The captured closure, as SourceClosure's ResolveEdge and FollowEdge     *)
(* build it.                                                               *)

There(d, p) == p \in AnswerPaths /\ d[p] # 0
NextTo(p, lit) == Front(p) \o lit

ResolveIn(d, hol, decl, lit) ==
  LET root == <<"c">> \o lit
      owned == \E p \in AnswerPaths : There(d, p) /\ Len(p) > 2 /\ SubSeq(p, 1, 2) = <<"c", Head(lit)>>
  IN  IF AbsoluteName(lit)
      THEN IF There(d, Tail(lit)) THEN [kind |-> "external_resolved", path |-> Tail(lit)]
           ELSE [kind |-> "unresolved", path |-> NoPath]
      ELSE IF There(d, NextTo(decl, lit))
      THEN [kind |-> IF In("c", decl) THEN "source_local" ELSE "holdir_source",
            path |-> NextTo(decl, lit)]
      ELSE IF In("c", decl) /\ There(d, root) THEN [kind |-> "source_local", path |-> root]
      ELSE IF In("c", decl) /\ owned THEN [kind |-> "unresolved_source_root", path |-> NoPath]
      ELSE IF hol /\ There(d, <<"h">> \o lit)
      THEN [kind |-> "holdir_source", path |-> <<"h">> \o lit]
      ELSE [kind |-> "unresolved", path |-> NoPath]

RecordsOf(d, hol, p) ==
  {LET t == ResolveIn(d, hol, p, Says[d[p]][i].lit)
   IN  [decl |-> p, loader |-> Says[d[p]][i].loader, lit |-> Says[d[p]][i].lit, kind |-> t.kind,
        path |-> t.path, bytes |-> IF t.path = NoPath THEN 0 ELSE d[t.path]] :
     i \in DOMAIN Says[d[p]]}

CapturedKinds == {"source_local", "holdir_source"}

\* The files that chains of imports lead to.
Reach(start, next) ==
  LET upto[n \in 0..Cardinality(AnswerPaths)] ==
        IF n = 0 THEN start
        ELSE LET before == upto[n - 1] IN before \cup UNION {next[p] : p \in before}
  IN  upto[Cardinality(AnswerPaths)]

Targets(rs) == {r.path : r \in {s \in rs : s.kind \in CapturedKinds}}

CapturedIn(d, hol) ==
  LET next == [p \in AnswerPaths |-> IF There(d, p) THEN Targets(RecordsOf(d, hol, p)) ELSE {}]
  IN  UNION {RecordsOf(d, hol, p) : p \in Reach({AnswerEntry}, next)}

AnswerInit ==
  /\ step = "decide" /\ document = Undecided /\ loads = <<>> /\ skipped = {}
  /\ \E w \in AnswerWorlds :
       /\ tree = w.disk /\ holdir = w.holdir /\ budget = w.edits
       /\ basis = [p \in w.loaded |-> w.disk[p]]
       /\ mem = {<<Name(p), w.disk[p]>> : p \in w.loaded}
       /\ imports = CapturedIn(w.disk, w.holdir)

\* One literal names one source throughout a closure: the child's prelude looks an
\* import up by its literal, whichever file it stands in.
OneMeaning ==
  \A w \in AnswerWorlds : \A r, s \in CapturedIn(w.disk, w.holdir) :
    r.lit = s.lit => r.path = s.path

\* Without a host HOLDIR, the basis took what its files import from the profile's
\* directory: that an import has another file there now is not noticed.
FromProfile ==
  \A w \in AnswerWorlds : w.holdir \/
    \A p \in w.loaded : \A i \in DOMAIN Says[w.disk[p]] :
      LoadPath(Says[w.disk[p]][i].lit)[1] \in w.loaded

-----------------------------------------------------------------------------
(* build_profile_satisfaction.                                             *)

Loaded == DOMAIN basis
InBasis(name, bytes) == \E p \in Loaded : Name(p) = name /\ basis[p] = bytes
Changed(p) == p \notin AnswerPaths \/ tree[p] # basis[p]

\* validate_snapshot_manifest, as to the loaded closure.
ShelfValid == \A p \in Loaded : ~Changed(p)

\* The file an absolute name below HOLDIR, or an unresolved name, stands for.
Holds(r) == holdir /\ AbsoluteName(r.lit) /\ In("h", Tail(r.lit))
Relative(r) == r.kind = "unresolved" /\ ~AbsoluteName(r.lit) /\ There(tree, <<"p">> \o r.lit)

Candidates ==
  {r \in imports : r.loader = "needs" /\ r.kind \in {"external_resolved", "unresolved"}
                     /\ (Holds(r) \/ Relative(r))}
Shelf(r) == IF Holds(r) THEN Tail(r.lit) ELSE <<"p">> \o r.lit

\* _validated_edge, _validated_profile_cwd_edge.
EdgeRefused(r) ==
  \/ Holds(r) /\ (Shelf(r) \notin Loaded \/ Changed(Shelf(r)) \/ r.bytes # basis[Shelf(r)])
  \/ ~Holds(r) /\ Shelf(r) \in Loaded /\ Changed(Shelf(r))

Edge(r) ==
  [record |-> r, lit |-> r.lit, path |-> Shelf(r), bytes |-> tree[Shelf(r)],
   satisfied |-> Shelf(r) \in Loaded]

\* matched_inventory: the same place in HOLDIR, or in the profile's directory.
Coordinate(r) == IF In("h", r.path) THEN r.path ELSE <<"p">> \o Tail(r.path)
Inventoried(r) == Coordinate(r) \in Loaded

Sources == {r \in imports : r.kind \in CapturedKinds}

\* validate: the captured file is unchanged; it is the inventory's, and if it
\* has no place there, HOL would not take it for a file that has.
SourceRefused(r) ==
  \/ tree[r.path] # r.bytes
  \/ Inventoried(r) /\ basis[Coordinate(r)] # r.bytes
  \/ ~Inventoried(r) /\ r.loader = "needs" /\ InBasis(Name(r.path), r.bytes)

Roots == {r \in Sources : r.loader = "needs" /\ Inventoried(r)}

\* Imports below an import.
Below(r) ==
  LET next == [p \in AnswerPaths |-> Targets({s \in imports : s.decl = p})]
  IN  {s \in imports : r.kind \in CapturedKinds /\ s.decl \in Reach({r.path}, next)}

\* Fault: only what the skipped files themselves import is looked at.
BelowSkipped_Direct == UNION {{s \in imports : s.decl = r.path} : r \in Roots}

BelowSkipped == UNION {Below(r) : r \in Roots}

\* _captured_warm_sources: all of a skipped subtree is in the inventory.
WarmRefused ==
  \/ \E r \in Sources : r.loader = "needs" /\ SourceRefused(r)
  \/ \E r \in BelowSkipped :
       IF r.kind \in CapturedKinds THEN SourceRefused(r) \/ ~Inventoried(r)
       ELSE r \notin Candidates

Refuses == ~ShelfValid \/ WarmRefused \/ \E r \in Candidates : EdgeRefused(r)

Document == [edges |-> {Edge(r) : r \in Candidates},
             warm |-> (Roots \cup BelowSkipped) \cap Sources]

\* dependency_transport_status, of what the edges leave.
TransportRefuses ==
  \E r \in imports \ Candidates :
    \/ r.kind \in {"external_resolved", "unresolved_source_root"}
    \/ r.kind = "unresolved" /\ (AbsoluteName(r.lit) \/ holdir)

\* decide_profile_satisfaction.
Decide ==
  /\ step = "decide"
  /\ IF Refuses \/ TransportRefuses
     THEN step' = "refused" /\ UNCHANGED document
     ELSE step' = "package" /\ document' = Document
  /\ UNCHANGED <<tree, budget, basis, holdir, imports, mem, loads, skipped>>

\* revalidate_live_edge_files, and the decision made again must be equal.
Same == ~Refuses /\ Document = document /\ \A e \in document.edges : tree[e.path] = e.bytes

Frame(p, packaged, bytes) ==
  [file |-> p, packaged |-> packaged, todo |-> Says[bytes], id |-> <<Name(p), bytes>>]

\* Once when the package is ready, once when the shelf is restored; then the
\* entrypoint is loaded.
Revalidate ==
  /\ step \in {"package", "restored"}
  /\ step' = IF ~Same THEN "refused" ELSE IF step = "package" THEN "restored" ELSE "evaluate"
  /\ UNCHANGED <<tree, budget, basis, holdir, imports, document, mem, skipped>>
  /\ loads' = IF step' = "evaluate" THEN <<Frame(AnswerEntry, TRUE, tree[AnswerEntry])>> ELSE loads

-----------------------------------------------------------------------------
(* The child.                                                              *)

Current == Last(loads)
Import == Head(Current.todo)
Rest == Append(Front(loads), [Current EXCEPT !.todo = Tail(@)])
Ours == {r \in imports : Current.packaged /\ r.decl = Current.file /\ r.lit = Import.lit
                           /\ r.loader = Import.loader}
Given == <<tree, budget, basis, holdir, imports, document>>

\* profile_satisfied_needs_prelude: the edges that `needs` looks its name up in.
Guards(satisfied) ==
  {e \in document.edges : e.lit = Import.lit /\ e.satisfied = satisfied
                            /\ Import.loader = "needs"}
NoGuards == Guards(TRUE) \cup Guards(FALSE) = {}

Fail == step' = "failed" /\ UNCHANGED <<Given, mem, loads, skipped>>
Skip == loads' = Rest /\ skipped' = skipped \cup Ours /\ UNCHANGED <<Given, step, mem>>

\* HOL's `needs` and `loadt`.
Load(p, packaged, bytes) ==
  IF Import.loader = "needs" /\ <<Name(p), bytes>> \in mem THEN Skip
  ELSE /\ loads' = Append(Rest, Frame(p, packaged, bytes))
       /\ UNCHANGED <<Given, step, mem, skipped>>

Running == step = "evaluate" /\ loads # <<>> /\ Current.todo # <<>>

\* The shelf has it: its file is digested, loaded_files looked at, no more.
GuardedNeeds ==
  /\ Running /\ Guards(TRUE) # {}
  /\ LET e == CHOOSE e \in Guards(TRUE) : TRUE
     IN  IF tree[e.path] = e.bytes /\ <<Name(e.path), e.bytes>> \in mem THEN Skip ELSE Fail

\* The profile's directory has it: its file, with the recorded digest.
RuntimeNeeds ==
  /\ Running /\ Guards(TRUE) = {} /\ Guards(FALSE) # {}
  /\ LET e == CHOOSE e \in Guards(FALSE) : TRUE
     IN  IF tree[e.path] = e.bytes THEN Load(e.path, FALSE, e.bytes) ELSE Fail

\* The package's copy for that import.
PackagedImport ==
  /\ Running /\ NoGuards /\ \E r \in Ours : r.kind \in CapturedKinds
  /\ \E r \in Ours : r.kind \in CapturedKinds /\ Load(r.path, TRUE, r.bytes)

\* HOL's own search; outside the package, first next to the importing file.
Found ==
  IF AbsoluteName(Import.lit) THEN SelectSeq(<<Tail(Import.lit)>>, LAMBDA p : There(tree, p))
  ELSE SelectSeq((IF Current.packaged THEN <<>> ELSE <<NextTo(Current.file, Import.lit)>>)
                   \o LoadPath(Import.lit), LAMBDA p : There(tree, p))

OtherImport ==
  /\ Running /\ NoGuards /\ ~\E r \in Ours : r.kind \in CapturedKinds
  /\ IF Found = <<>> THEN Fail ELSE Load(Head(Found), FALSE, tree[Head(Found)])

LoadReturns ==
  /\ step = "evaluate" /\ loads # <<>> /\ Current.todo = <<>>
  /\ loads' = Front(loads) /\ mem' = mem \cup {Current.id}
  /\ step' = IF Len(loads) = 1 THEN "completed" ELSE step
  /\ UNCHANGED <<Given, skipped>>

-----------------------------------------------------------------------------
\* New bytes import nothing, lest a chain of loads closes.
EditTree(p, bytes) ==
  /\ budget > 0 /\ bytes # tree[p]
  /\ tree' = [tree EXCEPT ![p] = bytes] /\ budget' = budget - 1
  /\ UNCHANGED <<basis, holdir, imports, document, step, mem, loads, skipped>>

AnswerNext ==
  \/ Decide \/ Revalidate
  \/ GuardedNeeds \/ RuntimeNeeds \/ PackagedImport \/ OtherImport \/ LoadReturns
  \/ \E p \in AnswerPaths \ {AnswerEntry}, bytes \in Leaves \cup {0} : EditTree(p, bytes)

AnswerSpec == AnswerInit /\ [][AnswerNext]_answerVars

-----------------------------------------------------------------------------
(* The property.                                                           *)

\* Imports of which the closure or the decision names a file, its name and bytes.
Identified(r) == r.path # NoPath \/ \E e \in document.edges : e.record = r
EdgeOf(r) == CHOOSE e \in document.edges : e.record = r
Identity(r) ==
  IF r.path # NoPath THEN <<Name(r.path), r.bytes>> ELSE <<Name(EdgeOf(r).path), EdgeOf(r).bytes>>

FromBasis(id) == InBasis(id[1], id[2])

\* An import that is not evaluated was evaluated before, from the bytes recorded
\* for it; and if the basis did that, the basis loaded the recorded bytes of
\* everything below it (_captured_warm_sources, profile_satisfied_needs_prelude).
SkippedMeansSame ==
  \A r \in {s \in skipped : Identified(s)} :
    /\ Identity(r) \in mem
    /\ FromBasis(Identity(r)) =>
         \A s \in Below(r) : Identified(s) /\ FromBasis(Identity(s))
=============================================================================

---------------------------- MODULE SourceClosure ----------------------------
(***************************************************************************)
(* From an entrypoint to what a child loads.  The capture infers a package *)
(* root, follows the literal imports depth first and records, for each, the*)
(* file it resolves to and the digest of its bytes; the transport admits or*)
(* refuses the closure; the package copies the recorded files, each read   *)
(* and digested once more, into a staging directory that one rename        *)
(* publishes; and in the child a prelude around `needs` answers an import  *)
(* from the package.  Files are created, edited and deleted meanwhile.     *)
(*                                                                         *)
(* A path is the sequence of its components, a literal likewise (the first *)
(* is "/" when it is absolute).  A file's bytes are a version: 0 not yet   *)
(* created, 1 and 2 contents, 3 deleted; new bytes are never old ones.     *)
(* Left out: symlinks (refused wherever they occur), object files (recorded*)
(* and re-read as sources are), imports that a warm shelf satisfies.       *)
(***************************************************************************)
EXTENDS Naturals, Sequences, FiniteSets, SequencesExt

CONSTANTS
  Paths,    \* files that may exist
  Entry,    \* the entrypoint
  Marked,   \* package root of a marker or a repository
  Overlay,  \* registered worktree of the HOLDIR repository
  Holdir, Legacy, \* HOLDIR, and its coordinate on another machine
  Mount, Alias,   \* one declared logical source root
  Worlds,   \* initial worlds
  MaxFiles  \* limit of a capture

\* A path is one that os.path.normpath leaves alone; above the entrypoint are directories.
ASSUME PathsAssumption ==
  /\ \A p \in Paths :
       /\ p \in Seq(ToSet(p)) /\ p # <<>> /\ \A i \in DOMAIN p : p[i] \notin {".", ".."}
       /\ IsPrefix(p, Entry) => p = Entry
  /\ \A d \in {Holdir, Mount} : d \in Seq(ToSet(d))
ASSUME EntryAssumption == Entry \in Paths
ASSUME WorldsAssumption ==
  \A w \in Worlds :
    /\ {"lits", "content", "same", "root", "holdir", "overlay", "edits"} = DOMAIN w
    /\ w.content \in [Paths -> 0..3] /\ w.content[Entry] = 1
    /\ w.edits \in Nat
    /\ w.root = "marked" => Marked \in Seq(ToSet(Marked)) /\ IsPrefix(Marked, Front(Entry))
    /\ \A p \in Paths, v \in {1, 2} :
         /\ w.lits[p][v] \in Seq(ToSet(w.lits[p][v]))
         /\ \A l \in ToSet(w.lits[p][v]) : l \in Seq(ToSet(l)) /\ l # <<>>

VARIABLES
  world,   \* what the files say and which roots are configured
  content, \* version of every file
  edits,   \* edits that may still happen
  phase,
  root, queue, found, \* package root; files to scan for it, files found
  sha0,    \* digest of the entrypoint
  stack,   \* files being visited: frames [file, pkg, mounted, next]
  edge,    \* the import being recorded, or NoEdge
  records, seen, parsed, \* imports recorded, files visited, versions analysed
  failed,  \* limit_reasons, or a refusal
  snap,    \* contents when the capture ended
  out      \* staged or published package: package path -> file and bytes

capture == <<root, queue, found, sha0, stack, edge, records, seen, parsed, failed>>
vars == <<world, content, edits, phase, capture, snap, out>>

NoEdge == <<>>
Nowhere == <<>>
Dynamic == <<"?">>
Missing == "missing"

Exists(p) == p \in Paths /\ content[p] \in {1, 2}
Within(p, r) == IsPrefix(r, p)
Rel(p, r) == SubSeq(p, Len(r) + 1, Len(p))

\* os.path.normpath, and proof_run_normalized_source_dir in the child.
Tidied(done, part) ==
  IF part = "." THEN done
  ELSE IF part = ".." /\ done # <<>> /\ Last(done) # ".." THEN Front(done)
  ELSE Append(done, part)

Normal(s) ==
  LET upto[n \in 0..Len(s)] == IF n = 0 THEN <<>> ELSE Tidied(upto[n - 1], s[n])
  IN  upto[Len(s)]

Beside(p, lit) == Normal(Front(p) \o lit)
Absolute(lit) == Head(lit) = "/"
Dotted(lit) == Head(lit) \in {".", ".."}
SafeLiteral(lit) == \A i \in DOMAIN lit : lit[i] \notin {"/", ".", ".."}

Literals(p, v) == ToSet(world.lits[p][v]) \ {Dynamic}

-----------------------------------------------------------------------------
(* _resolve_edge: which file an import names, and under which contract.    *)

To(kind, p) == [kind |-> kind, path |-> p]

\* A path that both the worktree and HOLDIR may have: equal bytes are HOLDIR's.
FromTrees(rel) ==
  LET o == Overlay \o rel  h == Holdir \o rel
      inO == world.overlay /\ Exists(o)  inH == world.holdir /\ Exists(h)
  IN  IF inO /\ inH
      THEN IF rel \in world.same /\ content[o] = content[h]
           THEN To("holdir_source", h) ELSE To("source_overlay_conflict", o)
      ELSE IF inO THEN To("source_overlay", o)
      ELSE IF inH THEN To("holdir_source", h)
      ELSE To(Missing, Nowhere)

ResolveAbsolute(lit) ==
  IF world.holdir /\ Within(lit, Legacy) /\ Exists(Holdir \o Rel(lit, Legacy))
  THEN To("holdir_source", Holdir \o Rel(lit, Legacy))
  ELSE To("unresolved", Nowhere)

ResolveLogical(lit) ==
  IF Len(lit) = 1 \/ ~SafeLiteral(lit) THEN To("invalid_logical_source_path", Nowhere)
  ELSE IF Exists(Mount \o Tail(lit)) THEN To("mounted_source", Mount \o Tail(lit))
  ELSE To("unresolved_mounted_source", Nowhere)

\* The file next to the declaring one exists.
ResolveBeside(p, mounted) ==
  IF mounted /\ Within(p, Mount) THEN To("mounted_source", p)
  ELSE IF Within(p, root) THEN To("source_local", p)
  ELSE IF world.overlay /\ Within(p, Overlay) THEN FromTrees(Rel(p, Overlay))
  ELSE IF world.holdir /\ Within(p, Holdir) THEN FromTrees(Rel(p, Holdir))
  ELSE To("external_resolved", p)

\* It does not: the logical root, the package root (which owns the missing
\* files of its directories), the worktree and HOLDIR are asked in turn.
ResolveElsewhere(decl, lit, mounted) ==
  LET safe == SafeLiteral(lit)
      namespace == \E p \in Paths : Exists(p) /\ Within(p, Append(root, Head(lit)))
      lost == To(IF mounted THEN "unresolved_mounted_source" ELSE "unresolved", Nowhere)
  IN  IF ~safe THEN lost
      ELSE IF mounted /\ Exists(Mount \o lit) THEN To("mounted_source", Mount \o lit)
      ELSE IF Within(decl, root) /\ Exists(root \o lit) THEN To("source_local", root \o lit)
      ELSE IF Within(decl, root) /\ namespace THEN To("unresolved_source_root", Nowhere)
      ELSE IF world.holdir /\ FromTrees(lit).kind # Missing THEN FromTrees(lit)
      ELSE lost

Resolve(decl, lit, mounted) ==
  IF Absolute(lit) THEN ResolveAbsolute(lit)
  ELSE IF Head(lit) = Alias THEN ResolveLogical(lit)
  ELSE IF Exists(Beside(decl, lit)) THEN ResolveBeside(Beside(decl, lit), mounted)
  ELSE ResolveElsewhere(decl, lit, mounted)

Captured == {"source_local", "source_overlay", "holdir_source", "mounted_source"}

\* package_path: where the child will find the copy.
PackagePath(t, lit, declPkg) ==
  CASE t.kind = "source_local" -> Rel(t.path, root)
    [] t.kind = "mounted_source" -> <<"roots">> \o Rel(t.path, Mount)
    [] t.kind = "holdir_source" /\ Absolute(lit) -> <<"holdir">> \o Rel(t.path, Holdir)
    [] t.kind \in {"holdir_source", "source_overlay"} /\ ~Absolute(lit) -> Beside(declPkg, lit)
    [] OTHER -> Nowhere

\* resolution_base "source_package_root".
FromRoot(decl, lit, t) ==
  /\ t.kind = "source_local" /\ SafeLiteral(lit)
  /\ Beside(decl, lit) # t.path /\ root \o lit = t.path

-----------------------------------------------------------------------------
(* The package root: a marker or a repository, else the smallest directory *)
(* that holds the entrypoint and what relative imports reach from it.      *)

Init ==
  /\ world \in Worlds
  /\ content = world.content /\ edits = world.edits
  /\ phase = IF world.root = "marked" THEN "begin" ELSE "infer"
  /\ root = IF world.root = "marked" THEN Marked ELSE Front(Entry)
  /\ queue = <<Entry>> /\ found = {Entry}
  /\ sha0 = 0 /\ stack = <<>> /\ edge = NoEdge
  /\ records = <<>> /\ seen = {Entry}
  /\ parsed = [p \in Paths |-> 0]
  /\ failed = FALSE
  /\ snap = [p \in Paths |-> 0]
  /\ out = <<>>

\* Imports of a scanned file that exist next to it.
Siblings(p) ==
  IF ~Exists(p) THEN {}
  ELSE {q \in Paths : Exists(q) /\ \E l \in Literals(p, content[p]) :
                        ~Absolute(l) /\ q = Beside(p, l)}

InferRoot ==
  /\ phase = "infer" /\ queue # <<>>
  /\ LET new == Siblings(Last(queue)) \ found
     IN  /\ root' = LongestCommonPrefix({root} \cup {Front(q) : q \in new})
         /\ found' = found \cup new
         /\ queue' = Front(queue) \o SetToSeq(new)
  /\ UNCHANGED <<world, content, edits, phase, sha0, stack, edge, records, seen, parsed,
                 failed, snap, out>>

RootInferred ==
  /\ phase = "infer" /\ queue = <<>>
  /\ phase' = "begin"
  /\ UNCHANGED <<world, content, edits, capture, snap, out>>

-----------------------------------------------------------------------------
(* build_source_dependency_closure.                                        *)

\* The entrypoint is digested; then it is read again to be analysed.
Begin ==
  /\ phase = "begin" /\ Exists(Entry)
  /\ sha0' = content[Entry]
  /\ phase' = "entry"
  /\ UNCHANGED <<world, content, edits, root, queue, found, stack, edge, records, seen,
                 parsed, failed, snap, out>>

\* analyze, visit: a file is analysed once, at its first reading; one that
\* cannot be read, or that has a dynamic loader, spoils the closure.
Visit(p, pkg, mounted, below) ==
  LET v == IF parsed[p] # 0 THEN parsed[p] ELSE IF Exists(p) THEN content[p] ELSE 0
  IN  /\ parsed' = [parsed EXCEPT ![p] = v]
      /\ failed' = (failed \/ v = 0 \/ \E i \in DOMAIN world.lits[p][v] :
                                         world.lits[p][v][i] = Dynamic)
      /\ stack' = IF v = 0 THEN below
                  ELSE Append(below, [file |-> p, pkg |-> pkg, mounted |-> mounted, next |-> 1])

VisitEntry ==
  /\ phase = "entry"
  /\ Visit(Entry, Rel(Entry, root), FALSE, <<>>)
  /\ phase' = "capture"
  /\ UNCHANGED <<world, content, edits, root, queue, found, sha0, edge, records, seen,
                 snap, out>>

Top == Last(stack)
Text == world.lits[Top.file][parsed[Top.file]]
\* Imports of the visited file that are still to be recorded, the first of them next.
Ahead == {i \in DOMAIN Text : i >= Top.next /\ Text[i] # Dynamic}
Advanced == Append(Front(stack), [Top EXCEPT !.next = Min(Ahead) + 1])

ResolveEdge ==
  /\ phase = "capture" /\ edge = NoEdge /\ stack # <<>> /\ Ahead # {}
  /\ LET lit == Text[Min(Ahead)]
         t == Resolve(Top.file, lit, Top.mounted)
         r == [decl |-> Top.file, declPkg |-> Top.pkg, lit |-> lit, kind |-> t.kind,
               path |-> t.path, pkg |-> PackagePath(t, lit, Top.pkg), sha |-> 0,
               fromRoot |-> FromRoot(Top.file, lit, t), via |-> "not_followed"]
     IN  IF t.kind \in Captured
         THEN edge' = <<r>> /\ UNCHANGED records /\ stack' = stack
         ELSE records' = Append(records, r) /\ stack' = Advanced /\ UNCHANGED edge
  /\ UNCHANGED <<world, content, edits, phase, root, queue, found, sha0, seen, parsed,
                 failed, snap, out>>

\* read_regular_file_beneath; no digest when the file is gone by now.
DigestEdge ==
  /\ phase = "capture" /\ edge # NoEdge /\ edge[1].sha = 0 /\ edge[1].via = "not_followed"
  /\ LET there == Exists(edge[1].path)
     IN  edge' = <<[edge[1] EXCEPT !.sha = IF there THEN content[edge[1].path] ELSE 0,
                                   !.via = IF there THEN "digested" ELSE "unreadable"]>>
  /\ UNCHANGED <<world, content, edits, phase, root, queue, found, sha0, stack, records,
                 seen, parsed, failed, snap, out>>

Active == {stack[i].file : i \in DOMAIN stack}
How(r) ==
  CASE r.path \in Active -> "cycle"
    [] r.path \notin Active /\ r.path \in seen -> "already_seen"
    [] r.path \notin seen /\ r.via = "unreadable" -> "unreadable"
    [] OTHER -> "followed"

\* The limit on files raises: there is no closure.
TooManyFiles(r) == How(r) \in {"followed", "unreadable"} /\ Cardinality(seen) > MaxFiles

\* Fault: the imports of a mounted file are not followed.
FollowEdge_SkipsMounted ==
  /\ phase = "capture" /\ edge # NoEdge /\ edge[1].via # "not_followed"
  /\ ~TooManyFiles(edge[1])
  /\ LET r == [edge[1] EXCEPT !.via = How(edge[1])]
     IN  /\ records' = Append(records, r)
         /\ seen' = IF r.via = "followed" THEN seen \cup {r.path} ELSE seen
         /\ IF r.via = "followed" /\ r.kind # "mounted_source"
            THEN Visit(r.path, r.pkg, r.kind = "mounted_source", Advanced)
            ELSE /\ failed' = (failed \/ r.via = "unreadable")
                 /\ stack' = Advanced /\ UNCHANGED parsed
  /\ edge' = NoEdge
  /\ UNCHANGED <<world, content, edits, phase, root, queue, found, sha0, snap, out>>

FollowEdge ==
  /\ phase = "capture" /\ edge # NoEdge /\ edge[1].via # "not_followed"
  /\ ~TooManyFiles(edge[1])
  /\ LET r == [edge[1] EXCEPT !.via = How(edge[1])]
     IN  /\ records' = Append(records, r)
         /\ seen' = IF r.via = "followed" THEN seen \cup {r.path} ELSE seen
         /\ IF r.via = "followed"
            THEN Visit(r.path, r.pkg, r.kind = "mounted_source", Advanced)
            ELSE /\ failed' = (failed \/ r.via = "unreadable")
                 /\ stack' = Advanced /\ UNCHANGED parsed
  /\ edge' = NoEdge
  /\ UNCHANGED <<world, content, edits, phase, root, queue, found, sha0, snap, out>>

CaptureRaises ==
  /\ phase = "capture" /\ edge # NoEdge /\ edge[1].via # "not_followed"
  /\ TooManyFiles(edge[1])
  /\ failed' = TRUE /\ phase' = "refused"
  /\ UNCHANGED <<world, content, edits, root, queue, found, sha0, stack, edge, records,
                 seen, parsed, snap, out>>

Return ==
  /\ phase = "capture" /\ edge = NoEdge /\ stack # <<>> /\ Ahead = {}
  /\ stack' = Front(stack)
  /\ UNCHANGED <<world, content, edits, phase, root, queue, found, sha0, edge, records,
                 seen, parsed, failed, snap, out>>

CaptureEnds ==
  /\ phase = "capture" /\ edge = NoEdge /\ stack = <<>>
  /\ snap' = content
  /\ phase' = "transport"
  /\ UNCHANGED <<world, content, edits, capture, out>>

-----------------------------------------------------------------------------
(* dependency_transport_status, and the package.                           *)

Refusing(r) ==
  \/ r.kind \notin Captured \cup {"unresolved"}
  \/ r.kind = "unresolved" /\ (Absolute(r.lit) \/ Dotted(r.lit) \/ world.holdir)

Records == {records[i] : i \in DOMAIN records}
Mapped == {r \in Records : r.kind = "mounted_source"}

\* What the package copies, in order: the entrypoint, then the imports.
Inputs == {0} \cup {i \in DOMAIN records : records[i].kind \in Captured}
Input(i) ==
  IF i # 0 THEN records[i]
  ELSE [path |-> Entry, sha |-> sha0, pkg |-> Rel(Entry, root), kind |-> "entrypoint"]

\* A mapped literal must mean one packaged file; and a package path, one file
\* with one digest in one role.
Collision ==
  \/ \E r, s \in Mapped : r.lit = s.lit /\ r.pkg # s.pkg
  \/ \E i, j \in Inputs :
       /\ Input(i).pkg = Input(j).pkg
       /\ \/ Input(i).path # Input(j).path
          \/ Input(i).sha # Input(j).sha
          \/ Input(i).kind # Input(j).kind

Transport ==
  /\ phase = "transport"
  /\ phase' = IF failed \/ Collision \/ \E r \in Records : Refusing(r)
              THEN "refused" ELSE "package"
  /\ UNCHANGED <<world, content, edits, capture, snap, out>>

SafePackagePath(p) == p # <<>> /\ \A i \in DOMAIN p : p[i] \notin {".", ".."}

Staged == {out[i].pkg : i \in DOMAIN out}
Unstaged == {i \in Inputs : Input(i).pkg \notin Staged}

\* Fault: a copied file is not compared with its digest.
Fresh_Unchecked(item) == Exists(item.path)

Fresh(item) == Exists(item.path) /\ content[item.path] = item.sha

\* Every file is read again, compared with its digest, and written.
Stage ==
  /\ phase = "package" /\ Unstaged # {}
  /\ LET item == Input(Min(Unstaged))
     IN  /\ SafePackagePath(item.pkg) /\ Fresh(item)
         /\ out' = Append(out, [pkg |-> item.pkg, of |-> item.path,
                                bytes |-> content[item.path]])
  /\ UNCHANGED <<world, content, edits, phase, capture, snap>>

StageRefuses ==
  /\ phase = "package" /\ Unstaged # {}
  /\ LET item == Input(Min(Unstaged))
     IN  ~SafePackagePath(item.pkg) \/ ~Fresh(item)
  /\ out' = <<>>
  /\ phase' = "refused"
  /\ UNCHANGED <<world, content, edits, capture, snap>>

Publish ==
  /\ phase = "package" /\ Unstaged = {}
  /\ phase' = "published"
  /\ UNCHANGED <<world, content, edits, capture, snap, out>>

\* An editor, a checkout, a generator.
Edit(p) ==
  /\ edits > 0 /\ phase \notin {"published", "refused"}
  /\ content[p] < 3
  /\ content' = [content EXCEPT ![p] = @ + 1]
  /\ edits' = edits - 1
  /\ UNCHANGED <<world, phase, capture, snap, out>>

-----------------------------------------------------------------------------
Capturing ==
  InferRoot \/ RootInferred \/ Begin \/ VisitEntry \/ ResolveEdge \/ DigestEdge
    \/ FollowEdge \/ CaptureRaises \/ Return \/ CaptureEnds
Packaging == Transport \/ Stage \/ StageRefuses \/ Publish

Next == Capturing \/ Packaging \/ \E p \in Paths : Edit(p)

Spec == Init /\ [][Next]_vars

-----------------------------------------------------------------------------
(* What an import of the file packaged at declPkg loads in the child: the  *)
(* outermost wrapper maps literals of logical and legacy imports, the next *)
(* one those found from the package root, by directory; then the file next *)
(* to the loading one, if every directory on the way to it is there; and   *)
(* what is left goes to HOL's own load path.                               *)

\* What no package path begins with.
Outside == <<"..">>

\* The package path of the first record that a literal hits, or nowhere.
FirstPkg(hits) == IF hits = {} THEN Nowhere ELSE records[Min(hits)].pkg

MappedTo(lit) ==
  FirstPkg({i \in DOMAIN records :
              /\ records[i].lit = lit
              /\ \/ records[i].kind = "mounted_source"
                 \/ records[i].kind = "holdir_source" /\ Absolute(lit)})

\* Fault: the mapping is keyed by the literal alone.
FromRootTo_AnyDirectory(dir, lit) ==
  FirstPkg({i \in DOMAIN records : records[i].fromRoot /\ records[i].lit = lit})

FromRootTo(dir, lit) ==
  FirstPkg({i \in DOMAIN records :
              /\ records[i].fromRoot /\ records[i].lit = lit
              /\ Front(Rel(records[i].decl, root)) = dir})

\* Sys.file_exists: the system follows a path component by component, and goes up
\* from directories of the package only.
Folder(d) == \E q \in Staged : IsStrictPrefix(d, q)
FoundBeside(dir, lit) ==
  /\ Normal(dir \o lit) \in Staged
  /\ \A n \in DOMAIN lit : lit[n] = ".." => Folder(Normal(dir \o SubSeq(lit, 1, n - 1)))

Loads(declPkg, lit) ==
  LET dir == Front(declPkg)
  IN  IF MappedTo(lit) # Nowhere THEN MappedTo(lit)
      ELSE IF Absolute(lit) THEN Outside
      ELSE IF FromRootTo(dir, lit) # Nowhere THEN FromRootTo(dir, lit)
      ELSE IF FoundBeside(dir, lit) THEN Normal(dir \o lit)
      ELSE Outside

-----------------------------------------------------------------------------
(* Properties.                                                             *)

CapturedRecords == {r \in Records : r.kind \in Captured}

\* A package is a snapshot: its files all had their packaged bytes at one moment,
\* although they were read one by one, and twice, while they could be edited.
Snapshot == \A i \in DOMAIN out : out[i].bytes = snap[out[i].of]

\* A package is complete: every import that its very bytes contain was recorded, and
\* what it names is in the package, unless the profile is to supply it.
Complete ==
  \A i \in DOMAIN out : \A j \in DOMAIN world.lits[out[i].of][out[i].bytes] :
    \E r \in Records :
      /\ r.decl = out[i].of /\ r.lit = world.lits[out[i].of][out[i].bytes][j]
      /\ r.kind = "unresolved" \/ r.pkg \in Staged

\* What is published is a snapshot of the sources at one moment, and complete (the
\* digests of the capture, their comparison at the copy, the walk along the edges).
PackageTrue == phase = "published" => Snapshot /\ Complete

\* A literal that goes up before it goes down, so through no directory of its own.
UpFirst(lit) == \A m, n \in DOMAIN lit : m < n /\ lit[n] = ".." => lit[m] \in {".", ".."}

\* An import that is mapped or goes up first; and of a file of the root one that stands
\* in the package as it does there, and is found from the root, or next to that file on
\* a path that does not leave the root.
InPlace(r) ==
  /\ r.kind = "mounted_source" \/ UpFirst(r.lit)
  /\ r.kind = "source_local" =>
       /\ Within(r.decl, root) /\ r.declPkg = Rel(r.decl, root)
       /\ r.fromRoot \/ SafePackagePath(Beside(r.declPkg, r.lit))

\* A file that was captured for the same literal in the same directory.
Alike(r, s) == s.lit = r.lit /\ Front(s.decl) = Front(r.decl)

\* In the child a captured import is answered from the package, never by HOL's
\* load path; and in a closure of one tree with a file captured for that import there,
\* the very one if nothing was edited, siblings before files of the package root
\* (source_local_needs_prelude).
ImportsAnswered ==
  phase = "published" =>
    /\ \A r \in CapturedRecords : InPlace(r) => Loads(r.declPkg, r.lit) # Outside
    /\ (\A r \in Records : r.kind = "source_local") =>
         \A r \in Records : InPlace(r) =>
           /\ \E s \in Records : Alike(r, s) /\ Loads(r.declPkg, r.lit) = s.pkg
           /\ edits = world.edits => Loads(r.declPkg, r.lit) = r.pkg

\* "Route supported imports to their captured files": where nothing was edited, a
\* captured import that stands in place loads the file that was captured for it, and
\* not one that was captured for an import of the same literal elsewhere.
LoadsWhatWasCaptured ==
  phase = "published" /\ edits = world.edits =>
    \A r \in CapturedRecords : InPlace(r) => Loads(r.declPkg, r.lit) = r.pkg
=============================================================================

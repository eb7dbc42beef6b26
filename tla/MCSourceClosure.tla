--------------------------- MODULE MCSourceClosure ---------------------------
(***************************************************************************)
(* Small worlds for SourceClosure: an entrypoint in a subdirectory, six    *)
(* places for a file y (next to it, in a sibling directory, at the package *)
(* root, in the worktree, in HOLDIR and in a logical root), and files of   *)
(* the sibling directory, of HOLDIR and of the logical root that import y. *)
(***************************************************************************)
EXTENDS SourceClosure

CONSTANT MaxEdits  \* edits of a world that is edited

MCEntry == <<"o", "pkg", "sub", "e">>
MCMarked == <<"o", "pkg">>
MCOverlay == <<"o">>
MCHoldir == <<"h">>
MCLegacy == <<"/", "old">>
MCMount == <<"m">>

Beside_y == <<"o", "pkg", "sub", "y">>
Copies == {Beside_y, <<"o", "pkg", "lib", "y">>, <<"o", "pkg", "y">>, <<"o", "y">>,
           <<"h", "y">>, <<"m", "y">>}
Users == {<<"o", "pkg", "lib", "w">>, <<"h", "z">>, <<"m", "x">>}
MCPaths == {MCEntry} \cup Copies \cup Users

Imports == {<<"y">>, <<"z">>, <<"m", "x">>, <<"..", "lib", "w">>, <<"/", "old", "y">>, <<"q">>,
            <<"..", "..", "y">>, <<"..", "..", "pkg", "y">>, <<"t", "..", "y">>}

Lits(first, second) ==
  [p \in MCPaths |->
     CASE p = MCEntry -> <<first, <<<<"z">>>>>>
       [] p \in Users -> <<<<<<"y">>>>, second>>
       [] p \in Copies -> <<<<>>, <<<<"z">>>>>>]

Content(copies) == [p \in MCPaths |-> IF p \in Copies \ copies THEN 0 ELSE 1]

World(lits, copies, same, kind, holdir, overlay, edits_) ==
  [lits |-> lits, content |-> Content(copies), same |-> same, root |-> kind,
   holdir |-> holdir, overlay |-> overlay, edits |-> edits_]

\* Neither HOLDIR nor a worktree, HOLDIR, or both (whose copies may be equal).
Layouts ==
  {l \in [copies : SUBSET Copies, same : {{}, {<<"y">>}}, holdir : BOOLEAN, overlay : BOOLEAN] :
     /\ l.overlay => l.holdir
     /\ l.same # {} => l.overlay
     /\ <<"h", "y">> \in l.copies => l.holdir}

\* Every layout, without edits.
Still ==
  {World(Lits(e, <<>>), l.copies, l.same, kind, l.holdir, l.overlay, 0) :
     e \in {<<i, j>> : i \in Imports, j \in Imports} \cup {<<<<"?">>>>},
     l \in Layouts, kind \in {"marked", "inferred"}}

\* A few layouts, with edits.
Edited ==
  {World(Lits(e, second), copies, {<<"y">>}, kind, TRUE, overlay, MaxEdits) :
     e \in {<<<<"y">>, <<"z">>>>, <<<<"..", "lib", "w">>, <<"m", "x">>>>, <<<<"y">>, <<"y">>>>},
     second \in {<<>>, <<<<"?">>>>, <<<<"sub", "y">>>>},
     copies \in {{Beside_y}, Copies \ {Beside_y}}, kind \in {"marked", "inferred"},
     overlay \in BOOLEAN}

MCWorlds == Still \cup Edited
=============================================================================

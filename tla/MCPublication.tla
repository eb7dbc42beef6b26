---------------------------- MODULE MCPublication ----------------------------
(***************************************************************************)
(* What an evaluation is made of, and what it may say: the package of      *)
(* captured sources and the scan that says what each imports, the shelf    *)
(* that a build publishes and the warm route admits, the decision which    *)
(* imports of the package that shelf answers, and the evidence read from a *)
(* transcript.  They meet in files only (sources, closure, manifest and    *)
(* transcript, whose states each part has in its inputs), so each is run on*)
(* its own: `part` says which.                                             *)
(***************************************************************************)
EXTENDS MCSourceClosure, ShelfBuild, ProfileSatisfaction, Evidence, TLC

CONSTANTS b1, b2  \* two builds, of which b1 may fail

VARIABLES
  part,
  \* a source and its scan
  program, scans, scanned, at, means, reads, moved, final

scanVars == <<program, scans, scanned, at, means, reads, moved, final>>
sumVars == <<part, vars, buildVars, answerVars, attemptVars, scanVars>>

-----------------------------------------------------------------------------
(* Builds: "p" and its alias "a" have one base recipe, which loads lib, or *)
(* after an edit a file of that name in another directory.                 *)

MCBuilds == {b1, b2}
MCPlans == (b1 :> {<<"p", "a">>, <<"p", "p">>}) @@ (b2 :> {<<"a">>})
MCBase == ("p" :> "x") @@ ("a" :> "x")
MCLoadOrder == "x" :> <<<<"lib">>, <<"dir_lib">>>>
MCBasename == ("lib" :> "lib") @@ ("dir_lib" :> "lib")
MCInitially == ("lib" :> 1) @@ ("dir_lib" :> 2)
MCBundles == (b1 :> {"now"}) @@ (b2 :> {"now", "new"})

-----------------------------------------------------------------------------
(* Answers: an entrypoint imports y, y imports w and w imports q; the      *)
(* checkout may lack each, hold it with other text, or have a y elsewhere; *)
(* the profile directory and HOLDIR may have each, loaded by the basis.    *)

Needs(lit) == [loader |-> "needs", lit |-> lit]
Loadt(lit) == [loader |-> "loadt", lit |-> lit]
ToY == <<"lib", "y">>
ToW == <<"lib", "w">>
ToQ == <<"q">>
OtherY == <<"o", "y">>

\* 1 and 2 import nothing, 3 is y's text, 4 and 5 are w's, then the entrypoint's.
MCSays ==
  <<<<>>, <<>>, <<Loadt(ToW)>>, <<Needs(ToQ)>>, <<Loadt(ToQ)>>,
    <<Needs(ToY)>>, <<Needs(ToQ), Needs(ToY)>>, <<Needs(OtherY), Needs(ToW)>>,
    <<Needs(<<"/", "h", "q">>), Needs(ToY)>>, <<Needs(OtherY), Needs(ToQ)>>>>

MCAnswerEntry == <<"c", "e">>

MCAnswerPaths ==
  {<<"c", "e">>, <<"c">> \o OtherY, <<"h">> \o ToQ}
    \cup {<<top>> \o rel : top \in {"c", "p"}, rel \in {ToY, ToW, ToQ}}

AnswerFiles(e, cy, cw, cq, oy, pw, pq, hq) ==
  (<<"c", "e">> :> e) @@ (<<"c">> \o ToY :> cy) @@ (<<"c">> \o ToW :> cw)
    @@ (<<"c">> \o ToQ :> cq) @@ (<<"c">> \o OtherY :> oy)
    @@ (<<"p">> \o ToY :> 3) @@ (<<"p">> \o ToW :> pw) @@ (<<"p">> \o ToQ :> pq)
    @@ (<<"h">> \o ToQ :> hq)

\* What the basis loaded: all from y on, from w on, q alone, or none.
LoadedSets ==
  {{}} \cup
  {{q} \cup {<<"p">> \o rel : rel \in above} :
     q \in {<<"p">> \o ToQ, <<"h">> \o ToQ}, above \in {{}, {ToW}, {ToY, ToW}}}

AnswerWorld(tree_, loaded, hol, budget_) ==
  [disk |-> tree_, loaded |-> loaded, holdir |-> hol, edits |-> budget_]

AnswerStill ==
  {AnswerWorld(AnswerFiles(e, cy, cw, cq, oy, pw, pq, hq), loaded, hol, 0) :
     e \in 6..9, cy \in {0, 3}, cw \in {0, 4, 5}, cq \in {0, 1}, oy \in {0, 3},
     pw \in {4, 5}, pq \in 0..2, hq \in {0, 1}, loaded \in LoadedSets, hol \in BOOLEAN}

AnswerEdited ==
  {AnswerWorld(AnswerFiles(e, 3, cw, cq, oy, 4, pq, 1), loaded, hol, 1) :
     e \in {6, 9, 10}, cw \in {0, 4}, cq \in {0, 1}, oy \in {0, 3}, pq \in {0, 1},
     loaded \in LoadedSets, hol \in BOOLEAN}

\* The basis loaded what is there.  A file that only the profile directory has is
\* never imported below what the basis took from HOLDIR (see the README).
MCAnswerWorlds ==
  {w \in AnswerStill \cup AnswerEdited :
     /\ \A p \in w.loaded : w.disk[p] # 0
     /\ w.holdir \/ ~{<<"h">> \o ToQ, <<"p">> \o ToW} \subseteq w.loaded}

-----------------------------------------------------------------------------
(* Evidence: an entrypoint that proves a, or a and b, alone, after or before*)
(* it loads a file that proves b, binds a again or adds an axiom; or that is*)
(* forked from a basis prepared from such a file.                          *)

AttemptWorld(entry, dep, prep, bound) ==
  [entry |-> entry, dep |-> dep, prep |-> prep, prepare |-> prep # <<>>, calls |-> bound]

ProvesA == Do("bind", "a")
LoadsFile == Do("include", "")

MCAttempts ==
  {AttemptWorld(<<ProvesA>>, <<>>, <<>>, 3),
   AttemptWorld(<<ProvesA, Do("bind", "b")>>, <<>>, <<>>, 2),
   AttemptWorld(<<Do("derive", "a")>>, <<>>, <<>>, 2)}
  \cup {AttemptWorld(entry, <<dep>>, <<>>, 2) :
          entry \in {<<LoadsFile, ProvesA>>, <<ProvesA, LoadsFile>>},
          dep \in {Do("bind", "b"), Do("rebind", "a"), Do("axiom", "")}}
  \cup {AttemptWorld(<<ProvesA>>, <<dep>>, <<LoadsFile>>, 1) :
          dep \in {Do("bind", "b"), Do("axiom", "")}}

-----------------------------------------------------------------------------
(* Scans, of the sources of MCLoaderScan.                                  *)

Texts == INSTANCE MCLoaderScan
TextPrograms == Texts!MCPrograms
TextGlobals == Texts!MCGlobals

Scan == INSTANCE LoaderScan WITH
  Programs <- TextPrograms, Globals <- TextGlobals,
  phase <- scanned, loaded <- reads

ASSUME PublicationAssumption ==
  AttemptAssumption /\ Scan!ConstantsAssumption /\ OneMeaning /\ FromProfile

-----------------------------------------------------------------------------
\* The parts that do not run.
NoCapture ==
  /\ world = 0 /\ content = 0 /\ edits = 0 /\ phase = "none" /\ root = 0 /\ queue = 0
  /\ found = 0 /\ sha0 = 0 /\ stack = 0 /\ edge = 0 /\ records = 0 /\ seen = 0
  /\ parsed = 0 /\ failed = 0 /\ snap = 0 /\ out = 0
NoBuild ==
  /\ disk = 0 /\ recipe = 0 /\ changes = 0 /\ build = 0 /\ proc = 0 /\ shelf = <<>>
  /\ route = [pc |-> "none"]
NoAnswer ==
  /\ tree = 0 /\ budget = 0 /\ basis = 0 /\ holdir = 0 /\ imports = 0 /\ document = 0
  /\ step = "none" /\ mem = 0 /\ loads = 0 /\ skipped = {}
NoAttempt ==
  /\ attempt = 0 /\ stage = 0 /\ axioms = 0 /\ baseline = 0 /\ files = 0 /\ calls = 0
  /\ ready = 0 /\ exc = 0 /\ frame = 0 /\ count = 0 /\ events = 0 /\ value = 0
  /\ ended = 0 /\ printed = 0 /\ turn = "none" /\ transport = 0 /\ torn = 0 /\ known = 0
NoScan ==
  /\ program = 0 /\ scans = <<>> /\ scanned = "none" /\ at = 0 /\ means = 0 /\ reads = {}
  /\ moved = FALSE /\ final = 0

PublicationInit ==
  \/ part = "package" /\ Init /\ NoBuild /\ NoAnswer /\ NoAttempt /\ NoScan
  \/ part = "build" /\ NoCapture /\ BuildInit /\ NoAnswer /\ NoAttempt /\ NoScan
  \/ part = "answer" /\ NoCapture /\ NoBuild /\ AnswerInit /\ NoAttempt /\ NoScan
  \/ part = "evidence" /\ NoCapture /\ NoBuild /\ NoAnswer /\ AttemptInit /\ NoScan
  \/ part = "scan" /\ NoCapture /\ NoBuild /\ NoAnswer /\ NoAttempt /\ Scan!Init

PublicationNext ==
  \/ part = "package" /\ Next /\ UNCHANGED <<part, buildVars, answerVars, attemptVars, scanVars>>
  \/ part = "build" /\ BuildNext /\ UNCHANGED <<part, vars, answerVars, attemptVars, scanVars>>
  \/ part = "answer" /\ AnswerNext /\ UNCHANGED <<part, vars, buildVars, attemptVars, scanVars>>
  \/ part = "evidence" /\ AttemptNext /\ UNCHANGED <<part, vars, buildVars, answerVars, scanVars>>
  \/ part = "scan" /\ Scan!Next
     /\ UNCHANGED <<part, vars, buildVars, answerVars, attemptVars>>

PublicationSpec == PublicationInit /\ [][PublicationNext]_sumVars

-----------------------------------------------------------------------------
\* What the scanner says of the files that it accepts, their loads, their changes of
\* directory and their theorems, is what evaluating them does (scan_ocaml_loaders,
\* source_may_change_cwd, scan_claim_binding_starts, scan_prove_bindings).
ScanTold == Scan!ScanTold
=============================================================================

----------------------------- MODULE WatchLoop -----------------------------
(***************************************************************************)
(* `hearth watch`: a loop that polls the revision of a source and of what  *)
(* it imports, and runs `prove` once per stable revision.  The replay is a *)
(* process of its own: it pins the source, reads it, captures the closure, *)
(* compares the closure with the disk while it packages it, evaluates, and *)
(* leaves a receipt, or refuses on the way with a receipt or without.      *)
(* Files are edited beside both.                                           *)
(*                                                                         *)
(* A source and one import stand for the closure; a content is a number, 0 *)
(* a missing file.  A revision is what its digest is made of.  With a      *)
(* --basis, the newest receipt may be that of the basis's preparation.     *)
(* Left out: the progress lines and CHANGED, which nothing reads.          *)
(***************************************************************************)
EXTENDS Naturals

CONSTANTS
  MaxContent,    \* contents a file may have
  MaxEdits,      \* bound on edits
  Based,         \* TRUE with --basis
  EditInCapture  \* TRUE when the source may change between its read and its capture

ConstantsAssumption ==
  /\ MaxContent \in Nat \ {0} /\ MaxEdits \in Nat
  /\ Based \in BOOLEAN /\ EditInCapture \in BOOLEAN

VARIABLES
  src, dep, \* contents on disk
  edits,
  loop,     \* the watcher: control point, source it read, revision, and its locals
  replay,   \* the process it owns
  receipt,  \* the newest receipt below the run root; newer than the replay's launch?
  told      \* the watcher's last word on a finished replay

vars == <<src, dep, edits, loop, replay, receipt, told>>

NoRevision == <<>>
\* project_revision: without a source the refusal is digested.
Revision(source, import) == IF source = 0 THEN <<0, 0>> ELSE <<source, import>>
BasisRevision == <<0, 1>>

NoReplay ==
  [st |-> "none", read |-> 0, cap |-> NoRevision, ran |-> NoRevision, status |-> 0]
NoWord == [accepted |-> FALSE, of |-> NoRevision, ran |-> NoRevision]

Init ==
  /\ src \in 0..MaxContent /\ dep \in 0..MaxContent /\ edits = 0
  /\ loop = [pc |-> "poll", read |-> 0, rev |-> NoRevision, last |-> NoRevision,
             pending |-> NoRevision, launched |-> NoRevision]
  /\ replay = NoReplay
  /\ receipt = [new |-> FALSE, leaf |-> FALSE, of |-> NoRevision]
  /\ told = NoWord

-----------------------------------------------------------------------------
(* The watcher.                                                            *)

\* project_revision digests the source, then what it imports.
PollSource ==
  /\ loop.pc = "poll"
  /\ loop' = [loop EXCEPT !.pc = "imports", !.read = src]
  /\ UNCHANGED <<src, dep, edits, replay, receipt, told>>

PollImports ==
  /\ loop.pc = "imports"
  /\ loop' = [loop EXCEPT !.pc = "decide", !.rev = Revision(loop.read, dep)]
  /\ UNCHANGED <<src, dep, edits, replay, receipt, told>>

\* Fault: what the watcher asked for counts, not what the replay captured.
Answered_Launched == loop.launched

\* Fault: the newest receipt is believed, whatever source it is of.
Answered_AnySource ==
  IF receipt.new /\ receipt.of # NoRevision THEN receipt.of ELSE loop.launched

\* What the finished replay was of: its own receipt says, if it names inputs.
Answered ==
  IF receipt.new /\ receipt.leaf /\ receipt.of # NoRevision
  THEN receipt.of ELSE loop.launched

\* The replay is running: the next poll.
KeepWaiting ==
  /\ loop.pc = "decide" /\ replay.st \notin {"none", "ended"}
  /\ loop' = [loop EXCEPT !.pc = "poll"]
  /\ UNCHANGED <<src, dep, edits, replay, receipt, told>>

\* CURRENT: accepted, or another word.
Report ==
  /\ loop.pc = "decide" /\ replay.st = "ended"
  /\ told' = IF loop.rev = Answered /\ replay.status = 0
             THEN [accepted |-> TRUE, of |-> loop.rev, ran |-> replay.ran] ELSE NoWord
  /\ loop' = [loop EXCEPT !.pc = "poll", !.last = Answered, !.pending = NoRevision]
  /\ replay' = [NoReplay EXCEPT !.cap = replay.cap]
  /\ UNCHANGED <<src, dep, edits, receipt>>

\* Nothing new, or seen for the first time.
Settle ==
  /\ loop.pc = "decide" /\ replay.st = "none"
  /\ loop.rev = loop.last \/ loop.rev # loop.pending
  /\ loop' = [loop EXCEPT !.pc = "poll",
                          !.pending = IF loop.rev = loop.last THEN @ ELSE loop.rev]
  /\ UNCHANGED <<src, dep, edits, replay, receipt, told>>

\* A revision polled twice in a row is checked.
Launch ==
  /\ loop.pc = "decide" /\ replay.st = "none"
  /\ loop.rev # loop.last /\ loop.rev = loop.pending
  /\ loop' = [loop EXCEPT !.pc = "poll", !.launched = loop.rev]
  /\ replay' = [NoReplay EXCEPT !.st = "started"]
  /\ receipt' = [receipt EXCEPT !.new = FALSE]
  /\ UNCHANGED <<src, dep, edits, told>>

\* KeyboardInterrupt: SIGINT to the replay if it runs, and wait for its end.
Interrupt ==
  /\ loop.pc \notin {"stopping", "stopped"}
  /\ loop' = [loop EXCEPT !.pc = "stopping"]
  /\ UNCHANGED <<src, dep, edits, replay, receipt, told>>

Stopped ==
  /\ loop.pc = "stopping" /\ replay.st \in {"none", "ended"}
  /\ loop' = [loop EXCEPT !.pc = "stopped"]
  /\ UNCHANGED <<src, dep, edits, replay, receipt, told>>

-----------------------------------------------------------------------------
(* The replay.                                                             *)

Ends(status, cap, ran) ==
  replay' = [replay EXCEPT !.st = "ended", !.status = status, !.cap = cap, !.ran = ran]
Records(leaf, of) == receipt' = [new |-> TRUE, leaf |-> leaf, of |-> of]

\* No receipt: no source, no profile, a preparation that stopped before recording,
\* no capacity, or a signal.
EndsUnrecorded ==
  /\ replay.st \notin {"none", "ended"}
  /\ \/ replay.st \in {"started", "based", "packaged"}
     \/ src = 0 /\ replay.st = "prepared"
     \/ src = 0 /\ replay.st \in {"pinned", "read"} /\ ~Based
     \/ loop.pc = "stopping"
  /\ Ends(1, replay.cap, NoRevision) /\ UNCHANGED receipt
  /\ UNCHANGED <<src, dep, edits, loop, told>>

\* _settled_source_sha256.
Pin ==
  /\ replay.st = "started" /\ src # 0
  /\ replay' = [replay EXCEPT !.st = "pinned", !.read = src]
  /\ UNCHANGED <<src, dep, edits, loop, receipt, told>>

\* With a basis the leaf is captured for its admission; record_refusal names what
\* was captured when the rest cannot be read.
BasisCapture ==
  /\ Based /\ replay.st = "pinned"
  /\ \/ src # 0 /\ replay' = [replay EXCEPT !.st = "based", !.cap = <<src, dep>>]
        /\ UNCHANGED receipt
     \/ Records(TRUE, NoRevision) /\ Ends(2, NoRevision, NoRevision)
  /\ UNCHANGED <<src, dep, edits, loop, told>>

\* The basis is reused or prepared, with a receipt of its own, or it is refused with
\* a receipt of the leaf, or its preparation fails.
BasisReplay ==
  /\ replay.st = "based"
  /\ \/ replay' = [replay EXCEPT !.st = "prepared"]
        /\ (UNCHANGED receipt \/ Records(FALSE, BasisRevision))
     \/ Records(FALSE, BasisRevision) /\ Ends(1, replay.cap, NoRevision)
     \/ Records(TRUE, replay.cap) /\ Ends(2, replay.cap, NoRevision)
  /\ UNCHANGED <<src, dep, edits, loop, told>>

\* The bytes to evaluate; not the pinned ones, or not to be instrumented, are
\* refused with a receipt that names no closure.
Read ==
  /\ replay.st = (IF Based THEN "prepared" ELSE "pinned") /\ src # 0
  /\ \/ src = replay.read
        /\ replay' = [replay EXCEPT !.st = "read"] /\ UNCHANGED receipt
     \/ Records(TRUE, NoRevision) /\ Ends(2, NoRevision, NoRevision)
  /\ UNCHANGED <<src, dep, edits, loop, told>>

\* capture_source_dependency_closure reads the source again; without it only
\* record_refusal records.
Capture ==
  /\ replay.st = "read"
  /\ \/ src # 0 /\ replay' = [replay EXCEPT !.st = "captured", !.cap = <<src, dep>>]
        /\ UNCHANGED receipt
     \/ src = 0 /\ Based /\ Records(TRUE, replay.cap) /\ Ends(2, replay.cap, NoRevision)
  /\ UNCHANGED <<src, dep, edits, loop, told>>

\* materialize_dependency_package: every file is there with the captured bytes; the
\* entrypoint is then written from the bytes read before.  Or the closure is refused.
Package ==
  /\ replay.st = "captured"
  /\ \/ replay.cap = <<src, dep>> /\ dep # 0
        /\ replay' = [replay EXCEPT !.st = "packaged"] /\ UNCHANGED receipt
     \/ Records(TRUE, replay.cap) /\ Ends(2, replay.cap, NoRevision)
  /\ UNCHANGED <<src, dep, edits, loop, told>>

\* The child runs the package, and the receipt names the closure; status 1 stands
\* for every verdict but a pass, a refusal at the last look at the profile among them.
Evaluate ==
  /\ replay.st = "packaged"
  /\ \E status \in 0..1 : Ends(status, replay.cap, <<replay.read, replay.cap[2]>>)
  /\ Records(TRUE, replay.cap)
  /\ UNCHANGED <<src, dep, edits, loop, told>>

-----------------------------------------------------------------------------
\* Somebody edits, removes or writes a file.
Edit ==
  /\ edits < MaxEdits /\ edits' = edits + 1
  /\ \/ /\ EditInCapture \/ replay.st # "read"
        /\ src' \in (0..MaxContent) \ {src} /\ UNCHANGED dep
     \/ dep' \in (0..MaxContent) \ {dep} /\ UNCHANGED src
  /\ UNCHANGED <<loop, replay, receipt, told>>

Watcher ==
  PollSource \/ PollImports \/ KeepWaiting \/ Report \/ Settle \/ Launch \/ Stopped
Replay ==
  \/ EndsUnrecorded \/ Pin \/ BasisCapture \/ BasisReplay
  \/ Read \/ Capture \/ Package \/ Evaluate

Next == Watcher \/ Replay \/ Interrupt \/ Edit

Spec == Init /\ [][Next]_vars

\* The loop polls on and the replay runs to its end, by its timeout if not before.
FairSpec == Spec /\ WF_vars(Watcher) /\ WF_vars(Replay)

-----------------------------------------------------------------------------
(* Properties.                                                             *)

\* "Edits during evaluation mark that result stale and schedule another check":
\* a result called current and accepted is of the inputs that were evaluated.
CurrentTrue == told.accepted => told.ran = told.of

\* "Records each stable revision": when the edits are over and nobody stops the
\* loop, it comes to rest; its last replay was asked for the inputs that are on
\* disk, or captured them, and if it calls them accepted it evaluated them.
AtRest ==
  \/ loop.pc = "stopped"
  \/ /\ replay.st = "none" /\ loop.last = Revision(src, dep)
     /\ loop.last \in {loop.launched, replay.cap}
     /\ told.accepted => told.ran = Revision(src, dep)
EditsChecked == <>[]AtRest
=============================================================================

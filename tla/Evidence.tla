------------------------------ MODULE Evidence ------------------------------
(***************************************************************************)
(* What a proof attempt is allowed to say.  A forked child loads the       *)
(* instrumented source: the wrapped `prove`, the source, a probe of every  *)
(* claim, and the completion marker; its wrapper then prints how many      *)
(* axioms were added.  The transcript ends where the child ends, or where  *)
(* a deadline, an interrupt or a crash cuts it, also inside a record.  From*)
(* the transcript alone the reader decides whether the source passed,      *)
(* which binding failed and which was running.  A first attempt may        *)
(* prepare a project basis: its last phrase forks the process that later   *)
(* attempts are forked from.                                               *)
(*                                                                         *)
(* A transcript is a sequence of records, each a line or a frame's begin   *)
(* or end; no other text imitates them (they carry the attempt's nonce).   *)
(* The attempt's statements are values: a binding holds its quoted theorem,*)
(* "quoted", or another one, "other".  An exception is its rendered text.  *)
(* Left out: goals, tactic steps and their lines inside a frame, the call  *)
(* number's limit of 2^62, receipts of the first activity protocol.        *)
(***************************************************************************)
EXTENDS Naturals, Sequences, FiniteSets, SequencesExt

CONSTANTS
  Attempts,  \* [entry, dep, prep: phrases; prepare: whether a basis is prepared;
             \*  calls: the bound of the calls of prove in one attempt]
  Names,     \* theorem names
  Errors,    \* exceptions a tactic or a phrase raises
  MaxDepth,  \* MAX_ACTIVITY_DEPTH
  MaxEvents, \* MAX_EVENTS
  CutsInName \* whether a cut may fall within the literal name of a record, where
             \* the reader of the activity does not see it

VARIABLES
  attempt,
  stage,    \* "prepare" or "leaf"
  axioms,   \* axioms added since the profile was restored
  baseline, \* axioms when the wrapper captured the registries
  files,    \* files being loaded, innermost last
  calls,    \* calls of prove that run, innermost last
  ready,    \* the theorem of the phrase's own call has been returned
  exc,      \* exception on its way, or "none"
  frame,    \* diagnostic record to come
  count, events,
  value,    \* what each name is bound to
  ended,    \* phrases whose exception was not caught
  printed, turn, transport,
  torn,  \* where the last record is cut: "no", or in its "name", "nonce" or "rest"
  known

loadVars == <<files, calls, ready, exc, frame, count, events, value, ended>>
readVars == <<transport, torn, known>>
attemptVars == <<attempt, stage, axioms, baseline, loadVars, printed, turn, readVars>>

Nothing == "none"
NoFrame == [at |-> Nothing]
Do(kind, name) == [do |-> kind, name |-> name]

\* The theorems that the static scan finds in the entrypoint.
Scanned(source) ==
  LET upTo[i \in 0..Len(source)] ==
        IF i = 0 THEN <<>>
        ELSE IF source[i].do \in {"bind", "derive"} THEN Append(upTo[i - 1], source[i])
        ELSE upTo[i - 1]
  IN  upTo[Len(source)]

PhraseNames == Names \cup {""}
PhraseKinds == {"bind", "derive", "rebind", "axiom", "include"}
LastKinds == {"probe", "finish", "fork"}
Phrases == [do : PhraseKinds \cup LastKinds, name : PhraseNames]

\* Two theorems of one name are refused (_validated_claims).
AttemptAssumption ==
  /\ MaxDepth \in Nat \ {0} /\ MaxEvents \in Nat \ {0}
  /\ CutsInName \in BOOLEAN /\ {"none", "unbound"} \cap Errors = {}
  /\ \A a \in Attempts :
       /\ a.prepare \in BOOLEAN /\ a.calls \in Nat
       /\ {a.entry, a.dep, a.prep} \subseteq Seq([do : PhraseKinds, name : PhraseNames])
       /\ \A source \in {a.entry, a.prep} : \A i, j \in DOMAIN Scanned(source) :
            Scanned(source)[i].name = Scanned(source)[j].name => i = j

Source == IF stage = "prepare" THEN attempt.prep ELSE attempt.entry
Claims == ToSet(Scanned(Source))

\* build_claim_probe, and the postlude that forks the basis.
Payload(source, fork) ==
  source \o ([i \in DOMAIN Scanned(source) |-> Do("probe", Scanned(source)[i].name)]
              \o <<Do("finish", "")>> \o (IF fork THEN <<Do("fork", "")>> ELSE <<>>))

Loading(source, fork) ==
  /\ files = <<[of |-> "entry", todo |-> Payload(source, fork)]>>
  /\ calls = <<>> /\ ready = FALSE /\ exc = Nothing /\ frame = NoFrame
  /\ count = 0 /\ events = 0 /\ value = [n \in Names |-> Nothing] /\ ended = <<>>
  /\ printed = <<>> /\ turn = "load" /\ transport = Nothing /\ torn = "no" /\ known = FALSE

AttemptInit ==
  /\ attempt \in Attempts
  /\ stage = IF attempt.prepare THEN "prepare" ELSE "leaf"
  /\ axioms = 0 /\ baseline = 0
  /\ Loading(Source, attempt.prepare)

-----------------------------------------------------------------------------
(* The child.                                                              *)

Prints(r) == printed' = Append(printed, r)
Rec(kind) == [k |-> kind]
File == Last(files)
Phrase == Head(File.todo)
InLoad == turn = "load" /\ files # <<>> /\ frame = NoFrame
AtPhrase(kinds) ==
  InLoad /\ exc = Nothing /\ calls = <<>> /\ File.todo # <<>> /\ Phrase.do \in kinds
AfterPhrase == Append(Front(files), [of |-> File.of, todo |-> Tail(File.todo)])
Advance == files' = AfterPhrase
SameAttempt == UNCHANGED <<attempt, stage, baseline, turn, readVars>>
NoCall == UNCHANGED <<calls, frame, count, events>>

\* The toplevel prints what a phrase bound.
Bound(name, what) ==
  /\ value' = IF name \in Names THEN [value EXCEPT ![name] = what] ELSE value
  /\ Prints([k |-> "val", name |-> name])
  /\ Advance /\ ready' = FALSE /\ exc' = Nothing

\* A phrase without prove, or the theorem that prove has returned.
Evaluates ==
  /\ \/ AtPhrase({"bind"}) /\ ready /\ Bound(Phrase.name, "quoted")
     \/ AtPhrase({"derive", "rebind", "axiom"}) /\ Bound(Phrase.name, "other")
  /\ axioms' = IF Phrase.do = "axiom" THEN axioms + 1 ELSE axioms
  /\ NoCall /\ UNCHANGED ended /\ SameAttempt

Include ==
  /\ AtPhrase({"include"})
  /\ files' = Append(AfterPhrase, [of |-> "dep", todo |-> attempt.dep])
  /\ NoCall /\ UNCHANGED <<axioms, ready, exc, value, ended, printed>> /\ SameAttempt

FileEnds ==
  /\ InLoad /\ exc = Nothing /\ calls = <<>> /\ File.todo = <<>>
  /\ files' = Front(files)
  /\ NoCall /\ UNCHANGED <<axioms, ready, exc, value, ended, printed>> /\ SameAttempt

\* The probe compares what is bound now, and the last phrases.
Probe ==
  /\ AtPhrase({"probe"}) /\ value[Phrase.name] # Nothing
  /\ LET c == CHOOSE c \in Claims : c.name = Phrase.name
     IN  Prints([k |-> IF c.do = "derive" \/ value[c.name] = "quoted" THEN "ok" ELSE "mismatch",
                 name |-> c.name])
  /\ Advance /\ NoCall /\ UNCHANGED <<axioms, ready, exc, value, ended>> /\ SameAttempt

Finish ==
  /\ AtPhrase({"finish"}) /\ Prints(Rec("done"))
  /\ Advance /\ NoCall /\ UNCHANGED <<axioms, ready, exc, value, ended>> /\ SameAttempt

\* The basis takes the state of this moment.
ForkBasis ==
  /\ AtPhrase({"fork"})
  /\ Advance /\ NoCall /\ UNCHANGED <<axioms, ready, exc, value, ended, printed>> /\ SameAttempt

\* A name that is not bound, or whatever else a phrase raises.
PhraseRaises ==
  /\ AtPhrase({"bind", "derive", "include", "fork", "probe"})
  /\ \E e \in Errors \cup {"unbound"} :
       /\ IF Phrase.do = "probe" THEN e = "unbound" /\ value[Phrase.name] = Nothing ELSE e \in Errors
       /\ exc' = e
  /\ NoCall /\ UNCHANGED <<axioms, files, ready, value, ended, printed>> /\ SameAttempt

-----------------------------------------------------------------------------
(* The wrapped prove.                                                      *)

\* Named frames of the call stack; a nested call may be too deep to show them.
Locations == IF calls = <<>> THEN {{<<File.of, Phrase.name>>}} ELSE {{}, Last(calls).loc}

\* enter: numbered, recorded down to the bound, the first below it as overflow.
Enter ==
  /\ \/ AtPhrase({"bind"}) /\ ~ready
     \/ InLoad /\ exc = Nothing /\ calls # <<>>
  /\ count < attempt.calls
  /\ count' = count + 1
  /\ \E loc \in Locations :
       /\ calls' = Append(calls, [no |-> count', loc |-> loc])
       /\ printed' = IF Len(calls') <= MaxDepth
                 THEN Append(printed, [k |-> "enter", no |-> count', loc |-> loc])
                 ELSE IF Len(calls') = MaxDepth + 1
                 THEN Append(printed, [k |-> "overflow", no |-> count']) ELSE printed
  /\ UNCHANGED <<axioms, files, ready, exc, frame, events, value, ended>> /\ SameAttempt

\* leave: LEAVE, or RESUME with the last number used.
Leave ==
  /\ calls' = Front(calls)
  /\ printed' = IF Len(calls) <= MaxDepth THEN Append(printed, [k |-> "leave", no |-> Last(calls).no])
            ELSE IF Len(calls) = MaxDepth + 1
            THEN Append(printed, [k |-> "resume", no |-> Last(calls).no, last |-> count]) ELSE printed

Returns ==
  /\ InLoad /\ exc = Nothing /\ calls # <<>>
  /\ Leave /\ ready' = (Len(calls) = 1)
  /\ UNCHANGED <<axioms, files, exc, frame, count, events, value, ended>> /\ SameAttempt

\* The tactic raises, or leaves goals, or lets a nested failure through.
ProveFails ==
  /\ InLoad /\ calls # <<>>
  /\ \E e \in Errors : exc \in {Nothing, e} /\ exc' = e
  /\ Leave
  /\ frame' = IF events <= MaxEvents THEN [at |-> "begin", loc |-> Last(calls).loc] ELSE NoFrame
  /\ UNCHANGED <<axioms, files, ready, count, events, value, ended>> /\ SameAttempt

\* emit: BEGIN and END of one frame, or once that there are no more.
Emit ==
  /\ turn = "load" /\ frame # NoFrame
  /\ \/ /\ frame.at = "begin" /\ events = MaxEvents
        /\ Prints(Rec("truncated")) /\ frame' = NoFrame /\ events' = events + 1
     \/ /\ frame.at = "begin" /\ events < MaxEvents
        /\ Prints([k |-> "begin", exc |-> exc, loc |-> frame.loc])
        /\ frame' = [frame EXCEPT !.at = "end"] /\ events' = events + 1
     \/ /\ frame.at = "end"
        /\ Prints(Rec("end")) /\ frame' = NoFrame /\ UNCHANGED events
  /\ UNCHANGED <<axioms, files, calls, ready, exc, count, value, ended>> /\ SameAttempt

-----------------------------------------------------------------------------
(* An exception on its way.                                                *)

Raising == InLoad /\ exc # Nothing

\* The enclosing tactic tries something else.
TacticCatches ==
  /\ Raising /\ calls # <<>> /\ exc' = Nothing
  /\ NoCall /\ UNCHANGED <<axioms, files, ready, value, ended, printed>> /\ SameAttempt

\* The phrase binds a fallback, or raises another exception in its place.
PhraseCatches ==
  /\ Raising /\ calls = <<>> /\ Phrase.do = "bind"
  /\ \/ Bound(Phrase.name, "other") /\ UNCHANGED ended
     \/ /\ \E e \in Errors \ {exc} : exc' = e
        /\ UNCHANGED <<files, ready, value, ended, printed>>
  /\ NoCall /\ UNCHANGED axioms /\ SameAttempt

\* HOL's time reports the exception it passes on.
Times ==
  /\ Raising /\ calls = <<>> /\ printed # <<>> /\ Last(printed).k = "end"
  /\ Prints([k |-> "timing", exc |-> exc])
  /\ NoCall /\ UNCHANGED <<axioms, files, ready, exc, value, ended>> /\ SameAttempt

\* Nobody catches it: the toplevel prints it and leaves the file; use_file says so
\* and returns, so that the file that included it goes on.
Uncaught ==
  /\ Raising /\ calls = <<>>
  /\ printed' = printed \o <<[k |-> "exn", exc |-> exc], Rec("included")>>
  /\ ended' = Append(ended, [of |-> File.of, phrase |-> Phrase])
  /\ files' = Front(files)
  /\ exc' = Nothing /\ ready' = FALSE
  /\ NoCall /\ UNCHANGED <<axioms, value>> /\ SameAttempt

-----------------------------------------------------------------------------
(* The wrapper's end, and the reader's transcript.                         *)

Delta ==
  /\ turn = "load" /\ files = <<>> /\ turn' = "delta"
  /\ Prints([k |-> "delta", axioms |-> axioms - baseline])
  /\ UNCHANGED <<attempt, stage, axioms, baseline, loadVars, readVars>>

Token ==
  /\ turn = "delta" /\ turn' = "exited"
  /\ Prints(Rec("token"))
  /\ UNCHANGED <<attempt, stage, axioms, baseline, loadVars, readVars>>

Read(how, cut) ==
  /\ turn' = "read" /\ transport' = how /\ torn' = cut /\ known' \in BOOLEAN
  /\ UNCHANGED <<attempt, stage, axioms, baseline, loadVars, printed>>

\* The final event came, the child is gone, and the sentinel was seen.
Completes == turn = "exited" /\ Read("completed", "no")

FrameKinds == {"begin", "end", "truncated"}
ActivityKinds == {"enter", "leave", "overflow", "resume"}

\* Where the last record may be cut; for a line that is compared as a whole it
\* makes no difference.
CutPoints ==
  IF printed = <<>> THEN {"no"}
  ELSE IF Last(printed).k \notin FrameKinds \cup ActivityKinds THEN {"no", "rest"}
  ELSE {"no", "nonce", "rest"} \cup (IF CutsInName THEN {"name"} ELSE {})

\* A deadline, an interrupt, a child that dies, a cleanup that is not verified:
\* the last record may be there in part.
Cut ==
  /\ turn \in {"load", "delta", "exited"}
  /\ \E how \in {"timeout", "interrupted", "prompt_lost", "lifecycle_error"}, cut \in CutPoints :
       (how = "prompt_lost" => turn # "exited") /\ Read(how, cut)

-----------------------------------------------------------------------------
(* What the reader makes of it.                                            *)

Whole == IF torn = "no" THEN printed ELSE Front(printed)
Count(r) == Cardinality({i \in DOMAIN Whole : Whole[i] = r})
CutIn(kinds, places) == torn \in places /\ Last(printed).k \in kinds

\* account_claims: one marker, and none of the other kind.
Status(c) ==
  LET ok == Count([k |-> "ok", name |-> c.name])
      mismatch == Count([k |-> "mismatch", name |-> c.name])
  IN  IF ok = 1 /\ mismatch = 0 THEN "proved"
      ELSE IF ok + mismatch > 0 THEN "failed" ELSE "missing"

\* Fault: the completion marker is taken for the whole source.
SourceCompleted_MarkerOnly == transport = "completed" /\ Count(Rec("done")) = 1

SourceCompleted ==
  transport = "completed" /\ Count(Rec("done")) = 1 /\ Count(Rec("included")) = 0

ClaimsComplete == \A c \in Claims : Status(c) = "proved"
SemanticSuccess == SourceCompleted /\ ClaimsComplete

\* The worker's exit status is zero only for a completed transport.
ExitStatus ==
  IF transport = "completed" THEN 0
  ELSE IF transport = "timeout" THEN 124 ELSE IF transport = "prompt_lost" THEN 125 ELSE 126

Verdict ==
  IF transport \in {"timeout", "interrupted"} THEN "incomplete"
  ELSE IF SemanticSuccess /\ ExitStatus = 0 THEN "passed" ELSE "failed"

\* account_foundation_delta: exactly one marker (one cut in its last number would
\* count too, with the same axioms).
Deltas == {i \in DOMAIN Whole : Whole[i].k = "delta"}
FoundationObserved == Cardinality(Deltas) = 1 /\ ~CutIn({"delta"}, {"rest"})
NewAxioms == Whole[CHOOSE i \in Deltas : TRUE].axioms

Recommendation ==
  IF FoundationObserved /\ NewAxioms > 0 THEN "block"
  ELSE IF FoundationObserved /\ SemanticSuccess /\ ExitStatus = 0 THEN "no_foundation_objection"
  ELSE "manual_review"

\* first_error.
Failures == {i \in DOMAIN Whole : Whole[i].k = "exn"}
FirstFailure ==
  IF Failures = {} THEN 0 ELSE CHOOSE i \in Failures : \A j \in Failures : i <= j

-----------------------------------------------------------------------------
(* Diagnostics: frames, the last of which may explain the failure.         *)

NoFrames == [open |-> 0, events |-> <<>>, truncated |-> FALSE, bad |-> FALSE]

FrameStep(s, k, i) ==
  CASE k = "begin" -> [s EXCEPT !.open = i, !.bad = s.bad \/ s.open # 0 \/ s.truncated]
    [] k = "end" -> [s EXCEPT !.open = 0,
                              !.events = Append(s.events, [begin |-> s.open, end |-> i]),
                              !.bad = s.bad \/ s.open = 0 \/ s.truncated]
    [] k = "truncated" -> [s EXCEPT !.truncated = TRUE,
                                    !.bad = s.bad \/ s.open # 0 \/ Len(s.events) # MaxEvents]
    [] OTHER -> s

\* account_proof_diagnostics, line by line.
Frames(lines) ==
  LET upTo[i \in 0..Len(lines)] ==
        IF i = 0 THEN NoFrames ELSE FrameStep(upTo[i - 1], lines[i].k, i)
  IN  upTo

Diagnostics == Frames(Whole)[Len(Whole)]

\* A record cut before the end of its nonce is not taken for one.
DiagnosticsRecorded ==
  Diagnostics.open = 0 /\ ~Diagnostics.bad /\ ~CutIn(FrameKinds, {"rest"})

\* _following_exception_line: the matching exception follows, at most after the
\* report of time with the same exception.
Following(event) ==
  LET e == Whole[event.begin].exc  at == event.end + 1
      Is(i, kind) == i \in DOMAIN Whole /\ Whole[i] = [k |-> kind, exc |-> e]
  IN  IF Is(at, "exn") THEN at
      ELSE IF Is(at, "timing") /\ Is(at + 1, "exn") THEN at + 1 ELSE 0

\* _binding_at_locations: one candidate in a source whose bytes are known.
BindingAt(loc, dependencies) ==
  LET candidates ==
        {b \in loc : \/ b[1] = "entry" /\ Do("bind", b[2]) \in Claims
                     \/ b[1] = "dep" /\ dependencies}
  IN  IF Cardinality(candidates) = 1 THEN candidates ELSE {}

FailingBinding ==
  IF SourceCompleted \/ ~DiagnosticsRecorded \/ Diagnostics.truncated \/ Diagnostics.events = <<>> THEN {}
  ELSE LET event == Last(Diagnostics.events)
       IN  IF FirstFailure # 0 /\ Following(event) = FirstFailure
           THEN BindingAt(Whole[event.begin].loc, FALSE) ELSE {}

-----------------------------------------------------------------------------
(* Activity: calls that were entered and not left.                         *)

Quiet == [active |-> <<>>, entered |-> 0, overflow |-> 0, bad |-> FALSE]

ActivityStep(s, r) ==
  CASE r.k = "enter" ->
         [s EXCEPT !.active = Append(s.active, r), !.entered = r.no,
                   !.bad = s.bad \/ s.overflow # 0 \/ r.no # s.entered + 1
                             \/ Len(s.active) >= MaxDepth]
    [] r.k = "leave" ->
         IF s.active = <<>> \/ Last(s.active).no # r.no \/ s.overflow # 0
         THEN [s EXCEPT !.bad = TRUE] ELSE [s EXCEPT !.active = Front(s.active)]
    [] r.k = "overflow" ->
         [s EXCEPT !.overflow = r.no, !.entered = r.no,
                   !.bad = s.bad \/ s.overflow # 0 \/ Len(s.active) # MaxDepth
                             \/ r.no # s.entered + 1]
    [] r.k = "resume" ->
         [s EXCEPT !.overflow = 0, !.entered = r.last, !.bad = s.bad \/ s.overflow # r.no]
    [] OTHER -> s

\* account_proof_activity, line by line.
Activities(lines) ==
  LET upTo[i \in 0..Len(lines)] ==
        IF i = 0 THEN Quiet ELSE ActivityStep(upTo[i - 1], lines[i])
  IN  upTo

Activity == Activities(Whole)[Len(Whole)]

\* Fault: a record that is there in part is passed over.
ActivityRecorded_Torn == ~Activity.bad /\ Activity.overflow = 0

\* No record in part, none out of order, none suppressed at this moment.
ActivityRecorded ==
  ~Activity.bad /\ Activity.overflow = 0 /\ ~CutIn(ActivityKinds, {"nonce", "rest"})

RunningCall ==
  IF ~SourceCompleted /\ transport \in {"timeout", "interrupted"} /\ ActivityRecorded
    THEN Activity.active ELSE <<>>

RunningBinding == IF RunningCall = <<>> THEN {} ELSE BindingAt(Last(RunningCall).loc, known)

-----------------------------------------------------------------------------
\* adopt_basis after a preparation that passed with an observed zero delta: the
\* leaf's child starts from the state that the last phrase forked.
Adopt ==
  /\ turn = "read" /\ stage = "prepare"
  /\ Verdict = "passed" /\ FoundationObserved /\ NewAxioms = 0
  /\ stage' = "leaf" /\ baseline' = axioms
  /\ files' = <<[of |-> "entry", todo |-> Payload(attempt.entry, FALSE)]>>
  /\ calls' = <<>> /\ ready' = FALSE /\ exc' = Nothing /\ frame' = NoFrame
  /\ count' = 0 /\ events' = 0 /\ value' = [n \in Names |-> Nothing] /\ ended' = <<>>
  /\ printed' = <<>> /\ turn' = "load" /\ transport' = Nothing /\ torn' = "no" /\ known' = FALSE
  /\ UNCHANGED <<attempt, axioms>>

AttemptNext ==
  \/ Evaluates \/ Include \/ FileEnds \/ Probe \/ Finish \/ ForkBasis \/ PhraseRaises
  \/ Enter \/ Returns \/ ProveFails \/ Emit
  \/ TacticCatches \/ PhraseCatches \/ Times \/ Uncaught
  \/ Delta \/ Token \/ Completes \/ Cut \/ Adopt

AttemptSpec == AttemptInit /\ [][AttemptNext]_attemptVars

-----------------------------------------------------------------------------
(* Properties, of every transcript that is read.                           *)

\* A passed source was evaluated to its end, files it includes too, with every
\* quoted claim bound to what it quotes at the end; and where the advisory has no
\* objection, nothing since the restored profile added an axiom, the preparation
\* of the basis included.
PassedMeansProved ==
  turn = "read" /\ Verdict = "passed" =>
    /\ files = <<>> /\ ended = <<>>
    /\ \A c \in Claims : c.do = "bind" => value[c.name] = "quoted"
    /\ Recommendation = "no_foundation_objection" => axioms = 0

\* The call named as running is the innermost one that runs, in the phrase of the
\* binding named; and a binding named as failing is the phrase whose exception
\* ended the entrypoint, with no file having failed before it.
AttributionTrue ==
  turn = "read" =>
    /\ RunningBinding # {} =>
         /\ calls # <<>> /\ Last(calls).no = Last(RunningCall).no
         /\ RunningBinding = {<<File.of, Phrase.name>>}
    /\ \A b \in FailingBinding : ended # <<>> /\ ended[1] = [of |-> "entry", phrase |-> Do("bind", b[2])]
=============================================================================

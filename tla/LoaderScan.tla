----------------------------- MODULE LoaderScan -----------------------------
(***************************************************************************)
(* What a source is said to load, against what it loads.  The scanner turns*)
(* the text of a file into tokens, or refuses it, and classifies each loader*)
(* name: a call with a literal path, which is captured, or anything else,  *)
(* which refuses the file.  Files that pass are evaluated phrase by phrase:*)
(* a binding may make another name stand for a loader, and a loader may be *)
(* reached below the wrappers that answer an import from the package.      *)
(*                                                                         *)
(* A file is a sequence of phrases, each its text, a sequence of lexemes   *)
(* (words and marks; Line ends a line), and what it does when HOL evaluates*)
(* it.  The text in a comment, a quotation or a string does nothing.       *)
(* Left out: the limits on size, tokens and nesting, encodings.            *)
(***************************************************************************)
EXTENDS Naturals, Sequences, FiniteSets, SequencesExt, TLC

CONSTANTS
  Programs, \* sequences of files, the entrypoint last
  Globals   \* what the names mean before: function of names to meanings

ConstantsAssumption ==
  \A files \in Programs : \A i \in DOMAIN files : \A k \in DOMAIN files[i] :
    {"text", "does"} = DOMAIN files[i][k]

VARIABLES
  program, \* the files
  scans,   \* what the scanner said of each, so far
  phase, at, \* evaluation; the next phrase: file and place in it
  means,   \* what each name means now
  loaded,  \* loads: <<by which loader, path>>
  moved,   \* the working directory was changed
  final    \* what names are bound to at the top level: term of a theorem, or ""

scanVars == <<program, scans, phase, at, means, loaded, moved, final>>

Line == "\n"
Quote == "\""
Term == "hol"  \* the backquote around a term
Nul == "\\0"

Source == {"needs", "#use"}
Artifact == {"define_from_elf", "define_assert_from_elf"}

-----------------------------------------------------------------------------
(* Lexemes to tokens.                                                      *)

Token(kind, value) == [kind |-> kind, value |-> value]
Refusal == <<Token("REFUSED", "")>>
Nowhere == 0

\* After the first x from i on.
After(t, i, x) ==
  LET hits == {j \in i..Len(t) : t[j] = x}
  IN  IF hits = {} THEN Nowhere ELSE Min(hits) + 1

\* After a string whose text begins at i; a backslash hides what follows it.
RECURSIVE StringEnd(_, _)
StringEnd(t, i) ==
  IF i > Len(t) THEN Nowhere
  ELSE IF t[i] = Quote THEN i + 1
  ELSE StringEnd(t, i + IF t[i] = "\\" THEN 2 ELSE 1)

\* _decode_escape: the letter y by its decimal, hexadecimal, octal and Unicode code,
\* NUL, and codes that are short, exceed a byte or are no scalar value, which refuse
\* the file.  Any other escape is a text that names no file here.
Escapes == [code \in {"121", "x79", "o171", "u{79}"} |-> "y"] @@ ("000" :> Nul)
BadEscapes == {"999", "12", "o471", "u{d800}", "u79"}
BadEscape(s) == \E j \in 2..Len(s) : s[j - 1] = "\\" /\ s[j] \in BadEscapes
Decoded(s) ==
  IF Len(s) = 1 THEN s[1]
  ELSE IF Len(s) = 2 /\ s[1] = "\\" /\ s[2] \in DOMAIN Escapes THEN Escapes[s[2]]
  ELSE "text"

\* Quoted strings and quoted extensions, by delimiter.
Closer == ("{|" :> "|}") @@ ("{x|" :> "|x}") @@ ("{%x|" :> "|x}")

\* After a comment; strings and quoted strings in it are skipped whole, and an
\* apostrophe shields the character after it, or a whole comment end.
RECURSIVE CommentEnd(_, _, _)
CommentEnd(t, i, depth) ==
  IF i = Nowhere \/ i > Len(t) THEN Nowhere
  ELSE CASE t[i] = "'" -> CommentEnd(t, i + 2, depth)
         [] t[i] = "(*" -> CommentEnd(t, i + 1, depth + 1)
         [] t[i] = "*)" -> IF depth = 1 THEN i + 1 ELSE CommentEnd(t, i + 1, depth - 1)
         [] t[i] = Quote -> CommentEnd(t, StringEnd(t, i + 1), depth)
         [] t[i] \in DOMAIN Closer -> CommentEnd(t, After(t, i + 1, Closer[t[i]]), depth)
         [] OTHER -> CommentEnd(t, i + 1, depth)

\* A numbered line, whose rest names a source and is skipped.
LineDirective(t, i) ==
  (i = 1 \/ t[i - 1] = Line) /\ i < Len(t) /\ t[i + 1] = "1"
LineDirectiveEnd(t, i) ==
  LET name == After(t, i + 3, Quote)
  IN  IF i + 2 > Len(t) \/ t[i + 2] # Quote \/ name = Nowhere THEN Nowhere
      ELSE After(t, name, Line)

\* After a character between apostrophes, or else a type variable.
CharOrTypevarEnd(t, i) ==
  IF i < Len(t) /\ t[i + 1] = "\\"
  THEN IF i + 3 <= Len(t) /\ t[i + 3] = "'" THEN i + 4 ELSE Nowhere
  ELSE IF i + 2 <= Len(t) /\ t[i + 1] # "'" /\ t[i + 2] = "'" THEN i + 3 ELSE i + 2

Marks == {"(", ")", "[", "]", "{", "}", ";;", ";", ","}
Operators == {".", "#", "=", "->", "|", "^", "|>", "&&", ":", "!"}
Word(x, kind) == Token(IF x \in Source \cup Artifact THEN "LOADER" ELSE kind, x)

RECURSIVE Tokens(_, _)
Tokens(t, i) ==
  LET Till(end, tokens) == IF end = Nowhere THEN Refusal ELSE tokens \o Tokens(t, end)
      x == t[i]
  IN
  IF i > Len(t) THEN <<>>
  ELSE CASE x = Line -> Till(i + 1, <<>>)
         [] x = "#" /\ LineDirective(t, i) -> Till(LineDirectiveEnd(t, i), <<>>)
         [] x = "(*" -> Till(CommentEnd(t, i + 1, 1), <<>>)
         [] x = Quote ->
              LET end == StringEnd(t, i + 1)
                  text == SubSeq(t, i + 1, end - 2)
              IN  IF end = Nowhere \/ BadEscape(text) THEN Refusal
                  ELSE Till(end, <<Token("STRING", Decoded(text))>>)
         [] x \in DOMAIN Closer ->
              Till(After(t, i + 1, Closer[x]),
                   <<IF x = "{%x|" THEN Token("OPAQUE", "")
                     ELSE Token("STRING", IF t[i + 2] = Closer[x] THEN t[i + 1] ELSE "text")>>)
         [] x = "'" ->
              LET end == CharOrTypevarEnd(t, i)
              IN  Till(end, <<Token(IF end = i + 2 THEN "TYPEVAR" ELSE "CHAR", "")>>)
         [] x = Term -> Till(After(t, i + 1, Term), <<Token("HOL", t[i + 1])>>)
         [] x = "\\#" -> Till(i + 2, <<Word(t[i + 1], "RAW_IDENT")>>)
         [] x \in Marks -> Till(i + 1, <<Token(x, x)>>)
         [] x \in Operators -> Till(i + 1, <<Token("OP", x)>>)
         [] x = "1" -> Till(i + 1, <<Token("ATOM", x)>>)
         [] OTHER -> Till(i + 1, <<Word(x, "IDENT")>>)

Close == ("(" :> ")") @@ ("[" :> "]") @@ ("{" :> "}")
Opens(token) == token.kind \in DOMAIN Close
Closes(token) == token.kind \in {")", "]", "}"}
Depth(ts, i, k) ==
  LET within == i..k
  IN  Cardinality({j \in within : Opens(ts[j])}) - Cardinality({j \in within : Closes(ts[j])})

\* Delimiters match, and no phrase ends inside one.
Delimited(ts) ==
  LET Step(open, token) ==
        IF open # <<>> /\ Head(open) = "broken" THEN open
        ELSE IF Opens(token) THEN <<Close[token.kind]>> \o open
        ELSE IF Closes(token) /\ open # <<>> /\ Head(open) = token.kind THEN Tail(open)
        ELSE IF Closes(token) \/ (token.kind = ";;" /\ open # <<>>) THEN <<"broken">>
        ELSE open
  IN  FoldLeft(Step, <<>>, ts) = <<>>

Accepted(ts) == (\A i \in DOMAIN ts : ts[i].kind # "REFUSED") /\ Delimited(ts)

-----------------------------------------------------------------------------
(* Tokens to occurrences.                                                  *)

Kind(ts, i) == IF i \in DOMAIN ts THEN ts[i].kind ELSE "NONE"
Is(ts, i, kind, values) == Kind(ts, i) = kind /\ ts[i].value \in values
IsName(ts, i) == Kind(ts, i) \in {"IDENT", "RAW_IDENT"}

DirectBinding(ts, i) ==
  \/ Is(ts, i - 1, "IDENT", {"and", "let"})
  \/ Is(ts, i - 1, "IDENT", {"rec"}) /\ Is(ts, i - 2, "IDENT", {"and", "let"})

QualifiedOrHashPrefixed(ts, i) ==
  \/ Is(ts, i - 1, "OP", {".", "#"})
  \/ Kind(ts, i - 1) = "(" /\ Is(ts, i - 2, "OP", {"."})

\* Inside the parentheses of a local open, M.( ... ).
LocallyOpened_Never(ts, i) == FALSE
LocallyOpened(ts, i) ==
  \E j \in 2..(i - 1) :
    /\ Kind(ts, j) = "(" /\ Is(ts, j - 1, "OP", {"."})
    /\ \A k \in j..i : Depth(ts, j, k) > 0

CallPosition(ts, i) ==
  \/ i = 1
  \/ Kind(ts, i - 1) = ";;"
  \/ /\ ts[i].value # "#use"
     /\ \/ Kind(ts, i - 1) \in {";", ",", "(", "[", "{"}
        \/ Is(ts, i - 1, "OP", {"=", "->", "|", "&&"})
        \/ Is(ts, i - 1, "IDENT", {"begin", "do", "else", "if", "in", "match", "struct",
                                   "then", "try", "with"})

\* A string literal at i, in any parentheses, and where it ends.
NoArgument == [value |-> "", next |-> Nowhere]
StringArgument(ts, i) ==
  LET fits == {n \in 0..Len(ts) :
                 /\ Kind(ts, i + n) = "STRING"
                 /\ \A k \in 0..(n - 1) : Kind(ts, i + k) = "(" /\ Kind(ts, i + n + 1 + k) = ")"}
  IN  IF i = Nowhere \/ fits = {} THEN NoArgument
      ELSE LET n == CHOOSE m \in fits : TRUE
           IN  [value |-> ts[i + n].value, next |-> i + 2 * n + 1]

Boundary(ts, i) ==
  \/ Kind(ts, i) \in {"NONE", ";;", ";", ",", ")", "]", "}"}
  \/ Is(ts, i, "IDENT", {"and", "do", "done", "else", "end", "in", "then", "with"})
  \/ Is(ts, i, "OP", {"|"})

\* After the one expression that starts at i: a name with its members, or what
\* delimiters enclose.
ExpressionEnd(ts, i) ==
  IF \/ Kind(ts, i) \notin {"ATOM", "CHAR", "HOL", "IDENT", "LOADER", "OPAQUE", "RAW_IDENT",
                            "STRING", "(", "[", "{"}
     \/ Is(ts, i, "IDENT", {"and", "begin", "do", "else", "end", "fun", "if", "in", "let",
                            "match", "then", "try", "with"})
  THEN Nowhere
  ELSE IF Opens(ts[i]) THEN Min({k \in i..Len(ts) : Depth(ts, i, k) = 0}) + 1
  ELSE i + 1 + 2 * Max({n \in 0..Len(ts) : \A k \in 1..n :
                          /\ Is(ts, i + 2 * k - 1, "OP", {"."})
                          /\ Kind(ts, i + 2 * k) \in {"IDENT", "LOADER", "RAW_IDENT"}})

SourceArgument(ts, i) == StringArgument(ts, i + 1)
SourceCall(ts, i) ==
  LET path == SourceArgument(ts, i)
  IN  path.next # Nowhere /\ path.value # Nul /\ Boundary(ts, path.next)

ArtifactArgument(ts, i) == StringArgument(ts, StringArgument(ts, i + 1).next)
ArtifactCall(ts, i) ==
  LET path == ArtifactArgument(ts, i)
      last == IF ts[i].value = "define_from_elf" THEN path.next
              ELSE ExpressionEnd(ts, path.next)
  IN  /\ path.next # Nowhere /\ Nul \notin {StringArgument(ts, i + 1).value, path.value}
      /\ last # Nowhere /\ Boundary(ts, last)

Free(ts, i) == ~DirectBinding(ts, i) /\ ~QualifiedOrHashPrefixed(ts, i) /\ ~LocallyOpened(ts, i)

\* After it, the name is no longer known to be the loader.
Taints(ts, i) ==
  \/ DirectBinding(ts, i)
  \/ /\ Free(ts, i)
     /\ \/ ~CallPosition(ts, i)
        \/ ts[i].value \in Source /\ ~SourceCall(ts, i)

Literal(ts, i) ==
  /\ Free(ts, i) /\ CallPosition(ts, i)
  /\ ~\E j \in 1..(i - 1) :
        Kind(ts, j) = "LOADER" /\ ts[j].value = ts[i].value /\ Taints(ts, j)
  /\ IF ts[i].value \in Source THEN SourceCall(ts, i) ELSE ArtifactCall(ts, i)

\* Files may be loaded, and the directory changed, below the wrappers: any use of
\* these modules but a member of another name, these globals, and directives.
Members ==
  ("Hol_loader" :> {"file_loader", "use_file", "load_on_path"})
    @@ ("Toploop" :> {"use_file", "use_silently"}) @@ ("Sys" :> {"chdir"})

UncapturedExecution(ts, i) ==
  /\ IsName(ts, i)
  /\ LET name == ts[i].value
         plain == /\ Is(ts, i + 1, "OP", {"."}) /\ IsName(ts, i + 2)
                  /\ ts[i + 2].value \notin DOMAIN Members
     IN  IF name \in DOMAIN Members THEN plain => ts[i + 2].value \in Members[name]
         ELSE \/ name \in {"mod_use", "cd"} /\ Is(ts, i - 1, "OP", {"#"})
              \/ name \in Members["Hol_loader"]

LoaderAt(ts) == {i \in DOMAIN ts : ts[i].kind = "LOADER"}

Dynamic(ts) ==
  \/ \E i \in LoaderAt(ts) :
       ~Literal(ts, i) /\ ~(DirectBinding(ts, i) /\ ts[i].value \in Artifact)
  \/ \E i \in DOMAIN ts : UncapturedExecution(ts, i)

Literals(ts) ==
  {<<ts[i].value, IF ts[i].value \in Source THEN SourceArgument(ts, i).value
                  ELSE ArtifactArgument(ts, i).value>> :
     i \in {j \in LoaderAt(ts) : Literal(ts, j)}}

\* source_may_change_cwd
MayChangeCwd(ts) == \E i \in DOMAIN ts : Is(ts, i, "IDENT", {"chdir", "fchdir", "external"})

-----------------------------------------------------------------------------
(* Tokens to theorems.                                                     *)

Blocks == {"begin", "struct", "sig", "object"}

\* Phrases that end outside any block; none when the blocks do not match.
TopLevelPhrases(ts) ==
  LET Step(s, token) ==
        LET blocks == IF Is(<<token>>, 1, "IDENT", Blocks) THEN s.blocks + 1
                      ELSE IF Is(<<token>>, 1, "IDENT", {"end"}) THEN s.blocks - 1 ELSE s.blocks
            phrase == Append(s.phrase, token)
        IN  IF s.blocks < 0 THEN s
            ELSE IF token.kind = ";;" /\ blocks = 0
            THEN [done |-> Append(s.done, phrase), phrase |-> <<>>, blocks |-> 0]
            ELSE [done |-> s.done, phrase |-> phrase, blocks |-> blocks]
      all == FoldLeft(Step, [done |-> <<>>, phrase |-> <<>>, blocks |-> 0], ts)
  IN  IF all.blocks = 0 THEN all.done ELSE <<>>

SimpleLet(p) ==
  Is(p, 1, "IDENT", {"let"}) /\ Kind(p, 2) = "IDENT" /\ Is(p, 3, "OP", {"="})

BlocksOpen(p, k) ==
  Cardinality({j \in 4..k : Is(p, j, "IDENT", Blocks)})
    - Cardinality({j \in 4..k : Is(p, j, "IDENT", {"end"})})

\* No let, in or and outside delimiters and blocks: not a local expression.
Standalone(p) ==
  \A k \in 4..Len(p) :
    Is(p, k, "IDENT", {"let", "in", "and"}) => Depth(p, 4, k) > 0 \/ BlocksOpen(p, k) > 0

\* scan_claim_binding_starts
ClaimBindings(ts) ==
  {p[2].value : p \in {q \in ToSet(TopLevelPhrases(ts)) :
                         Len(q) >= 5 /\ SimpleLet(q) /\ Standalone(q)}}

\* How many headers, from let or and to the equals sign, name it.
HeaderCount(ts, name) ==
  Cardinality({i \in DOMAIN ts :
    /\ Is(ts, i, "IDENT", {"let", "and"})
    /\ \E k \in (i + 1)..Len(ts) :
         /\ Is(ts, k, "IDENT", {name})
         /\ \E e \in (k + 1)..Len(ts) : Is(ts, e, "OP", {"="}) \/ Kind(ts, e) = ";;"
         /\ \A m \in (i + 1)..k :
              ~(\/ Is(ts, m, "OP", {"="}) \/ Kind(ts, m) = ";;"
                \/ Is(ts, m, "IDENT", {"let", "and"}))})

\* let NAME = prove(`...`, tactic);; where the tuple has two fields and ends it.
ProvePhrase(p) ==
  LET i == IF Is(p, 4, "IDENT", {"time"}) THEN 5 ELSE 4
      close == {k \in (i + 1)..Len(p) : Depth(p, i + 1, k) = 0}
  IN  /\ Len(p) >= 10 /\ SimpleLet(p)
      /\ Is(p, i, "IDENT", {"prove"})
      /\ Kind(p, i + 1) = "(" /\ Kind(p, i + 2) = "HOL" /\ Kind(p, i + 3) = ","
      /\ Min(close) = Len(p) - 1 /\ Len(p) - 1 > i + 4
      /\ \A k \in (i + 4)..(Len(p) - 2) : p[k].kind = "," => Depth(p, i + 4, k) > 0

\* scan_prove_bindings: name and goal.
ProveBindings(ts) ==
  {<<p[2].value, SelectSeq(p, LAMBDA token : token.kind = "HOL")[1].value>> : p \in {q \in ToSet(TopLevelPhrases(ts)) :
                         ProvePhrase(q) /\ HeaderCount(ts, q[2].value) = 1}}

-----------------------------------------------------------------------------
(* scan_ocaml_loaders, of each file in turn.                               *)

Text(file) == FlattenSeq([k \in DOMAIN file |-> Append(file[k].text, Line)])

Unscanned == [ok |-> FALSE, literals |-> {}, cwd |-> TRUE, claims |-> {}, rows |-> {}]

ScanOf(ts) ==
  IF ~Accepted(ts) \/ Dynamic(ts) THEN Unscanned
  ELSE [ok |-> TRUE, literals |-> Literals(ts), cwd |-> MayChangeCwd(ts),
        claims |-> ClaimBindings(ts), rows |-> ProveBindings(ts)]

Init ==
  /\ program \in Programs /\ scans = <<>> /\ phase = "scan" /\ at = <<1, 1>>
  /\ means = Globals /\ loaded = {} /\ moved = FALSE /\ final = <<>>

\* A file that is refused, or has a dynamic load, stops the capture.
Scan ==
  /\ phase = "scan"
  /\ LET scan == ScanOf(Tokens(Text(program[Len(scans) + 1]), 1))
     IN  /\ scans' = Append(scans, scan)
         /\ phase' = IF ~scan.ok THEN "refused"
                     ELSE IF Len(scans') = Len(program) THEN "run" ELSE "scan"
  /\ UNCHANGED <<program, at, means, loaded, moved, final>>

-----------------------------------------------------------------------------
(* HOL evaluates the phrases.  A deed is one of: call a name with a path,  *)
(* make a name mean what another means or something new, bind a name at    *)
(* the top level.                                                          *)

Phrase == program[at[1]][at[2]]
Rest == IF at[2] < Len(program[at[1]]) THEN <<at[1], at[2] + 1>> ELSE <<at[1] + 1, 1>>

Perform(s, deed) ==
  CASE deed[1] = "call" ->
         LET f == IF deed[2] \in DOMAIN s.means THEN s.means[deed[2]] ELSE "none"
         IN  CASE f = "none" -> [s EXCEPT !.raised = TRUE]
               [] f = "chdir" -> [s EXCEPT !.moved = TRUE]
               [] f = "inert" -> s
               [] OTHER -> [s EXCEPT !.loaded = @ \cup {<<f, deed[3]>>}]
    [] deed[1] = "let" -> [s EXCEPT !.means = (deed[2] :> deed[3]) @@ @]
    [] deed[1] = "same" ->
         IF deed[3] \in DOMAIN s.means
         THEN [s EXCEPT !.means = (deed[2] :> s.means[deed[3]]) @@ @]
         ELSE [s EXCEPT !.raised = TRUE]
    [] deed[1] = "bind" -> [s EXCEPT !.final = (deed[2] :> deed[3]) @@ @]

\* Its deeds, up to one that raises; a phrase that branches may do none.
Evaluate ==
  /\ phase = "run" /\ at[1] <= Len(program)
  /\ \E deeds \in {Phrase.does} \cup (IF "may" \in {d[1] : d \in ToSet(Phrase.does)} THEN {<<>>} ELSE {}) :
       LET before == [means |-> means, loaded |-> loaded, moved |-> moved,
                      final |-> final, raised |-> FALSE]
           Step(s, deed) == IF s.raised \/ deed[1] = "may" THEN s ELSE Perform(s, deed)
           after == FoldLeft(Step, before, deeds)
       IN  /\ means' = after.means /\ loaded' = after.loaded /\ moved' = after.moved
           /\ final' = after.final
           /\ phase' = IF after.raised THEN "raised" ELSE "run"
  /\ at' = Rest
  /\ UNCHANGED <<program, scans>>

Next == Scan \/ Evaluate

Spec == Init /\ [][Next]_scanVars

-----------------------------------------------------------------------------
(* Properties.                                                             *)

Told == UNION {scans[i].literals : i \in DOMAIN scans}
Finished == phase = "run" /\ at[1] > Len(program)

\* What a loader loads is a captured literal of that loader: none is reached
\* under another name, and none below the wrappers.
LoadsTold == loaded \subseteq Told

\* A literal is the call of a loader, never text of a comment or a quotation.
CallsTold ==
  \A l \in Told : \E i \in DOMAIN program : \E k \in DOMAIN program[i] :
    \E n \in DOMAIN program[i][k].does : program[i][k].does[n] = <<"call", l[1], l[2]>>

\* No file changes the directory unless it is one that may.
MovesTold == moved => \E i \in DOMAIN scans : scans[i].cwd

\* In the end the entrypoint's claims are bound, and a row of scan_prove_bindings
\* is the theorem of that name.
TheoremsTold ==
  Finished =>
    /\ Last(scans).claims \subseteq DOMAIN final
    /\ \A row \in Last(scans).rows : final[row[1]] = row[2]

\* What the scanner says of the files that it accepts is what they do
\* (scan_ocaml_loaders, source_may_change_cwd, scan_claim_binding_starts,
\* scan_prove_bindings).
ScanTold == LoadsTold /\ CallsTold /\ MovesTold /\ TheoremsTold
=============================================================================

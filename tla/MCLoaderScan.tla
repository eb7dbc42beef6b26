---------------------------- MODULE MCLoaderScan ----------------------------
(***************************************************************************)
(* Sources for LoaderScan, made the way a program is: a phrase is a pair of*)
(* its text and what it does, and to put a phrase in a comment, a string or*)
(* a quotation keeps the text and drops the deeds.                         *)
(***************************************************************************)
EXTENDS Sequences, TLC

Written(text, does) == [text |-> text, does |-> does]
Call(name, path) == <<"call", name, path>>
Same(name, other) == <<"same", name, other>>
Means(name, what) == <<"let", name, what>>
Binds(name, term) == <<"bind", name, term>>
May == <<"may">>

QuoteMark == <<"\"">>
Str(s) == QuoteMark \o <<s>> \o QuoteMark
Esc(code) == QuoteMark \o <<"\\", code>> \o QuoteMark
End == <<";;">>

-----------------------------------------------------------------------------
(* Calls.                                                                  *)

Callees ==
  {<<"needs", <<"needs">>>>, <<"needs", <<"\\#", "needs">>>>,
   <<"needs", <<"(", "needs", ")">>>>, <<"f", <<"f">>>>,
   <<"M.needs", <<"M", ".", "needs">>>>, <<"use_file", <<"use_file">>>>,
   <<"use_file", <<"Hol_loader", ".", "use_file">>>>,
   <<"silent", <<"Toploop", ".", "use_silently">>>>,
   <<"L.silent", <<"L", ".", "use_silently">>>>,
   <<"chdir", <<"Sys", ".", "chdir">>>>, <<"c", <<"c">>>>}

Arguments ==
  {<<"y", Str("y")>>, <<"y", <<"(", "(">> \o Str("y") \o <<")", ")">>>>,
   <<"y", <<"{|", "y", "|}">>>>, <<"nul", Esc("000")>>, <<"z", <<"s">>>>,
   <<"z", <<"(">> \o Str("y") \o <<"^">> \o Str("y") \o <<")">>>>,
   <<"z", Str("y") \o <<"^", "s">>>>, <<"y", Str("y") \o <<"|>", "k">>>>}
    \cup {<<"y", Esc(code)>> : code \in {"121", "x79", "o171", "u{79}"}}
    \cup {<<"error", Esc(code)>> : code \in {"999", "12", "o471", "u{d800}", "u79"}}
    \cup {<<"text", Esc(code)>> : code \in {"q", "\"", "x7"}}

CallOf(callee, argument) ==
  Written(callee[2] \o argument[2], <<Call(callee[1], argument[1])>>)

Plain == CallOf(<<"needs", <<"needs">>>>, <<"y", Str("y")>>)
Low == CallOf(<<"use_file", <<"use_file">>>>, <<"y", Str("y")>>)
Aliased == CallOf(<<"f", <<"f">>>>, <<"y", Str("y")>>)
Computed == CallOf(<<"needs", <<"needs">>>>, <<"z", <<"s">>>>)
Elf(loader, arguments, path) == Written(<<loader>> \o arguments, <<Call(loader, path)>>)

ElfCalls ==
  {Elf("define_from_elf", Str("n") \o Str("y"), "y"),
   Elf("define_from_elf", Str("n") \o <<"s">>, "z"),
   Elf("define_assert_from_elf", Str("n") \o Str("y") \o <<"[", "1", "]">>, "y"),
   Elf("define_assert_from_elf", Str("n") \o Str("y") \o <<"M", ".", "t">>, "y"),
   Elf("define_assert_from_elf", Str("n") \o Str("y") \o <<"[", "]", "k">>, "y")}

-----------------------------------------------------------------------------
(* Where a call, or any text, may stand.                                   *)

Phrase_(e) == Written(e.text \o End, e.does)
Around(before, e, after) == Written(before \o e.text \o after, e.does)
Hidden(before, e, after) == Written(before \o e.text \o after, <<>>)

\* Executed.
Live(e) ==
  {Written(<<"let", "v", "=">> \o e.text \o End, Append(e.does, Binds("v", ""))),
   Around(<<"k", ";">>, e, End), Around(<<"let", "v", "=", "1", "in">>, e, End),
   Around(<<"try">>, e, <<"with", "x", "->", "k">> \o End),
   Written(<<"if", "k", "then">> \o e.text \o <<"else", "(", ")">> \o End, <<May>> \o e.does),
   Written(<<"let", "g", "(", ")", "=">> \o e.text \o End, <<May>> \o e.does),
   Around(<<"module", "N", "=", "struct">>, e, End \o <<"end">> \o End)}

\* In a local open, needs is the module's.
LocalOpens(e) ==
  {Written(<<"M", ".", "(">> \o before \o e.text \o <<")">> \o End, <<Call("M.needs", e.does[1][3])>>) :
     before \in {<<>>, <<"k", ";">>}}

\* Not executed.
Dead(e) ==
  {Hidden(<<"(*">>, e, <<"*)">>), Hidden(<<"(*", "(*", "k", "*)">>, e, <<"*)">>),
   Hidden(<<"(*">> \o Str("*)"), e, <<"*)">>), Hidden(<<"(*", "'", "*)">>, e, <<"*)">>),
   Hidden(<<"k", "{x|">>, e, <<"|x}">> \o End), Hidden(<<"k", "{%x|">>, e, <<"|x}">> \o End),
   Hidden(<<"k", "hol">>, e, <<"hol">> \o End), Hidden(<<"#", "1">> \o Str("src"), e, <<>>)}

Calls ==
  {Phrase_(CallOf(callee, argument)) : callee \in Callees, argument \in Arguments}
    \cup {Phrase_(e) : e \in ElfCalls}
    \cup UNION {Live(e) \cup Dead(e) : e \in {Plain, Low, Aliased, Computed} \cup ElfCalls}
    \cup LocalOpens(Plain) \cup LocalOpens(Computed)

-----------------------------------------------------------------------------
(* Phrases that change what a later one does, or how it is read.           *)

Bindings ==
  {Written(<<"let", "f", "=", "needs">> \o End, <<Same("f", "needs")>>),
   Written(<<"let", "f", "=", "M", ".", "needs">> \o End, <<Same("f", "M.needs")>>),
   Written(<<"let", "f", "=", "use_file">> \o End, <<Same("f", "use_file")>>),
   Written(<<"let", "f", "=", "!", "file_loader">> \o End, <<Same("f", "use_file")>>),
   Written(<<"let", "needs", "x", "=", "x">> \o End, <<Means("needs", "inert")>>),
   Written(<<"let", "(", "needs", ")", "=", "f">> \o End, <<Same("needs", "f")>>),
   Written(<<"fun", "needs", "->", "needs">> \o Str("y") \o End, <<>>),
   Written(<<"open", "Hol_loader">> \o End, <<Same("needs", "M.needs")>>),
   Written(<<"module", "L", "=", "Toploop">> \o End, <<Same("L.silent", "silent")>>),
   Written(<<"Toploop", ".", "execute_phrase", "k">> \o End, <<>>),
   Written(<<"let", "c", "=", "Sys", ".", "chdir">> \o End, <<Same("c", "chdir")>>),
   Written(<<"external", "c", ":", "s", "=">> \o Str("caml_sys_chdir") \o End,
        <<Means("c", "chdir")>>),
   Written(<<"#", "cd">> \o Str("d") \o End, <<Call("chdir", "d")>>),
   Written(<<"#use">> \o Str("y") \o End, <<Call("#use", "y")>>),
   Written(<<"#", "mod_use">> \o Str("y") \o End, <<Call("use_file", "y")>>)}

\* A file's own define_from_elf; the decoder's, which reads the path it is given.
OwnElf(what) ==
  Written(<<"let", "rec", "define_from_elf", "n", "p", "=", "k">> \o End,
       <<Means("define_from_elf", what)>>)

\* Marks that open nothing where they stand.
Marked_(text) == Written(<<"k">> \o text \o End, <<>>)
Tricks ==
  {Marked_(<<"'", x, "'">>) : x \in {"\"", "hol", "("}}
    \cup {Marked_(<<"'", "\\", x, "'">>) : x \in {"\"", "'"}}
    \cup {Marked_(Str(x)) : x \in {"(*", "hol", "{|", ";;"}}
    \cup {Marked_(Esc("\"")), Marked_(<<"(", "x", ":", "'", "needs", ")">>)}
    \cup {Marked_(<<"hol", x, "hol">>) : x \in {"\"", "(*", "'"}}
    \cup {Marked_(<<"{|", x, "|}">>) : x \in {"\"", "(*", "\\"}}
    \cup {Written(<<"(*", "'", "\"", "*)">>, <<>>), Written(<<"(*", "{|", "*)", "|}", "*)">>, <<>>)}

Prove(term, tactic) == <<"prove", "(", "hol", term, "hol", ",">> \o tactic \o <<")">>
Let(name, value) == <<"let", name, "=">> \o value

Theorems ==
  {Written(Let("a", Prove(t, <<"k">>)) \o End, <<Binds("a", t)>>) : t \in {"t", "u"}}
  \cup
  {Written(Let("a", <<"time">> \o Prove("t", <<"k">>)) \o End, <<Binds("a", "t")>>),
   Written(Let("a", Prove("t", <<"(">> \o Let("b", <<"k", "in", "b">>) \o <<")">>)) \o End,
        <<Binds("a", "t")>>),
   Written(Let("a", Prove("t", <<"k">>)) \o <<"in", "k", "a">> \o End, <<>>),
   Written(<<"module", "N", "=", "struct">> \o Let("a", Prove("t", <<"k">>)) \o End \o <<"end">> \o End,
        <<>>),
   Written(Let("a", <<"begin">> \o Let("b", Prove("t", <<"k">>)) \o <<"in", "b", "end">>) \o End,
        <<Binds("a", "")>>),
   Written(Let("b", Prove("u", <<"k">>)) \o <<"and", "a", "=">> \o Prove("t", <<"k">>) \o End,
        <<Binds("b", "u"), Binds("a", "t")>>),
   Written(Let("a", Prove("t", <<"k">>)) \o Let("a", Prove("u", <<"k">>)) \o End,
        <<Binds("a", "t"), Binds("a", "u")>>),
   Written(<<"let", "(", "b", ",", "a", ")", "=", "k">> \o End, <<Binds("b", ""), Binds("a", "")>>),
   Written(Let("a", Prove("t", <<"k">>) \o <<";", "b">>) \o End, <<Binds("a", "")>>),
   Written(Let("b", <<"k">>) \o <<"in">> \o Let("a", Prove("t", <<"k">>)) \o <<"in", "a">> \o End, <<>>),
   Written(Let("a", <<"1", "k">>) \o End, <<Binds("a", "")>>)}

HiddenTheorems == UNION {Dead(e) : e \in Theorems}

-----------------------------------------------------------------------------
\* One or two phrases in a file, or one in each of two files.
First == Bindings \cup {OwnElf("below")} \cup Tricks \cup Theorems
All == First \cup Calls \cup HiddenTheorems \cup {Phrase_(Plain)}

MCPrograms ==
  {<<<<p>>>> : p \in All} \cup {<<<<p, q>>>> : p \in First, q \in All}
    \cup {<<<<q, p>>>> : p \in Theorems, q \in HiddenTheorems}
    \cup {<<<<p>>, <<q>>>> : p \in Bindings \cup {OwnElf("define_from_elf")}, q \in All}

\* Below the wrappers: the loaders of HOL's own modules and of the toplevel.
MCGlobals ==
  ("needs" :> "needs") @@ ("#use" :> "#use") @@ ("define_from_elf" :> "define_from_elf")
    @@ ("define_assert_from_elf" :> "define_assert_from_elf") @@ ("M.needs" :> "below")
    @@ ("use_file" :> "below") @@ ("silent" :> "below") @@ ("chdir" :> "chdir")
=============================================================================

--------------------------- MODULE MCCompileFile ---------------------------
(***************************************************************************)
(* The files TLC compiles: families that vary one part of a file at a time *)
(* and keep the others plain.                                              *)
(***************************************************************************)
EXTENDS CompileFile

MCExported == {"Title", "Props", "Item", "Children"}

L(is)       == Bare(is)
Do(code)    == Line("do", "", "", code, "none")
Use(n)      == <<"use", n>>
End         == <<"end", "">>
Define(n, right) == <<<<"define", n>>>> \o right \o <<<<"defined", n>>>>
Decl(is, n, form, code) == Line(is, n, form, code, "none")
Html(ts)    == Line("markup", "", "", ts, "none")

NoCall  == [form |-> "dict", dynamic |-> FALSE, entries |-> <<>>]
NoCard  == [types |-> <<>>, children |-> FALSE]
Title   == Define("Title", <<>>)

File(lines, component, card, call) ==
  [lines |-> lines, component |-> component, card |-> card, call |-> call]

Enclosed(fm, body) == <<L("delim")>> \o fm \o <<L("delim")>> \o body

SeqsUpTo(S, n) == UNION {[1 .. k -> S] : k \in 0 .. n}

\* Delimiters, imports and raw strings in every order.
RawDo == Line("do", "", "", <<>>, "raw")
Import(arg) == Line("import", arg, "", <<>>, "none")
Spec1(arg)  == Line("spec", arg, "", <<>>, "none")
SectionLines ==
  {L("delim"), L("blank"), L("open"), L("close"), Import("go"), Spec1("component"), RawDo,
   Line("note", "", "", <<>>, "lone")}
SectionFiles ==
  {File(Enclosed(fm, <<L("markup")>>), FALSE, NoCard, NoCall) : fm \in SeqsUpTo(SectionLines, 4)}
  \cup {File(Enclosed(<<Import(a), Do(Title)>>, <<L("markup")>>), FALSE, NoCard, NoCall) :
          a \in {"go", "aliased", "component", "bare", "dot", "underscore", "lower", "noted"}}
  \cup {File(<<L("open"), Spec1(a), L("close")>> \o ls, FALSE, NoCard, NoCall) :
          a \in {"go"}, ls \in SeqsUpTo({L("delim"), L("blank"), L("markup")}, 2)}
  \cup {File(Enclosed(<<L("open"), Spec1(a), L("close"), Do(Title)>>, <<L("markup")>>), FALSE, NoCard, NoCall) :
          a \in {"go", "aliased", "component", "bare", "dot", "noted"}}

\* Directives, comments and variables in every order.
Embed(path) == Line("embed", path, "", <<>>, "none")
EmbedLines ==
  {Embed("a.md"), L("note"), L("blank"), Decl("var", "x", "string", <<>>), Do(Define("y", <<>>))}
EmbedTails == {<<>>, <<Decl("var", "z", "", <<Use("r")>>)>>, <<Do(<<<<"call", "Unknown">>>>)>>}
EmbedFiles ==
  {File(Enclosed(fm \o tail, <<L("markup")>>), FALSE, NoCard, NoCall) :
     fm \in SeqsUpTo(EmbedLines, 5), tail \in EmbedTails}
  \cup {File(Enclosed(<<L("blank"), Embed(path), Decl("var", "x", form, <<>>), Embed("missing"),
                        Decl("var", "y", "string", <<>>)>>, <<L("markup")>>), FALSE, NoCard, NoCall) :
          path \in {"a.md", "escape", "missing", "absolute", "directory", "binary"},
          form \in {"string", "bytes", "group", "pair", "init", "int"}}
  \cup {File(Enclosed(head \o <<Embed(path), Decl("var", "x", form, <<>>), Do(<<<<"call", "Unknown">>>>)>>,
                      <<L("markup")>>), FALSE, NoCard, NoCall) :
          head \in {<<>>, <<Import("go")>>}, path \in {"a.md", "missing", "directory"}, form \in {"string", "int"}}

\* A declaration, and code that refers to it.
Func(n, param, code) == Decl("func", n, "", <<<<"fn", param>>>> \o code \o <<End>>)
Decls ==
  {Decl("var", "x", "", <<>>), Decl("var", "x", "", <<Use("r"), <<"field", "URL">>>>),
   Decl("var", "x", "", <<<<"fn", "">>>> \o Define("r", <<>>) \o <<Use("r"), End>>),
   Decl("var", "x", "", <<<<"fn", "">>>> \o Define("r", <<Use("r")>>) \o <<Use("r"), End>>),
   Decl("var", "x", "", <<Use("o"), <<"field", "r">>>>),
   Decl("var", "x", "", <<<<"fn", "">>, <<"local", "r">>, Use("r"), End>>),
   Decl("var", "x", "tuple", <<>>), Decl("const", "Title", "", <<>>),
   Decl("var", "_", "", <<<<"local", "_">>>>),
   Func("x", "r", <<Use("r")>>), Func("x", "", <<<<"local", "x">>, Use("x")>>),
   Func("x", "", <<<<"call", "Attrs">>>>), Func("x", "", <<<<"call", "Props">>>>),
   Func("x", "x", <<Use("x")>>), Func("init", "", <<>>),
   Decl("func", "x", "method", <<<<"fn", "o">>, End>>),
   Decl("func", "x", "braces", <<<<"fn", "">>, End>>),
   Decl("type", "Props", "struct", <<>>), Decl("type", "Props", "alias", <<>>),
   Decl("type", "Props", "Children", <<>>), L("broken")}
Bodies ==
  {Do(Define("Title", <<Use("x")>>)), Do(Define("x", <<>>) \o <<Use("x")>>),
   Do(<<<<"fn", "x">>, Use("x"), End>>), Do(<<<<"if", "">>, <<"local", "x">>, Use("x"), End>>),
   Do(<<<<"mapkey", "x">>>>), Do(<<<<"key", "x">>>>), Do(<<Use("x"), <<"field", "x">>>>),
   Do(<<<<"if", "">>>> \o Title \o <<Use("Title"), End>>),
   Do(<<<<"if", "">>>> \o Define("y", <<Use("x")>>) \o <<Use("y"), End>>),
   Do(Define("ctx", <<<<"call", "Context">>>>) \o <<Use("ctx")>>),
   Do(Define("Title", <<<<"call", "Props">>>>)), Do(Define("Title", <<Use("r")>>)),
   Do(<<<<"call", "Unknown">>>>), Do(<<<<"bare", "Props">>>>), Do(Define("Children", <<>>)),
   Decl("var", "y", "", <<Use("x")>>), Decl("type", "Props", "struct", <<>>)}
Ends == {<<>>, <<Do(Title)>>, <<Do(<<Use("x")>>)>>, <<Do(<<<<"call", "Props">>>>)>>}
CodeFiles ==
  {File(Enclosed(<<Line("embed", "a.md", "", <<>>, "none"), Decl("var", "e", "string", <<>>), d, b>>
                 \o e, <<L("markup")>>), component, NoCard, NoCall) :
     d \in Decls, b \in Bodies, e \in Ends, component \in BOOLEAN}
  \cup {File(Enclosed(<<Line("do", "", "", <<>>, "raw"), Decl(is, "x", "", <<>>),
                        Line("do", "", "", <<>>, "raw")>>, <<L("markup")>>), FALSE, NoCard, NoCall) :
          is \in {"func", "var", "type", "do"}}

\* A declaration alone, or below imports, comments and others.
Heads == {<<>>, <<Import("go")>>, <<L("note")>>, <<Decl("type", "Item", "struct", <<>>)>>, <<L("blank"), Do(Title)>>,
          <<L("open"), Spec1("go"), L("blank"), Spec1("go"), Spec1("go"), Spec1("component"), L("close"), L("note")>>}
EditFiles ==
  {File(Enclosed(h \o <<d>> \o t, <<L("markup")>>), component, NoCard, NoCall) :
     h \in Heads, d \in Decls \cup {Decl("var", "Title", "", <<>>), Decl("var", "log", "", <<>>),
                             Decl("var", "Title", "", <<<<"fn", "x">>, Use("x"), End>>), Import("go")},
     t \in {<<>>, <<L("blank"), Do(Title)>>, <<L("blank"), Do(<<Use("x")>>), L("note"), Do(Define("Title", <<Use("log")>>))>>},
     component \in BOOLEAN}

\* Writes of the response, and what comes after them.
Stmt(s) == <<"stmt", s>>
Steps ==
  {<<Stmt("f(w)")>>, <<Stmt("w.Header")>>, <<Stmt("http.SetCookie")>>, <<Stmt("http.Redirect")>>,
   <<<<"assigned", "f(w)">>>>, <<<<"return", "">>>>,
   <<<<"if", "">>, Stmt("http.Redirect"), End>>,
   <<<<"if", "">>, Stmt("w.Write"), <<"return", "">>, End>>,
   <<<<"loop", "">>, Stmt("w.Write"), <<"break", "">>, End>>,
   <<<<"loop", "">>, Stmt("w.Write"), <<"return", "">>, End>>,
   <<<<"switch", "">>, <<"case", "">>, Stmt("f(w)"), End, End>>,
   <<<<"loop", "">>, Stmt("w.Write"), <<"if", "">>, <<"break", "">>, End, <<"return", "">>, End>>,
   <<<<"fn", "">>, Stmt("f(w)"), End>>}
ReturnFiles ==
  {File(Enclosed(<<Do(a), Do(b), c>>, <<L("markup")>>), FALSE, NoCard, NoCall) :
     a \in Steps, b \in Steps, c \in {L("blank"), Do(Title), Func("f", "", <<>>)}}

\* Raw blocks, comments, blocks and wraps in every order.
Tags == {<<"text", "">>, <<"open", "">>, <<"end", "">>, <<"wrap", "Card">>, <<"raw", "">>,
         <<"endraw", "">>, <<"call", "Card">>, <<"comment", "endraw">>, <<"comment", "wrap">>}
CardImport == Import("component")
Wrapper == [types |-> <<>>, children |-> TRUE]
MarkupFiles ==
  {File(Enclosed(<<CardImport>>, <<Html(ts)>>), FALSE, Wrapper, NoCall) : ts \in SeqsUpTo(Tags, 4)}
  \cup {File(Enclosed(fm, <<Html(<<t, <<"text", "">>, <<"end", "">>>>)>>), FALSE, Wrapper, NoCall) :
          fm \in {<<Do(Title)>>, <<CardImport>>},
          t \in {<<"wrap", "Card">>, <<"wrap", "Box">>, <<"trimwrap", "Card">>, <<"call", "Box">>,
                 <<"old", "">>, <<"comment", "old">>, <<"comment", "">>, <<"children", "">>}}
  \cup {File(Enclosed(fm, <<Html(ts)>>), component, NoCard, NoCall) : component \in BOOLEAN,
          fm \in {<<Do(Title)>>, <<Do(Define("Children", <<>>))>>, <<Decl("type", "Props", "struct", <<>>), Do(<<<<"call", "Props">>>>)>>},
          ts \in {<<<<"children", "">>>>, <<<<"call", "Box">>, <<"comment", "wrap">>>>}}
  \cup {File(<<Html(ts)>>, TRUE, NoCard, NoCall) : ts \in SeqsUpTo({<<"text", "">>, <<"children", "">>}, 2)}

\* A call of Card, with literals and values of every type for fields of every
\* type.
Types  == {"string", "html", "named", "bool", "int", "int8", "uint", "uint8", "float64", "float32",
           "complex", "any", "pointer"}
Values == {Value("text", 0), Value("text", 1), Value("numeral", 2), Value("bool", 0), Value("bool", 2), Nil}
          \cup {Value("int", x) : x \in {-18, -16, -4, -2, 0, 2, 6, 8, 10, 14, 20, 30} \cap -16 .. 30}
          \cup {Value("float64", x) : x \in {-5, 0, 4, 5, 14, 32, 50}}
          \cup {Value("int64", 4), Value("int64", 10), Value("uint8", 2), Value("int8", 2)}
Props1(type, required) == <<[name |-> "Props", fields |-> <<Field("A", type, required)>>]>>
Item1 == <<[name |-> "Item", fields |-> <<Field("B", "string", FALSE)>>]>>
Call(form, entries) == [form |-> form, dynamic |-> FALSE, entries |-> entries]
CallFile(types, children, call, form) ==
  File(Enclosed(<<CardImport>>, <<Html(IF form \in {"wrap", "wrapdict"}
                                       THEN <<<<"wrap", "Card">>, <<"end", "">>>> ELSE <<<<"call", "Card">>>>)>>),
       FALSE, [types |-> types, children |-> children], call)
PropFiles ==
  {CallFile(Props1(t, req), FALSE, Call("dict", <<<<"A", v>>>>), "dict") :
     t \in Types, v \in Values, req \in BOOLEAN}
  \cup {CallFile(ts, children, Call(form, es), form) :
          ts \in {<<>>, Item1, Props1("string", TRUE), Item1 \o Props1("string", TRUE), Props1("string", FALSE) \o Item1,
                  Props1("local", FALSE), Props1("imported", FALSE),
                  <<[name |-> "Props", fields |-> <<Field("A", "int", FALSE), Field("Rest", "attrs", FALSE)>>]>>},
          children \in BOOLEAN, form \in {"bare", "dict", "wrap", "wrapdict"},
          es \in SeqsUpTo({<<"A", Value("text", 1)>>, <<"B", Value("text", 1)>>, <<"__children", Nil>>,
                           <<"Children", Value("text", 1)>>}, 2)}
  \cup {CallFile(Props1("int", FALSE), FALSE,
                 [form |-> "dict", dynamic |-> TRUE, entries |-> <<<<"A", v>>>>], "dict") : v \in Values}

MCFilesOf(part) ==
  CASE part = "sections" -> SectionFiles
    [] part = "embeds"   -> EmbedFiles
    [] part = "code"     -> CodeFiles
    [] part = "edits"    -> EditFiles
    [] part = "returns"  -> ReturnFiles
    [] part = "markup"   -> MarkupFiles
    [] part = "props"    -> PropFiles
=============================================================================

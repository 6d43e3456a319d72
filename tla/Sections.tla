------------------------------ MODULE Sections ------------------------------
(***************************************************************************)
(* The parser of a .gastro file: the frontmatter between two `---' lines,  *)
(* the template after them, and the imports taken out of the frontmatter.  *)
(* It reads lines, and knows of Go's grammar only that a raw string may    *)
(* span lines; that is what can go wrong, so GoReading is what a Go        *)
(* compiler makes of the same lines.                                       *)
(*                                                                         *)
(* A line is what the passes over it tell apart:                           *)
(*   is    what its text looks like, even inside a raw string;             *)
(*   arg   the import it names, the name it declares, the path it embeds;  *)
(*   form  of a declaration: its type, or what is unusual about it;        *)
(*   code  the identifiers of its Go code (module Hoisting), the actions   *)
(*         of its markup (module Markup);                                  *)
(*   tick  "raw" when an odd number of backticks opens or closes a raw     *)
(*         string, "lone" when the odd one is in a comment or a literal.   *)
(***************************************************************************)
EXTENDS Integers, FiniteSets, SequencesExt

Line(is, arg, form, code, tick) ==
  [is |-> is, arg |-> arg, form |-> form, code |-> code, tick |-> tick]

\* What an import names: a Go path or a component, in one of the ways to write it.
ImportArgs == {"go", "aliased", "component", "bare", "dot", "underscore", "lower", "noted"}

\* What a file may have for a line: an import names something and a note nothing,
\* some lines are the same text wherever they are, and nothing is baked yet.
AnyLine ==
  {l \in [is : STRING, arg : STRING, form : STRING, code : Seq(STRING \X STRING),
           tick : {"none", "raw", "lone"}] :
     /\ l.is \in {"import", "spec"} => l.arg \in ImportArgs
     /\ l.is = "note" => l.arg \notin ImportArgs
     /\ l.is \in {"blank", "delim", "open", "close"} => l.tick = "none"
     /\ l.form # "baked"}

Bare(is) == Line(is, "", "", <<>>, "none")

Lines(ls, is) == {i \in DOMAIN ls : ls[i].is = is}

\* The members of S, a finite set of integers, from the least to the greatest.
InOrder(S) ==
  [k \in 1 .. Cardinality(S) |-> CHOOSE i \in S : Cardinality({j \in S : j <= i}) = k]

\* A line with an odd number of backticks opens or closes a raw string.
HasUnclosedBacktick(l) == l.tick # "none"

\* Line i of ls begins inside a backtick string, as the parser counts them.
InString(ls, i) == Cardinality({j \in 1 .. i - 1 : HasUnclosedBacktick(ls[j])}) % 2 = 1

\* The first line with text opens the frontmatter, or there is none.
OpenDelim(ls) ==
  LET first == {i \in DOMAIN ls : ls[i].is # "blank" /\ \A j \in 1 .. i - 1 : ls[j].is = "blank"}
  IN {i \in first : ls[i].is = "delim"}

\* Mutant: the first --- ends the frontmatter, in a raw string or not.
FirstDelims(ls, open) == {i \in open + 1 .. Len(ls) : ls[i].is = "delim"}

CloseDelims(ls, open) ==
  {i \in open + 1 .. Len(ls) : /\ ls[i].is = "delim"
                               /\ ~InString(SubSeq(ls, open + 1, Len(ls)), i - open)}

Split(error, frontmatter, body, fmLine, bodyLine) ==
  [error |-> error, frontmatter |-> frontmatter, body |-> body,
   fmLine |-> fmLine, bodyLine |-> bodyLine]

SplitAt(ls, open, close) ==
  IF \A i \in open + 1 .. close - 1 : ls[i].is = "blank"
  THEN Split("empty frontmatter", <<>>, <<>>, 0, 0)
  ELSE Split("", SubSeq(ls, open + 1, close - 1), SubSeq(ls, close + 1, Len(ls)), open + 1, close + 1)

SplitFrom(ls, open) ==
  IF CloseDelims(ls, open) = {} THEN Split("missing delimiter", <<>>, <<>>, 0, 0)
  ELSE SplitAt(ls, open, Min(CloseDelims(ls, open)))

SplitSections(ls) ==
  IF OpenDelim(ls) = {} THEN Split("", <<>>, ls, 0, 1) ELSE SplitFrom(ls, Min(OpenDelim(ls)))

\* What parseImportSpec makes of an import line, or of a line of a group: a Go
\* import, a component, an error, or nothing it recognises (an import with a
\* comment behind it is not a quoted string).
ParseImportSpec(l) ==
  CASE l.arg \in {"go", "aliased"}                     -> "import"
    [] l.arg = "component"                             -> "use"
    [] l.arg \in {"bare", "dot", "underscore", "lower"} -> "error"
    [] OTHER                                           -> "none"

\* What line i begins in, for extractImports, which counts no backticks in a group.
Inside(ls) ==
  LET at[i \in 1 .. Len(ls) + 1] ==
        IF i = 1 THEN "code"
        ELSE LET l == ls[i - 1] IN
             CASE at[i - 1] = "string" -> IF HasUnclosedBacktick(l) THEN "code" ELSE "string"
               [] at[i - 1] = "group"  -> IF l.is = "close" THEN "code" ELSE "group"
               [] OTHER                -> IF l.is = "open" THEN "group"
                                          ELSE IF HasUnclosedBacktick(l) THEN "string" ELSE "code"
  IN at

\* The import lines extractImports reads, and whatever else is in a group.
ExtractImports(ls) ==
  {i \in DOMAIN ls : \/ Inside(ls)[i] = "code"  /\ ls[i].is = "import"
                     \/ Inside(ls)[i] = "group" /\ ls[i].is \notin {"close", "blank"}}

Named(ls, found, sort) == InOrder({i \in found : ParseImportSpec(ls[i]) = sort})

TrimBlank(ls, kept) ==
  LET text == {k \in DOMAIN kept : ls[kept[k]].is # "blank"}
  IN IF text = {} THEN <<>> ELSE SubSeq(kept, Min(text), Max(text))

\* Line i lies in an import group, or closes it.
InGroup(ls, i) ==
  \E o \in Lines(ls, "open") :
    /\ o < i /\ ~InString(ls, o)
    /\ \A c \in Lines(ls, "close") : o < c /\ c < i => InString(ls, c)

\* The lines stripImports keeps, by their index.
Kept(ls) ==
  {i \in DOMAIN ls : InString(ls, i) \/ (~InGroup(ls, i) /\ ls[i].is \notin {"open", "import"})}

StripImports(ls) == TrimBlank(ls, InOrder(Kept(ls)))

\* The sections s, their imports found and the lines kept without them.
Parsed(s, found, kept) ==
  LET at(x)    == [k \in DOMAIN x |-> s.fmLine + x[k] - 1]
      of(sort) == Named(s.frontmatter, found, sort)
  IN [error       |-> IF s.error # "" THEN s.error
                      ELSE IF of("error") # <<>> THEN "import" ELSE "",
      frontmatter |-> [k \in DOMAIN kept |-> s.frontmatter[kept[k]]],
      body        |-> s.body,
      imports     |-> at(of("import")),
      uses        |-> at(of("use")),
      fmLine      |-> s.fmLine,
      bodyLine    |-> s.bodyLine,
      origin      |-> at(kept)]

ParseSections(s) == Parsed(s, ExtractImports(s.frontmatter), StripImports(s.frontmatter))

\* parser.Parse.  origin[k] is the line of the file that line k of the
\* frontmatter was; imports and uses are lines of the file.
Parse(ls) == ParseSections(SplitSections(ls))

\* Mutant: as if no import had been taken out above it.
UnstrippedLine(p, k) == p.fmLine + k - 1

\* A line of the frontmatter as a line of the file.
FrontmatterSourceLine(p, k) == IF k \in DOMAIN p.origin THEN p.origin[k] ELSE p.fmLine

-----------------------------------------------------------------------------
(* What Go makes of the lines.                                             *)

\* Line i of ls lies in a raw string: inside one every backtick closes it,
\* outside only one that is not in a comment or a literal opens it.
Raw(ls) ==
  LET raw[i \in 1 .. Len(ls) + 1] ==
        i > 1 /\ IF raw[i - 1] THEN ls[i - 1].tick = "none" ELSE ls[i - 1].tick = "raw"
  IN raw

GoClose(ls, open) ==
  LET inner == SubSeq(ls, open + 1, Len(ls))
  IN {i \in open + 1 .. Len(ls) : ls[i].is = "delim" /\ ~Raw(inner)[i - open]}

\* The lines between an `import (' and its `)'.
Grouped(ls, raw) ==
  {i \in DOMAIN ls : \E o \in Lines(ls, "open") :
     o < i /\ ~raw[o] /\ \A c \in o + 1 .. i : ls[c].is # "close"}

GoImports(ls, raw) ==
  {i \in DOMAIN ls : ~raw[i] /\ \/ ls[i].is = "import"
                                \/ ls[i].is = "spec" /\ i \in Grouped(ls, raw)}

GoCode(ls, raw) ==
  {i \in DOMAIN ls : \/ raw[i]
                     \/ /\ i \notin Grouped(ls, raw) /\ ls[i].is \notin {"open", "import"}
                        /\ ~(ls[i].is = "close" /\ i - 1 \in Grouped(ls, raw) \cup Lines(ls, "open"))}

\* Every raw string and every group is closed, and a group has only imports,
\* comments and blank lines in it, and no raw string.
Readable(ls, raw) ==
  /\ ~raw[Len(ls) + 1]
  /\ \A i \in Lines(ls, "open") : raw[i] \/ i + 1 \in Lines(ls, "close") \cup Grouped(ls, raw)
  /\ \A i \in Grouped(ls, raw) : ls[i].is \in {"spec", "blank", "note"} /\ ls[i].tick = "none"
  /\ \A i \in Grouped(ls, raw) : i + 1 \in Grouped(ls, raw) \cup Lines(ls, "close")
  /\ \A i \in Lines(ls, "spec") \cup Lines(ls, "close") :
       raw[i] \/ i \in Grouped(ls, raw) \/ i - 1 \in Grouped(ls, raw) \cup Lines(ls, "open")
=============================================================================

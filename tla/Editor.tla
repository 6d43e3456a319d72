------------------------------- MODULE Editor -------------------------------
(***************************************************************************)
(* What the language server itself finds in an open .gastro file, without  *)
(* asking gopls: the warnings of the analysis and the faults of the embeds *)
(* in the frontmatter, unknown components, props and variables in the      *)
(* template, and the fixes it offers.  It uses the passes of the compiler, *)
(* but on the text as it is written: it places what they say by counting   *)
(* from the first line, and gets the template past text/template/parse by  *)
(* reading each wrap as an if.                                             *)
(***************************************************************************)
EXTENDS Shadow, Returns, Markup, Props

At(line, severity, what) == [line |-> Max({line, 1}), severity |-> severity, what |-> what]

\* Line k of the frontmatter, counted from the opening delimiter.
EditorLine(p, k) == p.fmLine + k - 1

-----------------------------------------------------------------------------
(* The template.                                                           *)

\* stripRawBlocks finds the raw blocks as the mask of the compiler does.
StripRawBlocks(body) == StripRaw(Tokens(body))

\* Mutant: a wrap is read as a call, and its end has nothing to close.
ParsesWithoutWraps(ts, known) ==
  Balanced(ts, {"open"}) /\ \A i \in Of(ts, {"call", "wrap", "trimwrap"}) : ts[i].name \in known

\* ParseTemplateBody, each {{ wrap X }} and {{- wrap X }} an {{ if X }}; a name that is
\* not imported is no function of it.
ParseTemplateBody(ts, known) ==
  /\ Balanced(ts, {"open", "wrap", "trimwrap"})
  /\ \A i \in Of(ts, {"call", "wrap", "trimwrap"}) : ts[i].name \in known

\* The calls the regular expressions find, in comments as well, and the name of each.
Matched(ts) == Of(ts, {"call", "wrap"}) \cup {i \in Of(ts, {"comment"}) : ts[i].name = "wrap"}
MatchedName(t) == IF t.kind = "comment" THEN "Card" ELSE t.name

\* diagnoseUnknownComponents: a template that parses has none.
DiagnoseUnknownComponents(ts, known) ==
  IF ParseTemplateBody(ts, known) THEN {}
  ELSE {<<"error", "unknown component", MatchedName(ts[i])>> :
          i \in {j \in Matched(ts) : MatchedName(ts[j]) \notin known}}

\* The call as it reads once its wrap is an if.
WithoutWrap(call) ==
  [call EXCEPT !.form = CASE @ = "wrap" -> "bare" [] @ = "wrapdict" -> "dict" [] OTHER -> @]

\* diagnoseComponentPropsRegexFallback: the keys alone, and no rest bag.
DiagnoseKeys(fields, call) ==
  {<<"warning", "deprecated key", k>> : k \in Keys(call) \cap {"__children"}}
  \cup {<<"error", "unknown prop", k>> : k \in Keys(call) \ ({"__children", "Children"} \cup FieldNames(fields))}

\* ResolveComponentProps: the fields of the first struct, a Props or not.
ComponentFields(card) == ParseStructFields(card)

\* DiagnoseComponentProps: the validator of the compiler, but for the types of
\* literals.
DiagnoseComponentProps(ts, known, card, call) ==
  LET fields == ComponentFields(card)
      parses == ParseTemplateBody(ts, known)
      cards  == IF parses THEN {i \in Of(ts, {"call", "wrap", "trimwrap"}) : ts[i].name = "Card"}
                ELSE {i \in Matched(ts) : MatchedName(ts[i]) = "Card"}
  IN IF "Card" \notin known \/ fields = <<>> \/ cards = {} THEN {}
     ELSE IF parses THEN {f \in ValidateDictKeys(fields, WithoutWrap(call)) : f[2] # "prop type"}
     ELSE DiagnoseKeys(fields, call)

\* checkField, outside a range or a with: a field of the page's data.
CheckField(name, variables) ==
  IF name \in variables THEN {} ELSE {<<"error", "unknown variable", name>>}

\* WalkDiagnostics: .Children is the one field the templates here read.
WalkDiagnostics(ts, known, variables) ==
  IF ParseTemplateBody(ts, known) /\ Of(ts, {"children"}) # {}
  THEN CheckField("Children", variables) ELSE {}

\* What the frontmatter exports, and .Children in a file that calls gastro.Props.
ExportedNames(fm, info) ==
  {fm[i].arg : i \in HoistedExports(fm, info.decls)}
  \cup {info.code[j][2] : j \in info.exports}
  \cup (IF info.isComponent THEN {"Children"} ELSE {})

DiagnoseTemplate(ts, known, variables, card, call) ==
  DiagnoseUnknownComponents(ts, known) \cup DiagnoseComponentProps(ts, known, card, call)
  \cup WalkDiagnostics(ts, known, variables)

Diagnose(body, known, variables, card, call) ==
  DiagnoseTemplate(StripRawBlocks(body), known, variables, card, call)

-----------------------------------------------------------------------------
(* The frontmatter.                                                        *)

\* varTypeSpanInLine: the line is var, one name and a type.
VarTypeSpanInLine(l) == l.is = "var" /\ l.form \in {"string", "bytes", "int", "init"}

\* embedCodeActions: the lines of the file a fix for a type would change.
EmbedCodeActions(ls, p) ==
  LET fm   == p.frontmatter
      line(d) == EditorLine(p, d)
  IN IF p.error # "" \/ ~Parses(fm) THEN {}
     ELSE {line(d) : d \in {c \in Candidates(fm) : /\ DirectiveFault(fm, c) = "type"
                                                   /\ line(c) \in DOMAIN ls
                                                   /\ VarTypeSpanInLine(ls[line(c)])}}

\* findDelimiterLine: the first ---, wherever it is.
FindDelimiterLine(ls) ==
  LET found == Lines(ls, "delim") IN IF found = {} THEN 1 ELSE Min(found)

NoFindings == [frontmatter |-> {}, template |-> {}, fixes |-> {}]

\* publishParseDiagnostic: an error of the parser or the analysis is shown alone.
PublishParseDiagnostic(line, what) == [NoFindings EXCEPT !.frontmatter = {At(line, "error", what)}]

\* The warnings of the analysis, the missing returns, and the embeds.
FrontmatterFindings(p, info) ==
  LET fm == p.frontmatter
  IN {At(EditorLine(p, w[2]), "warning", w[1]) : w \in info.warnings}
     \cup {At(EditorLine(p, i), "warning", "missing return") : i \in MissingReturnLines(fm)}
     \cup {At(EditorLine(p, f[2]), "error", f[1]) : f \in ValidateEmbedDirectives(fm)}

\* An error of the analysis is shown at the first line of the frontmatter.
DiagnoseParsed(ls, p, info, card, call) ==
  IF p.error # "" THEN PublishParseDiagnostic(FindDelimiterLine(ls), p.error)
  ELSE IF info.error # "" THEN PublishParseDiagnostic(p.fmLine, info.error)
  ELSE [frontmatter |-> FrontmatterFindings(p, info),
        template    |-> Diagnose(FlattenSeq([i \in DOMAIN p.body |-> p.body[i].code]),
                                 IF p.uses = <<>> THEN {} ELSE {"Card"},
                                 ExportedNames(p.frontmatter, info), card, call),
        fixes       |-> EmbedCodeActions(ls, p)]

RunTemplateDiagnostics(ls, card, call) ==
  LET of(p) == DiagnoseParsed(ls, p, AnalyzeFrontmatter(p.frontmatter), card, call) IN of(Parse(ls))
=============================================================================

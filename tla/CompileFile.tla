---------------------------- MODULE CompileFile ----------------------------
(***************************************************************************)
(* compileFile: one .gastro file through all the passes of the compiler,   *)
(* each on what the one before it made of the file, then through go build, *)
(* the start of the program and the rendering of a component.  The first   *)
(* pass that fails ends it and says at which line of the file.             *)
(*                                                                         *)
(* A file is its lines, whether it lies below components/, the component   *)
(* Card it may import, and the props it passes to Card.                    *)
(***************************************************************************)
EXTENDS Editor

CONSTANTS Parts,       \* the parts of a file
          FilesOf(_)   \* the files to compile, by the part they vary

ASSUME CompileFileAssumption ==
  \A part \in Parts : \A f \in FilesOf(part) :
    f.lines \in Seq(AnyLine) /\ f.call.entries \in Seq(STRING \X AnyValue)

VARIABLES file,     \* the file
          stage,    \* the pass it is at, or how it ended
          parsed,   \* what the parser made of it
          embeds,   \* its frontmatter, embeds expanded
          info,     \* the analysis of its frontmatter
          output,   \* the template and the Go program
          diags,    \* what was found, [line, severity, what]
          shown,    \* what rendering Card gives, in development or not
          shadow,   \* the editor's copy of the file, once it is open there
          editor    \* what the editor finds in it

vars == <<file, stage, parsed, embeds, info, output, diags, shown, shadow, editor>>

BodyOf(p) == FlattenSeq([i \in DOMAIN p.body |-> p.body[i].code])
KnownTo(p) == IF p.uses = <<>> THEN {} ELSE {"Card"}
IsComponent == info.isComponent \/ file.component

Init ==
  /\ \E part \in Parts : file \in FilesOf(part)
  /\ stage = "parse"
  /\ parsed = [error |-> ""] /\ embeds = [error |-> ""] /\ info = [error |-> ""]
  /\ output = [error |-> ""] /\ shown = [result |-> ""] /\ shadow = [error |-> "closed"]
  /\ editor = NoFindings
  /\ diags = {}

Fail(found) == /\ stage' = "failed"
               /\ diags' = diags \cup found

ParseFile ==
  /\ stage = "parse"
  /\ parsed' = Parse(file.lines)
  /\ IF parsed'.error # "" THEN Fail({At(1, "error", parsed'.error)})
     ELSE stage' = "expand" /\ UNCHANGED diags
  /\ UNCHANGED <<file, embeds, info, output, shown, shadow, editor>>

\* embedDiagnostics: the expansion stops at its first problem, so its failure
\* is described by the findings of the other pass, if that has any.
EmbedDiagnostics(error) ==
  LET found == ValidateEmbedDirectives(parsed.frontmatter)
  IN IF found = {} THEN {At(parsed.fmLine, "error", error)}
     ELSE {At(FrontmatterSourceLine(parsed, f[2]), "error", f[1]) : f \in found}

ExpandEmbeds ==
  /\ stage = "expand"
  /\ embeds' = ProcessEmbedDirectives(parsed.frontmatter)
  /\ IF embeds'.error # "" THEN Fail(EmbedDiagnostics(embeds'.error))
     ELSE stage' = "analyze" /\ UNCHANGED diags
  /\ UNCHANGED <<file, parsed, info, output, shown, shadow, editor>>

\* The rewrite of the embeds should have kept the lines: they are still taken
\* for those of the parsed frontmatter.
Analyze ==
  /\ stage = "analyze"
  /\ info' = AnalyzeFrontmatter(embeds.frontmatter)
  /\ IF info'.error # ""
     THEN Fail({At(IF info'.line = 0 THEN parsed.fmLine ELSE FrontmatterSourceLine(parsed, info'.line),
                   "error", info'.error)})
     ELSE /\ stage' = "validate"
          /\ diags' = {At(FrontmatterSourceLine(parsed, w[2]), "warning", w[1]) : w \in info'.warnings}
                      \cup {At(FrontmatterSourceLine(parsed, i), "warning", "missing return") :
                              i \in MissingReturnLines(embeds.frontmatter)}
  /\ UNCHANGED <<file, parsed, embeds, output, shown, shadow, editor>>

\* ValidateTemplate, and the props of the calls of Card it looks at.
TemplateFindings ==
  LET body == BodyOf(parsed)
      cards == {i \in ValidatedCalls(body) : body[i][2] \in KnownTo(parsed)}
  IN {<<"error", "unknown component", body[i][2]>> : i \in UnknownComponents(body, KnownTo(parsed))}
     \cup (IF cards = {} THEN {} ELSE ValidateDictKeys(Schema(file.card), file.call))

TemplateDiagnostics == {At(parsed.bodyLine, f[1], f[2]) : f \in TemplateFindings}

Validate ==
  /\ stage = "validate"
  /\ IF \E d \in diags \cup TemplateDiagnostics : d.severity = "error"
     THEN Fail(TemplateDiagnostics)
     ELSE stage' = "generate" /\ diags' = diags \cup TemplateDiagnostics
  /\ UNCHANGED <<file, parsed, embeds, info, output, shown, shadow, editor>>

Generate ==
  /\ stage = "generate"
  /\ LET t == TransformTemplate(BodyOf(parsed), KnownTo(parsed))
     IN IF t.error # ""
        THEN Fail({At(parsed.bodyLine, "error", t.error)}) /\ UNCHANGED output
        ELSE /\ output' = [error       |-> "",
                           template    |-> t.out,
                           hasChildren |-> TemplateRendersChildren(BodyOf(parsed)),
                           program     |-> GenerateHandler(embeds.frontmatter, info),
                           embedDeps   |-> embeds.deps]
             /\ stage' = "generated"
             /\ UNCHANGED diags
  /\ UNCHANGED <<file, parsed, embeds, info, shown, shadow, editor>>

-----------------------------------------------------------------------------
(* What becomes of the generated files.                                    *)

\* The parameters of the generated function the frontmatter may refer to.
Around == IF IsComponent THEN {} ELSE {"r", "w"}
DataKeys == IF IsComponent THEN {"Children"} ELSE {}

GoBuild ==
  /\ stage = "generated"
  /\ stage' = IF /\ GoBuilds(output.program, TRUE, Around)
                  /\ DataBuilds(output.program, DataKeys)
                  /\ RenderGoBuilds(file.card)
              THEN "built" ELSE "rejected"
  /\ UNCHANGED <<file, parsed, embeds, info, output, diags, shown, shadow, editor>>

\* The registry parses every template when the program starts.
Start ==
  /\ stage = "built"
  /\ stage' = IF RuntimeParses(output.template, KnownTo(parsed)) THEN "started" ELSE "panicked"
  /\ UNCHANGED <<file, parsed, embeds, info, output, diags, shown, shadow, editor>>

CallsCard == CompiledCalls(output.template) # {}

Render(dev) ==
  /\ stage = "started" /\ CallsCard
  /\ shown' = RenderComponent(PropsFields(file.card), file.call, dev)
  /\ stage' = IF dev THEN "rendered in development" ELSE "rendered in production"
  /\ UNCHANGED <<file, parsed, embeds, info, output, diags, shadow, editor>>

-----------------------------------------------------------------------------
(* The file in an editor.                                                  *)

OpenInEditor ==
  /\ stage \in {"built", "rejected", "failed"} /\ shadow.error = "closed"
  /\ shadow' = UpdateFile(file.lines, file.component)
  /\ editor' = RunTemplateDiagnostics(file.lines, file.card, file.call)
  /\ UNCHANGED <<file, stage, parsed, embeds, info, output, diags, shown>>

Next ==
  \/ OpenInEditor
  \/ ParseFile \/ ExpandEmbeds \/ Analyze \/ Validate \/ Generate
  \/ GoBuild \/ Start \/ \E dev \in BOOLEAN : Render(dev)

Spec == Init /\ [][Next]_vars

-----------------------------------------------------------------------------
(* Properties.  Where the code does not do what the property says, the     *)
(* property names the case; each of those is needed.                       *)

\* compileFile returns the output of the file, or nil when there is an error.
Accepted == stage \in {"generated", "built", "rejected", "started", "panicked"}

Frontmatter == parsed.frontmatter
Code        == embeds.frontmatter

\* The lines between the delimiters, as Go reads them, and where they begin.
Inner ==
  LET open  == OpenDelim(file.lines)
      close == IF open = {} THEN {} ELSE GoClose(file.lines, Min(open))
  IN IF close = {} THEN <<>> ELSE SubSeq(file.lines, Min(open) + 1, Min(close) - 1)

Offset == IF OpenDelim(file.lines) = {} THEN 0 ELSE Min(OpenDelim(file.lines))

LoneTick(ls) == \E i \in DOMAIN ls : ls[i].tick = "lone"
NotedImport(ls) == \E i \in DOMAIN ls : ls[i].arg = "noted"

\* A frontmatter is split from the template, and its imports from its code,
\* where Go would: a raw string may hold a delimiter or an import.  Not so when
\* a comment or a literal has a backtick in it; and an import with a comment
\* behind it is dropped without a word.
SectionsExact ==
  LET raw  == Raw(Inner)
      code == InOrder(GoCode(Inner, raw))
      at(S) == {i + Offset : i \in S}
  IN stage \in {"expand", "failed"} /\ Inner # <<>> /\ Readable(Inner, raw)
     /\ ~(\A i \in DOMAIN Inner : Inner[i].is = "blank")
     /\ ~LoneTick(file.lines)
     => IF parsed.error = ""
        THEN /\ ToSet(parsed.origin) = at(ToSet(TrimBlank(Inner, code)))
             /\ at({i \in GoImports(Inner, raw) : Inner[i].arg # "noted"})
                  = ToSet(parsed.imports) \cup ToSet(parsed.uses)
        ELSE /\ parsed.error = "import"
             /\ \E i \in GoImports(Inner, raw) : ParseImportSpec(Inner[i]) = "error"

\* The variable a directive stands right above, comments between them at most.
RightBelow(fm, i) == VarDecls(fm) \cap {Max(Group(fm, i)) + 1}

\* A directive with a statement right above its comments and a blank line below
\* them belongs, for go/ast, to what is above.
Trailing(fm, i) ==
  /\ Min(Group(fm, i)) - 1 \in Statements(fm)
  /\ Max(Group(fm, i)) + 1 \notin Statements(fm)

\* The variable below a directive with blank lines, or more groups of comments,
\* between them: go/ast attaches the directive to it all the same.
LooselyBelow(fm, i) ==
  {d \in VarDecls(fm) : /\ d > Max(Group(fm, i)) + 1 /\ ~Trailing(fm, i)
                        /\ \A j \in i + 1 .. d - 1 : j \notin Statements(fm)}

\* The lines of the frontmatter that something was embedded into.
Baked == {embeds.from[k] : k \in {j \in DOMAIN Code : Code[j].form = "baked"}}

\* What an accepted file embeds is in its code: into every variable right below a
\* directive, and into no other line.  Not so where blank lines are between the
\* two: the documents say that such a directive is refused, the code takes it.
\* A directive nothing claims is only reported by the editor, and compiles to an
\* empty variable.
EmbedsHonoured ==
  stage = "analyze" /\ Parses(Frontmatter) =>
    Baked = UNION {RightBelow(Frontmatter, i) \cup LooselyBelow(Frontmatter, i) :
                     i \in Directives(Frontmatter)}

\* A blank line, or a second group of comments, between the comments of a
\* directive and its variable: the rewrite writes neither back.
Swallows ==
  Parses(Frontmatter) /\ \E d \in Candidates(Frontmatter) : Swallowed(Frontmatter, d) # {}

\* A finding about a line of the frontmatter is shown at that line of the file,
\* whatever was taken out of the frontmatter or put into it before.
DiagnosticsAt ==
  stage \in {"validate", "failed"} /\ ~(embeds.error = "" /\ parsed.error = "" /\ Swallows) =>
    \A d \in diags :
      LET l == file.lines[d.line] IN
      /\ d.what = "hoist" => l.is \in Declared /\ ReferencesPerRequestScope(l.code)
      /\ d.what = "reserved field" => l.is = "type" /\ l.form = "Children"
      /\ d.what = "missing return" => \E j \in DOMAIN l.code : l.code[j][1] = "stmt"
      /\ d.what \in {"deprecated", "unknown symbol", "call it"} => Markers(l.code) # {}
      /\ d.what \in {"stacked", "orphan", "type", "missing file"} => l.is = "embed"

-----------------------------------------------------------------------------

Original == Written(Code, info)

\* A declaration refers to the request, by Go's scopes.
RefersToRequest(code) ==
  \E j \in DOMAIN code :
    \/ code[j][1] = "call" /\ code[j][2] \in PerRequestCalls
    \/ /\ j \in References(code) /\ code[j][2] \in {"r", "w"}
       /\ Sense(code, {}, j, {}, FALSE, {})[1] = "undefined"

\* The analysis has one scope for a function and none for a block: it reads
\* x.r, r: 1 and var r as references, and takes the r on the right of r := r
\* for the one on its left.
MisreadScope(code) ==
  \/ \E j \in DOMAIN code : code[j][1] \in {"field", "key", "local"} /\ code[j][2] \in {"r", "w"}
  \/ \E j \in DOMAIN code : code[j][1] = "define" /\ code[j][2] \in {"r", "w"}

\* A declaration that would run once but depends on the request is refused,
\* and no other.
RequestRefused ==
  stage \in {"validate", "failed"} /\ parsed.error = "" /\ embeds.error = "" =>
    LET decls == FuncDecls(Code) \cup GenDecls(Code)
    IN \A i \in decls :
         \/ MisreadScope(Code[i].code)
         \/ /\ info.error # "hoist" => ~RefersToRequest(Code[i].code)
            /\ info.error = "hoist" /\ info.line = i => RefersToRequest(Code[i].code)

\* The name of a hoisted declaration is bound again in a function or a block.
Shadows ==
  LET names == Names(Code, info.decls)
      binds(code) == \E k \in Binders(code) : code[k][2] \in names
  IN binds(info.code) \/ \E i \in info.decls : binds(Code[i].code)

\* A line of a raw string that looks like a func.
LooksLikeFunc == \E i \in Lines(Code, "func") : Raw(Code)[i]

\* A program that builds does what its frontmatter says: every name means what
\* it meant there, and no text of a string was taken for code.
BuiltAsWritten ==
  stage = "built" =>
    /\ Shadows \/ Repeated(Code, info) \/ Senses(output.program, TRUE, Around) = Senses(Original, FALSE, Around)
    /\ LooksLikeFunc \/ \A i \in info.decls : ~Raw(Code)[i]

\* A map literal that has a hoisted name for its key.
HoistedMapKey ==
  LET keys(code) == \E j \in DOMAIN code : code[j][1] = "mapkey" /\ code[j][2] \in Names(Code, info.decls)
  IN keys(info.code) \/ \E i \in info.decls : keys(Code[i].code)

\* A frontmatter that is valid Go is accepted by go build once it is generated.
\* Not so when it is one line that is hoisted, which is then there twice; when
\* it shadows a hoisted name or has one for a map key, when a func
\* has a marker in it or a variable is declared with another, when the template
\* would read a variable of a block, one of two of the same name, or Children;
\* nor when a component with children has props of a type of its own.
ValidBuilds ==
  stage = "rejected" =>
    \/ ~GoBuilds(Original, FALSE, Around)
    \/ Shadows \/ HoistedMapKey \/ Repeated(Code, info)
    \/ \E i \in info.decls : Code[i].form = "tuple"
    \/ \E i \in info.decls : Code[i].is = "func" /\ Markers(Code[i].code) # {}
    \/ \E j \in Markers(info.code) : ~RewrittenMarker(info.code[j])
    \/ ~DataBuilds(output.program, DataKeys)
    \/ ~RenderGoBuilds(file.card)

-----------------------------------------------------------------------------

\* The statements that answer the request.
Answers(code) ==
  {i \in DOMAIN code : /\ code[i][1] \in {"stmt", "assigned"}
                       /\ code[i][2] \in {"f(w)", "w.Write", "http.Redirect"}}

\* "Every write to w is followed by return" (docs/pages.md), or a warning comes:
\* for each write after which other statements may run and control leaves its
\* block with no return, be it the frontmatter or one within it.  None comes for a
\* write whose result is kept, for one in a case, nor where a break skips the
\* return, nor in a frontmatter with a func at its top level.  And it comes for no
\* other: for no call that only sets a header, and not where every way on returns;
\* but at the end of an inner block it does though nothing else would run.
ReturnsFollow ==
  stage = "validate" /\ BodyParses(Code) =>
    LET code  == FunctionBody(Code)
        found == FindMissingReturns(Code)
    IN /\ \A i \in Answers(code) :
            FallsOut(code, i) /\ RunsOn(code, i) =>
              \/ i \in found
              \/ code[i][1] = "assigned" \/ InCase(code, i) \/ BreaksOut(code, i)
       /\ \A i \in found :
            i \in Answers(code) /\ FallsOut(code, i) /\ (RunsOn(code, i) \/ Parent(code, i) # 0)

-----------------------------------------------------------------------------

Body == BodyOf(parsed)

\* A comment in a raw block stays a comment.
CommentInRaw == \E i \in DOMAIN Body : Body[i][1] = "comment" /\ \E j \in 1 .. i - 1 : Body[j][1] = "raw"

\* What a started program shows is the template as it is written: each wrap
\* around what it wraps, each raw block as text.
WrapsNest ==
  stage = "started" /\ ~CommentInRaw => Inlined(output.template) = WrittenTokens(Body)

CommentNames(name) == \E i \in DOMAIN Body : Body[i] = <<"comment", name>>

\* A call is checked against the fields the component has; but for a component
\* that declares another struct before its Props, against those of the other.
PropsChecked ==
  stage \in {"generated", "failed"} /\ parsed.error = "" /\ ValidatedCalls(Body) # {} =>
    \/ HasProps(file.card) /\ file.card.types[1].name # "Props"
    \/ ValidateDictKeys(Schema(file.card), file.call)
         = ValidateDictKeys(PropsFields(file.card), file.call)

\* The components the compiler has checked are those the template calls, and it
\* knows them all.  But a comment that ends a raw block for one pass only hides
\* calls from the check, and one with a wrap in it, {{- wrap and an end too many
\* hide them all.
CallsChecked ==
  /\ PropsChecked
  /\ stage = "generated" =>
       \/ CommentNames("endraw") \/ CommentNames("wrap")
       \/ Of(Tokens(Body), {"trimwrap"}) # {}
       \/ ~Balanced(WrittenTokens(Body), {"open", "wrap", "trimwrap"})
       \/ /\ ValidatedCalls(Body) = CompiledCalls(output.template)
          /\ \A i \in CompiledCalls(output.template) : Body[i][2] \in KnownTo(parsed)

-----------------------------------------------------------------------------

Given == Dict(file.call)

\* A literal that passes the check of the compiler passes that of the renderer,
\* and one the compiler refuses would fail there.  The compiler lets through a
\* number for a complex field, and an int no float64 holds for a float field.
LiteralsAgree ==
  stage \in {"generated", "failed"} /\ parsed.error = "" /\ file.call.entries # <<>> =>
    \A i \in DOMAIN PropsFields(file.card) :
      LET f == PropsFields(file.card)[i]
          v == Given[f.name]
      IN f.name \in DOMAIN Given /\ ~Computed(v) /\ f.type \notin Unresolved
         /\ ~(v.is \in Numbers /\ f.type = "complex")
         /\ ~(v.is = "int" /\ f.type \in Floats /\ ~ExactFloat(v))
         /\ ~(v.is = "int" /\ ~IsInt(v))
         => (StrictAssignable(v, f.type) <=> ~LiteralTypeMismatch(v, f.type))

\* A field has no way to take this number, which fits it.
NoWay(v, t) ==
  v.is \in Numbers /\ v.is # t /\ \/ t \in Uints
                                  \/ t \in Ints   /\ v.is \in {"int8"} \cup Uints
                                  \/ t \in Floats /\ v.is \in {"int8", "int64"} \cup Uints

\* Props that pass the checks are shown, as they were given.  But nothing at
\* all is shown when one is a number for an unsigned field, or of a width of
\* its own: it passes, and then cannot be stored.
PropsShown ==
  stage \in {"rendered in development", "rendered in production"} =>
    LET fields == PropsFields(file.card)
        given  == {i \in DOMAIN fields : fields[i].name \in DOMAIN Given /\ fields[i].type # "attrs"}
    IN CheckPropTypes(fields, Given) = {}
       /\ (\A i \in given : ~NoWay(Given[fields[i].name], fields[i].type))
       => \/ /\ shown.result = "violation" /\ stage = "rendered in development"
             /\ \E i \in DOMAIN fields : fields[i].required
          \/ /\ shown.result = "rendered"
             /\ \A i \in given : shown.props[i].x = Given[fields[i].name].x

-----------------------------------------------------------------------------

InEditor == shadow.error = "" /\ shadow.virtual # <<>>

\* An import below the first line of the code: no line of it is left.
ImportBelow ==
  \E i \in ToSet(parsed.imports) \cup ToSet(parsed.uses) : i > shadow.gastroStart

\* The first line of code was hoisted, and what is left was trimmed.
HoistedFirst ==
  \E k \in DOMAIN parsed.origin :
    parsed.origin[k] = shadow.gastroStart /\ k \in HoistDecls(Frontmatter).decls

\* What gopls finds in a line of the handler is shown at that line, and a
\* question about the line is asked about it.  Not so with an import below the
\* first line of code, when that line is hoisted, or when a comment has a
\* backtick in it.  What it finds in a hoisted declaration is not shown; below a
\* few lines of imports, it is, at an import.
PositionsAgree ==
  InEditor /\ stage \in {"built", "rejected"} /\ ~ImportBelow /\ ~HoistedFirst
    /\ Readable(Inner, Raw(Inner)) /\ ~LoneTick(file.lines) =>
    \A v \in {u \in DOMAIN shadow.virtual : shadow.virtual[u] # 0} :
      IF v >= shadow.virtualStart
      THEN ShownAt(shadow, v) = shadow.virtual[v] /\ AskedAt(shadow, shadow.virtual[v]) = v
      ELSE ShownAt(shadow, v) \in {0} \cup ToSet(parsed.imports) \cup ToSet(parsed.uses)

\* gopls finds fault with the code of a file when go build will, and knows the
\* props of a component as the generated package has them.  It knows the
\* declarations by the names of the source: it sees what the renaming gets
\* wrong as right, and finds fault with a name the generated file imports; and
\* it takes a struct in front of Props for Props.
ShadowAgrees ==
  shadow.error = "" /\ stage \in {"built", "rejected"} =>
    /\ \/ HasProps(file.card) /\ file.card.types[1].name # "Props"
       \/ WriteComponentStub(file.card) = RenderProps(file.card)
    /\ \/ Shadows \/ HoistedMapKey \/ \E i \in info.decls : Code[i].form = "tuple"
       \/ Names(Code, info.decls) \cap FileScope # {}
       \/ ~RenderGoBuilds(file.card)
       \/ GoplsAccepts(shadow, Around, DataKeys) <=> stage = "built"

Opened == shadow.error # "closed" /\ stage \in {"built", "rejected", "failed"}

Warned == {"bare Props", "missing return", "deprecated", "unknown symbol", "call it"}

\* An import above code, or a blank line at the top, was taken out.
TakenOut == \E k \in DOMAIN parsed.origin : parsed.origin[k] # EditorLine(parsed, k)

\* What the analysis says of a line, and what is wrong with an embed, the editor
\* shows as the compiler prints it, at the same line, and what a fix changes is
\* the variable of the directive.
FrontmatterAgrees ==
  ~TakenOut /\ ~Swallows /\ AnalyzeFrontmatter(Frontmatter).error = "" =>
    LET found(severity) == {d \in editor.frontmatter : d.severity = severity}
        mistyped == {d \in Candidates(Frontmatter) : DirectiveFault(Frontmatter, d) = "type"}
    IN /\ embeds.error = "" => found("warning") = {d \in diags : d.what \in Warned}
       /\ embeds.error # "" /\ found("error") # {} => found("error") = diags
       /\ editor.fixes = {parsed.origin[d] : d \in mistyped}

\* Of the calls in the template the editor says what the compiler says, but for
\* the types of literals.
TemplateAgrees ==
  info.error = "" /\ embeds.error = "" =>
    LET found    == {f \in editor.template : f[2] # "unknown variable"}
        compiled == {f \in TemplateFindings : f[2] # "prop type"}
    IN \/ ~Balanced(WrittenTokens(Body), {"open", "wrap", "trimwrap"})
       \/ CommentNames("wrap")
       \/ file.call.form = "wrap" /\ HasProps(file.card)
       \/ ~HasProps(file.card) /\ file.card.types # <<>>
       \/ found = compiled

\* .Children is unknown to the editor where the handler passes none.
ChildrenKnown ==
  LET passed == DataKeys \cup {info.code[j][2] : j \in info.exports}
  IN (stage \in {"built", "rejected"} /\ <<"error", "unknown variable", "Children">> \in editor.template) =>
       \/ "Children" \notin passed
       \/ ~info.isComponent /\ file.component

\* The editor and the compiler find the same in a file.  Not so, in the
\* frontmatter, below an import that was taken out; and in the template, when a
\* block in it is not closed, a comment has a wrap in it, a component with props
\* is wrapped around something without a dict, or one without has some other
\* struct, or uses .Children and never calls gastro.Props.
EditorAgrees == Opened /\ parsed.error = "" => FrontmatterAgrees /\ TemplateAgrees /\ ChildrenKnown
=============================================================================

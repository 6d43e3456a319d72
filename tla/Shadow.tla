------------------------------- MODULE Shadow -------------------------------
(***************************************************************************)
(* The editor's copy of a .gastro file: a Go file in a workspace of its    *)
(* own that gopls reads.  It is the code GenerateHandler emits, under the  *)
(* names of the source and with no embed expanded, and next to it is a     *)
(* stub for what the package of the generated code has.  Positions in the  *)
(* two files differ by one number, found by looking for the first line of  *)
(* code in each: in the copy by a line the template has above it, in the   *)
(* file by skipping what is taken out of the frontmatter.                  *)
(***************************************************************************)
EXTENDS Handler, Props

\* Mutant: the frontmatter begins where its lines do.
FirstLine(ls, first, last, isComponent) == first

\* firstFrontmatterContentLine: past blank lines, imports and, in a component,
\* types; the line of the closing delimiter is looked at too.
FirstFrontmatterContentLine(ls, first, last, isComponent) ==
  LET skip[i \in first .. last + 1] ==   \* are all lines before i skipped; is i in a group?
        IF i = first THEN <<TRUE, FALSE>>
        ELSE LET l == ls[i - 1] IN
             IF ~skip[i - 1][1] THEN <<FALSE, FALSE>>
             ELSE IF skip[i - 1][2] THEN <<TRUE, l.is # "close">>
             ELSE <<l.is \in {"blank", "open", "import"} \/ (isComponent /\ l.is = "type"), l.is = "open">>
      content == {i \in first .. last : skip[i][1] /\ ~skip[i + 1][1]}
  IN IF content = {} THEN first ELSE Min(content)

\* The lines of the file that the generated ones stand for, 0 for what the
\* template adds: hoisted declarations, in order, with a line between two.
HoistedBlock(decls, origin) ==
  LET sorted == SetToSortSeq(decls, <)
  IN FlattenSeq([k \in DOMAIN sorted |-> IF k = 1 THEN <<origin[sorted[k]]>> ELSE <<0, origin[sorted[k]]>>])

\* HoistTypeDeclarations: the lines that are types are gone.
TypesTakenOut(fm) == SelectSeq(fm, LAMBDA l : l.is # "type")

\* rewriteFrontmatter: what is left of the frontmatter, trimmed.  In a
\* component a type that is there again is taken out again.
HandlerBody(fm, info, isComponent) ==
  LET trim(rest) == TrimBlank(rest, [i \in DOMAIN rest |-> i])
  IN trim(IF ~Repeated(fm, info) THEN HoistDecls(fm).body
          ELSE IF isComponent THEN TypesTakenOut(fm) ELSE fm)

\* The lines of the template between the hoisted block and the frontmatter, up
\* to and with the blank line below FindFrontmatterStart's anchor.
Preamble(isComponent) == [k \in 1 .. IF isComponent THEN 60 ELSE 5 |-> 0]

\* The names every generated file imports something by.
FileScope == {"bytes", "fmt", "template", "log", "http", "gastroRuntime"}

\* With no prefix for the hoisted names, a renamed one is what it was.
Unrenamed(p) ==
  [p EXCEPT !.renamed = {},
            !.decls = [i \in DOMAIN p.decls |-> [line |-> p.decls[i].line, renamed |-> {}]]]

\* Mutant: the lines that use the variables the template reads are left out.
WithoutUses(fm, info) == [Unrenamed(GenerateHandler(fm, info)) EXCEPT !.exports = {}]

ShadowProgram(fm, info) == Unrenamed(GenerateHandler(fm, info))

NoShadow(error) == [error |-> error, virtual |-> <<>>, gastroStart |-> 1, virtualStart |-> 1,
                    endLine |-> 0, names |-> {}, program |-> <<>>]

\* UpdateFile; a file without a frontmatter gets an empty program.
WithBody(ls, p, info, above, body, isComponent) ==
  [error        |-> "",
   virtual      |-> above \o [k \in DOMAIN body |-> p.origin[body[k]]],
   gastroStart  |-> FirstFrontmatterContentLine(ls, p.fmLine, p.bodyLine - 1, isComponent),
   virtualStart |-> Len(above) + 1,
   endLine      |-> p.bodyLine - 1,
   names        |-> Names(p.frontmatter, info.decls),
   program      |-> ShadowProgram(p.frontmatter, info)]

GenerateVirtual(ls, p, info, isComponent) ==
  IF p.error # "" THEN NoShadow(p.error)
  ELSE IF p.fmLine = 0 THEN NoShadow("")
  ELSE IF info.error # "" THEN NoShadow(info.error)
  ELSE WithBody(ls, p, info, HoistedBlock(info.decls, p.origin) \o Preamble(isComponent),
                HandlerBody(p.frontmatter, info, isComponent), isComponent)

UpdateParsed(ls, p, info, component) == GenerateVirtual(ls, p, info, info.isComponent \/ component)

UpdateFile(ls, component) ==
  LET of(p) == UpdateParsed(ls, p, AnalyzeFrontmatter(p.frontmatter), component) IN of(Parse(ls))

\* scanComponents: what a component is to the stub, which is made once.
ScanComponent(c) == [hasProps |-> HasProps(c), fields |-> Schema(c), children |-> c.children]

\* writeComponentStub: every component has a struct.
WriteComponentStub(c) ==
  LET s == ScanComponent(c)
  IN [fields |-> IF s.hasProps \/ s.children THEN s.fields ELSE <<>>, children |-> s.children]

VirtualToGastro(s, v) == s.gastroStart + (v - s.virtualStart)
GastroToVirtual(s, g) == s.virtualStart + (g - s.gastroStart)

\* forwardToGopls: the line of the copy gopls is asked about, 0 if it is not asked.
AskedAt(s, g) == IF s.error # "" THEN 0 ELSE GastroToVirtual(s, g)

\* handleGoplsNotification: the line of the file a finding at line v is shown
\* at, 0 if it is not shown.
ShownAt(s, v) ==
  LET g == VirtualToGastro(s, v)
  IN IF g < 1 \/ (s.endLine > 0 /\ g >= s.endLine) THEN 0 ELSE g

\* gopls has nothing to say of the copy: it is Go, and none of its declarations
\* has the name of an import.
GoplsAccepts(s, around, keys) ==
  s.program # <<>> =>
    GoBuilds(s.program, FALSE, around) /\ DataBuilds(s.program, keys) /\ s.names \cap FileScope = {}
=============================================================================

------------------------------ MODULE Handler ------------------------------
(***************************************************************************)
(* GenerateHandler: the Go file of a page or a component.  The hoisted     *)
(* declarations get a name of their own in the package that all pages      *)
(* share, every reference to one is renamed, and the gastro.X markers are  *)
(* replaced by what they stand for.  The renaming knows no scopes.         *)
(*                                                                         *)
(* A program is its hoisted declarations, by the line they were on, and    *)
(* the code of its handler; renamed are the tokens that were given the     *)
(* package-scope name.  The frontmatter read as Go, which renames nothing, *)
(* is one, and the generated file is one; Go resolves both the same way.   *)
(***************************************************************************)
EXTENDS Hoisting

\* Mutant: what a hoisted declaration refers to keeps its name.
RewriteBodyRefs(code, names, skipDeclLHS) ==
  {j \in DOMAIN code : code[j][2] \in names /\ ~skipDeclLHS /\ code[j][1] \in {"use", "local"}}

\* refRewriter.Visit: a name in front of :=, of a parameter or a field, and a key of a
\* literal that is one identifier, stays.  A var in a block is renamed with
\* its references, but not in a hoisted declaration (skipDeclLHS).
RefRewriter(code, names, skipDeclLHS) ==
  {j \in DOMAIN code : /\ code[j][2] \in names
                       /\ \/ code[j][1] = "use"
                          \/ code[j][1] = "local" /\ ~skipDeclLHS}

RewriteHoistedRefs(code, names) == RefRewriter(code, names, FALSE)
RewriteHoistedRefsInDecl(code, names) == RefRewriter(code, names, TRUE)

\* rewriteGastroMarkers replaces a call of a marker, and the name of one that is
\* not only a call.
RewrittenMarker(t) ==
  \/ t[1] = "call" /\ t[2] \in MarkerAllowlist
  \/ t[1] = "bare" /\ t[2] \in MarkerAllowlist \ {"Props", "Context", "Render"}

Markers(code) == {j \in DOMAIN code : code[j][1] \in {"call", "bare"}}

\* The markers of a func are left as they are: it does not parse in the body of
\* a function.
LeftMarkers(code, isFunc) == {j \in Markers(code) : isFunc \/ ~RewrittenMarker(code[j])}

Names(fm, decls) == {fm[i].arg : i \in decls}

Program(fm, info, decls, code, renamed, body, left) ==
  [decls   |-> [i \in decls |-> [line |-> fm[i], renamed |-> renamed[i]]],
   code    |-> code,
   renamed |-> body,
   exports |-> info.exports,
   left    |-> left]

\* The frontmatter as it is written.
Written(fm, info) == Program(fm, info, info.decls, info.code, [i \in info.decls |-> {}], {}, {})

\* An empty body is taken for one that was not analysed: a frontmatter of one
\* line that is hoisted goes into the handler as well.
Repeated(fm, info) == Len(fm) = 1 /\ info.decls = {1}

HandlerCode(fm, info) ==
  IF ~Repeated(fm, info) THEN info.code
  ELSE IF fm[1].is = "func" THEN <<<<"func", fm[1].arg>>>>
  ELSE IF fm[1].is = "var" THEN <<<<"local", fm[1].arg>>>> \o fm[1].code
  ELSE fm[1].code

GenerateHandler(fm, info) ==
  LET names == Names(fm, info.decls)
      code  == HandlerCode(fm, info)
  IN Program(fm, info, info.decls, code,
             [i \in info.decls |-> RewriteHoistedRefsInDecl(fm[i].code, names)],
             RewriteHoistedRefs(code, names),
             {<<i, LeftMarkers(fm[i].code, fm[i].is = "func")>> : i \in info.decls}
               \cup {<<0, LeftMarkers(code, FALSE)>>})

-----------------------------------------------------------------------------
(* Go's scopes, outside the repository.                                    *)

References(code) == {j \in DOMAIN code : code[j][1] \in {"use", "mapkey"}}
Binders(code)    == {j \in DOMAIN code : code[j][1] \in {"fn", "defined", "local"}}

\* What binder k introduces is in scope at token j.
InScope(code, k, j) == k < j /\ \A i \in k .. j : Depth(code, i) >= Depth(code, k)

\* What token j refers to: a local variable by where it is bound, a declaration
\* of the package, something around the package's code, or nothing.  mangled
\* tells whether the package's declarations carry the mangled names.
Sense(code, renamed, j, package, mangled, around) ==
  LET n      == code[j][2]
      locals == {k \in Binders(code) : /\ code[k][2] = n /\ (k \in renamed) = (j \in renamed)
                                       /\ InScope(code, k, j)}
  IN CASE locals # {} -> <<"local", n, Max(locals)>>
       [] locals = {} /\ n \in package /\ (j \in renamed) = mangled -> <<"package", n, 0>>
       [] locals = {} /\ n \in around /\ j \notin renamed -> <<"around", n, 0>>
       [] OTHER -> <<"undefined", n, 0>>

\* The senses of all references of a program.
Senses(p, mangled, around) ==
  LET package == {p.decls[i].line.arg : i \in DOMAIN p.decls}
      of(i)   == LET d == p.decls[i] IN
                 [j \in References(d.line.code) |->
                    Sense(d.line.code, d.renamed, j, package, mangled, {})]
  IN [decls |-> [i \in DOMAIN p.decls |-> of(i)],
      body  |-> [j \in References(p.code) |->
                   Sense(p.code, p.renamed, j, package, mangled, around)]]

\* A variable in a function must be used, and := must introduce one.
UsedLocals(code, senses, also) ==
  \A k \in Binders(code) :
    \/ code[k][1] = "fn" \/ code[k][2] = "_" \/ k \in also
    \/ \E j \in DOMAIN senses : senses[j] = <<"local", code[k][2], k>>

NewLocals(code) ==
  \A k, l \in {b \in Binders(code) : code[b][1] # "fn" /\ code[b][2] # "_"} :
    k # l /\ code[k][2] = code[l][2] => ~(InScope(code, k, l) /\ Depth(code, k) = Depth(code, l))

\* The local variable the template reads as the name token j introduces: it is in scope
\* after the last line, or there is none.
DataLocal(code, j) ==
  {k \in Binders(code) : /\ code[k][2] = code[j][2] /\ code[k][1] # "fn"
                         /\ \A i \in k .. Len(code) : Depth(code, i) >= Depth(code, k)}

\* go build accepts the program: a func in a func is none of Go's.
GoBuilds(p, mangled, around) ==
  LET senses  == Senses(p, mangled, around)
      again   == {k \in DOMAIN p.code : /\ p.code[k][1] = "local" /\ p.code[k][2] \in Exported
                                        /\ \E i \in DOMAIN p.decls : p.decls[i].line.arg = p.code[k][2]}
      read    == UNION {DataLocal(p.code, j) : j \in p.exports \cup again}
  IN /\ \A i, k \in DOMAIN p.decls :
          i # k => p.decls[i].line.arg # p.decls[k].line.arg \/ p.decls[i].line.arg = "init"
     /\ \A i \in DOMAIN p.decls : \A j \in DOMAIN senses.decls[i] : senses.decls[i][j][1] # "undefined"
     /\ \A j \in DOMAIN senses.body : senses.body[j][1] # "undefined"
     /\ \A i \in DOMAIN p.decls : /\ UsedLocals(p.decls[i].line.code, senses.decls[i], {})
                                  /\ NewLocals(p.decls[i].line.code)
     /\ UsedLocals(p.code, senses.body, read) /\ NewLocals(p.code)
     /\ \A x \in p.left : x[2] = {}
     /\ \A j \in DOMAIN p.code : p.code[j][1] # "func"
     /\ \A i \in DOMAIN p.decls : p.decls[i].line.form # "tuple" \/ ~mangled

\* The handler's __data map has a key for each name the template reads, which
\* is in scope at its end, beside those in keys.
DataBuilds(p, keys) ==
  LET hoisted == {i \in DOMAIN p.decls : /\ p.decls[i].line.is \in {"var", "const"}
                                         /\ p.decls[i].line.arg \in Exported}
      taken   == {p.decls[i].line.arg : i \in hoisted} \cup keys
  IN /\ \A i \in hoisted : p.decls[i].line.arg \notin keys
     /\ \A j \in p.exports : p.code[j][2] \notin taken /\ DataLocal(p.code, j) # {}
     /\ \A j, k \in p.exports : j # k => p.code[j][2] # p.code[k][2]
=============================================================================

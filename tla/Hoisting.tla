------------------------------ MODULE Hoisting ------------------------------
(***************************************************************************)
(* The analysis of a frontmatter.  The declarations at its top level run   *)
(* once, at package scope, so one that refers to the request is refused;   *)
(* what is left runs in the handler, for each request.                     *)
(*                                                                         *)
(* Go code is the sequence of the identifiers that matter in it, each      *)
(* <<tag, name>>:                                                          *)
(*   use n, mapkey n       a reference to n; one as a key of a map literal *)
(*   field n, key n        x.n; the key of a struct literal                *)
(*   define n, defined n   n := ..., around what is on its right           *)
(*   local n               var n in a block                                *)
(*   fn n, end             a func literal, or a func decl, with parameter n *)
(*   if, loop, switch, case, end   the blocks and the clauses of Go        *)
(*   call m, bare m        gastro.m(...), and gastro.m without a call      *)
(*   return, break, stmt s, assigned s   statements, see module Returns    *)
(***************************************************************************)
EXTENDS Embeds

CONSTANT Exported   \* the names that begin with an upper case letter

ASSUME ExportedAssumption == "_" \notin Exported

Blocks   == {"fn", "if", "loop", "switch", "case"}
Declared == {"var", "const", "type", "func"}

\* How deep the token i leaves the code nested.
Depth(code, i) ==
  Cardinality({k \in 1 .. i : code[k][1] \in Blocks}) - Cardinality({k \in 1 .. i : code[k][1] = "end"})

-----------------------------------------------------------------------------
(* freevars.go: ReferencesPerRequestScope.                                 *)

PerRequestCalls ==
  {"Props", "Context", "Children", "From", "FromOK", "FromContext", "FromContextOK", "Render"}

\* One scope for each function: a name a := binds is bound in all the rest of
\* its function, its own right hand side included.
FreeVars(code) ==
  LET bound(s, n) == \E k \in DOMAIN s.scopes : n \in s.scopes[k]
      bind(s, n)  == [s EXCEPT !.scopes = [@ EXCEPT ![Len(@)] = @ \cup {n}]]
      visit(s, t) ==
        CASE t[1] = "fn" -> [s EXCEPT !.open = Append(@, "fn"), !.scopes = Append(@, {t[2]})]
          [] t[1] \in Blocks \ {"fn"} -> [s EXCEPT !.open = Append(@, "block")]
          [] t[1] = "end" -> [s EXCEPT !.open = Front(@),
                                       !.scopes = IF Last(s.open) = "fn" THEN Front(@) ELSE @]
          [] t[1] = "define" /\ t[2] # "_" -> bind(s, t[2])
          [] t[1] \in {"use", "mapkey", "field", "key", "local"} ->
               [s EXCEPT !.found = @ \/ (t[2] \in {"r", "w"} /\ ~bound(s, t[2]))]
          [] t[1] = "call" -> [s EXCEPT !.found = @ \/ t[2] \in PerRequestCalls]
          [] OTHER -> s
  IN FoldLeft(visit, [open |-> <<>>, scopes |-> <<{}>>, found |-> FALSE], code)

ReferencesPerRequestScope(code) == FreeVars(code).found

-----------------------------------------------------------------------------
(* hoist.go: HoistDecls.                                                   *)

\* extractFuncDecls reads lines, raw strings and all; it leaves methods, and a
\* func whose braces it counts wrong.
FuncDecls(fm) == {i \in Lines(fm, "func") : fm[i].form \notin {"method", "braces"}}

\* What the funcs leave must parse as the body of a function.
RestParses(fm) == Parses(fm) /\ \A i \in Lines(fm, "func") : i \in FuncDecls(fm) \/ Raw(fm)[i]

\* Mutant: the lines of a raw string are looked at too.
GenDeclLines(fm) ==
  IF RestParses(fm) THEN {i \in DOMAIN fm : fm[i].is \in {"var", "const", "type"} /\ fm[i].arg # "_"}
  ELSE {}

GenDecls(fm) ==
  IF RestParses(fm)
  THEN {i \in DOMAIN fm : ~Raw(fm)[i] /\ fm[i].is \in {"var", "const", "type"} /\ fm[i].arg # "_"}
  ELSE {}

\* Mutant: funcs are hoisted unseen.
GenDeclFaults(fm) == {i \in GenDecls(fm) : ReferencesPerRequestScope(fm[i].code)}

\* The first func that refers to the request is reported before any other
\* declaration is looked at.
HoistFaults(fm) ==
  LET first(hits, rest) == IF hits # {} THEN hits ELSE rest
      hits(decls) == {i \in decls : ReferencesPerRequestScope(fm[i].code)}
  IN first(hits(FuncDecls(fm)), hits(GenDecls(fm)))

Hoisted(fm, decls, faults) ==
  [error |-> IF faults = {} THEN 0 ELSE Min(faults),
   decls |-> IF faults = {} THEN decls ELSE {},
   body  |-> [i \in DOMAIN fm |-> IF i \in decls THEN Bare("blank") ELSE fm[i]]]

HoistDecls(fm) == Hoisted(fm, FuncDecls(fm) \cup GenDecls(fm), HoistFaults(fm))

-----------------------------------------------------------------------------
(* analyze.go: AnalyzeFrontmatter.                                         *)

\* The code of the lines that stay.
BodyCode(body) == FlattenSeq([i \in DOMAIN body |-> body[i].code])

Calls(code, m) == {j \in DOMAIN code : code[j] = <<"call", m>>}

\* The variables the template sees: the hoisted ones, by line, and every name
\* a := or a var of the rest introduces, in whatever block, by token.
HoistedExports(fm, decls) == {i \in decls : fm[i].is \in {"var", "const"} /\ fm[i].arg \in Exported}
BodyExports(code) == {j \in DOMAIN code : code[j][1] \in {"define", "local"} /\ code[j][2] \in Exported}

PropsTypes(fm, decls) == {i \in decls : fm[i].is = "type" /\ fm[i].arg = "Props"}

HoistedDeclIsStruct(l) == l.form # "alias"

\* findReservedPropsField: a Props with a field of its own, or embedded, named Children.
FindReservedPropsField(fm, decls) == {i \in PropsTypes(fm, decls) : fm[i].form = "Children"}

ValidateFrontmatter(fm, decls, code) ==
  LET types == PropsTypes(fm, decls)
  IN CASE Calls(code, "Context") # {} /\ Calls(code, "Props") # {} -> "page and component"
       [] Calls(code, "Props") # {} /\ types = {}                  -> "no Props type"
       [] Cardinality(types) > 1                                   -> "two Props types"
       [] \E i \in types : ~HoistedDeclIsStruct(fm[i])                    -> "Props not a struct"
       [] OTHER                                                    -> ""

\* A line that ends up with := and a bare gastro.Props() on its right.
BareProps(code) ==
  {j \in BodyExports(code) : j + 1 \in Calls(code, "Props") /\ code[j][1] = "define"
                             /\ j + 2 \in DOMAIN code /\ code[j + 2][1] = "defined"}

\* findLineInFrontmatter: the first line that has the text, in a string or not.
FindLineInFrontmatter(fm, name) ==
  LET found == {i \in DOMAIN fm : \E j \in BareProps(fm[i].code) : fm[i].code[j][2] = name}
  IN IF found = {} THEN 1 ELSE Min(found)

MarkerAllowlist == {"From", "FromOK", "FromContext", "FromContextOK", "NewSSE", "Attrs",
                    "Props", "Context", "Render"}

\* What rewriteGastroMarkers has to say of a token, "" if nothing.
MarkerWarning(t) ==
  CASE t = <<"call", "Context">>                                        -> "deprecated"
    [] t[1] \in {"call", "bare"} /\ t[2] \notin MarkerAllowlist         -> "unknown symbol"
    [] t[1] = "bare" /\ t[2] \in {"Props", "Context", "Render"}         -> "call it"
    [] OTHER                                                            -> ""

\* The marker and the missing-return passes read the whole frontmatter as the
\* body of a function, funcs included.
BodyParses(fm) == Parses(fm) /\ \A i \in Lines(fm, "func") : Raw(fm)[i]

MarkerWarnings(fm) ==
  IF ~BodyParses(fm) THEN {}
  ELSE UNION {{<<MarkerWarning(t), i>> : t \in {u \in ToSet(fm[i].code) : MarkerWarning(u) # ""}} :
                i \in DOMAIN fm}

AnalysisError(what, line) ==
  [error |-> what, line |-> line, decls |-> {}, code |-> <<>>,
   exports |-> {}, isPage |-> FALSE, isComponent |-> FALSE, warnings |-> {}]

\* What is left to find once the declarations decls are hoisted out of the code.
AnalyzeBody(fm, decls, code) ==
  IF FindReservedPropsField(fm, decls) # {}
  THEN AnalysisError("reserved field", Min(FindReservedPropsField(fm, decls)))
  ELSE IF ValidateFrontmatter(fm, decls, code) # ""
  THEN AnalysisError(ValidateFrontmatter(fm, decls, code), 0)
  ELSE [error       |-> "",
        line        |-> 0,
        decls       |-> decls,
        code        |-> code,
        exports     |-> BodyExports(code),
        isPage      |-> Calls(code, "Context") # {},
        isComponent |-> Calls(code, "Props") # {},
        warnings    |-> {<<"bare Props", FindLineInFrontmatter(fm, code[j][2])>> : j \in BareProps(code)}
                        \cup MarkerWarnings(fm)]

AnalyzeHoisted(fm, h) ==
  IF h.error # 0 THEN AnalysisError("hoist", h.error)
  ELSE IF ~RestParses(fm) THEN AnalysisError("parse", 0)
  ELSE AnalyzeBody(fm, h.decls, BodyCode(h.body))

AnalyzeFrontmatter(fm) == AnalyzeHoisted(fm, HoistDecls(fm))
=============================================================================

---------------------------- MODULE GenerateTree ----------------------------
(***************************************************************************)
(* compiler.Compile: the sources in pages/, components/ and static/ become *)
(* the tree .gastro/, file by file and in place.  `gastro generate', the   *)
(* cycles of `gastro dev' and `gastro watch' and `gastro build' all run    *)
(* it, while a go build, a development server or `gastro check' may read   *)
(* the tree; it may be killed, and any write may fail, between two steps.  *)
(* One Compile runs at a time; DevLoop is about cycles that overlap.       *)
(*                                                                         *)
(* A generated file is what it declares and refers to: see Declares and    *)
(* Refers.                                                                 *)
(***************************************************************************)
EXTENDS Names, FiniteSets

CONSTANTS Files,      \* paths that may exist under pages/ and components/
          MaxFiles,   \* bound on the files that exist at one time
          MaxEdits,   \* bound on the developer's edits
          Absent, Torn

\* What a file imports; one that does not compile is given no imports.
Text == [uses : SUBSET Components(Files), fault : {FALSE}] \cup [uses : {{}}, fault : {TRUE}]

\* What a generated file can be made from.
AnyHandler == [of : Files, text : Text]
AnyEmbed   == [static : BOOLEAN]
AnyRoutes  == [files : SUBSET Files, static : BOOLEAN, uses : SUBSET Files]
AnyRender  == [components : SUBSET Files]

ASSUME GenerateTreeAssumption ==
  /\ IsFiniteSet(Files) /\ Files \subseteq AnyPath
  /\ MaxFiles \in Nat /\ MaxEdits \in Nat
  /\ Absent # Torn /\ Absent \notin Files
  /\ {Absent, Torn} \cap (Text \cup AnyHandler \cup AnyEmbed \cup AnyRoutes \cup AnyRender) = {}

VARIABLES src,      \* the text of each file, or Absent
          assets,   \* static/ has a file
          edits,
          go, tmp,  \* the .go files of .gastro/, and their .tmp siblings
          tpl,      \* the files of .gastro/templates/
          static,   \* .gastro/static/
          pc,       \* where Compile is
          todo,     \* the files it has yet to compile, and then to write
          read,     \* the texts it read
          missing,  \* a file went between the walk and its read
          file,     \* the file it is writing
          io,       \* writeGoFile: nothing yet, the .tmp open, the .tmp written
          hasStatic,
          outcome,  \* how the last Compile ended
          litter    \* history: static/ went after it had been copied, or a
                    \* Compile ended between a .tmp and its rename

sources == <<src, assets, edits>>
tree    == <<go, tmp, tpl, static>>
compile == <<pc, todo, read, missing, file, io, hasStatic, outcome>>
vars    == <<sources, tree, compile, litter>>

Embed   == Path("embed.go", <<>>)
RouteGo == Path("routes.go", <<>>)
Render  == Path("render.go", <<>>)

Handlers  == {OutputGoFile(f) : f \in Files}
GoFiles   == Handlers \cup {Embed, RouteGo, Render}
Templates == {OutputTemplateFile(f) : f \in Files}

-----------------------------------------------------------------------------
(* What is generated from the texts read.                                  *)

AllFiles == {f \in Files : read[f] # Absent}

HandlerCode(f) == [of |-> f, text |-> read[f]]

EmbedCode == [static |-> hasStatic]

RoutesCode ==
  [files |-> AllFiles, static |-> hasStatic, uses |-> UNION {read[f].uses : f \in AllFiles}]

RenderCode == [components |-> Components(AllFiles)]

Symbol(sort, name) == [sort |-> sort, name |-> name]

\* Package-level identifiers and methods of *Router.
Declares(n, code) ==
  CASE n = Embed   -> {}
    [] n = RouteGo -> {Symbol("exported", x) : x \in GeneratedIdentifiers}
    [] n = Render  -> {Symbol("exported", ExportedComponentName(f)) : f \in code.components}
                      \cup {Symbol("exported", PropsType(f)) : f \in code.components}
    [] OTHER       -> {Symbol("method", HandlerFuncName(code.of)),
                       Symbol("hoisted", DerivePageID(code.of))}

Refers(n, code) ==
  CASE n = RouteGo -> {Symbol("method", RouteToFuncName(f)) : f \in Pages(code.files)}
                      \cup {Symbol("method", HandlerFuncName(f)) : f \in code.uses}
    [] n = Render  -> {Symbol("method", HandlerFuncName(f)) : f \in code.components}
                      \cup {Symbol("hoisted", DerivePageID(f)) : f \in code.components}
                      \cup {Symbol("exported", <<"router">>)}
    [] n = Embed   -> {}
    [] OTHER       -> {Symbol("exported", <<"router">>)}

Live == {n \in GoFiles : go[n] # Absent}

\* go build accepts the package (a //go:embed that matches no file is an error)
\* and New finds the templates it registers.
Builds ==
  /\ {Embed, RouteGo} \subseteq Live /\ \A n \in Live : go[n] # Torn
  /\ \A n \in Live : \A s \in Refers(n, go[n]) : \E m \in Live : s \in Declares(m, go[m])
  /\ \A n, m \in Live : n # m => Declares(n, go[n]) \cap Declares(m, go[m]) = {}
  /\ Render \in Live =>
       Cardinality(Declares(Render, go[Render])) = 2 * Cardinality(go[Render].components)
  /\ \E t \in Templates : tpl[t] # Absent
  /\ go[Embed].static => static = "copied"
  /\ \A f \in go[RouteGo].files : tpl[OutputTemplateFile(f)] \notin {Absent, Torn}

-----------------------------------------------------------------------------

Nothing == [f \in Files |-> Absent]

Importing(files) == [uses |-> files, fault |-> FALSE]

Contents(n) ==
  {Absent, Torn} \cup
  CASE n = Embed   -> AnyEmbed
    [] n = RouteGo -> AnyRoutes
    [] n = Render  -> AnyRender
    [] OTHER       -> AnyHandler

TypeOK ==
  /\ src \in [Files -> Text \cup {Absent}] /\ read \in [Files -> Text \cup {Absent}]
  /\ edits \in 0 .. MaxEdits
  /\ DOMAIN go = GoFiles /\ DOMAIN tmp = GoFiles
  /\ \A n \in GoFiles : go[n] \in Contents(n) /\ tmp[n] \in Contents(n)
  /\ tpl \in [Templates -> Text \cup {Absent, Torn}]
  /\ static \in {"absent", "copied"}
  /\ pc \in {"idle", "compile", "template", "fill", "handler", "static", "copy",
             "embed", "routes", "render", "prune"}
  /\ todo \subseteq Files /\ file \in Files \cup {Absent}
  /\ io \in {"start", "open", "filled"}
  /\ outcome \in {"none", "errors", "failed", "ok"}
  /\ {assets, missing, hasStatic, litter} \subseteq BOOLEAN

Init ==
  /\ \E present \in SUBSET Files :
       /\ Cardinality(present) <= MaxFiles
       /\ src = [f \in Files |->
                   IF f \in present THEN Importing(Components(present) \ {f}) ELSE Absent]
  /\ assets \in BOOLEAN /\ edits = 0
  /\ go = [n \in GoFiles |-> Absent] /\ tmp = go
  /\ tpl = [t \in Templates |-> Absent] /\ static = "absent"
  /\ pc = "idle" /\ todo = {} /\ read = Nothing /\ missing = FALSE
  /\ file = Absent /\ io = "start" /\ hasStatic = FALSE /\ outcome = "none"
  /\ litter = FALSE

\* The developer writes or deletes a page or a component, or fills or empties
\* static/.
Edit ==
  /\ edits < MaxEdits /\ edits' = edits + 1
  /\ \/ \E f \in Files, new \in Text \cup {Absent} :
          /\ new # src[f] /\ src' = [src EXCEPT ![f] = new]
          /\ Cardinality({g \in Files : src'[g] # Absent}) <= MaxFiles
          /\ UNCHANGED assets
     \/ assets' = ~assets /\ UNCHANGED src
  /\ UNCHANGED <<tree, compile, litter>>

-----------------------------------------------------------------------------
(* Compile: everything is read and compiled in memory first.               *)

DiscoverFiles ==
  /\ pc = "idle" /\ pc' = "compile"
  /\ todo' = {f \in Files : src[f] # Absent}
  /\ read' = Nothing /\ missing' = FALSE /\ hasStatic' = FALSE /\ outcome' = "none"
  /\ UNCHANGED <<sources, tree, file, io, litter>>

\* A file that has gone since is an error.
CompileFile(f) ==
  /\ pc = "compile" /\ f \in todo
  /\ todo' = todo \ {f}
  /\ read' = [read EXCEPT ![f] = src[f]]
  /\ missing' = (missing \/ src[f] = Absent)
  /\ UNCHANGED <<sources, tree, pc, file, io, hasStatic, outcome, litter>>

Warnings(files) == PageIDCollision(files) \/ ComponentNameCollision(files)

Errors ==
  \/ missing
  \/ \E f \in AllFiles : read[f].fault
  \/ GeneratedIdentifierClash(AllFiles)

\* With Strict (generate, build and check) a warning is an error.
Diagnosed ==
  /\ pc = "compile" /\ todo = {} /\ (Errors \/ Warnings(AllFiles))
  /\ pc' = "idle" /\ outcome' = "errors"
  /\ read' = Nothing /\ missing' = FALSE
  /\ UNCHANGED <<sources, tree, todo, file, io, hasStatic, litter>>

\* Mutant: what compiled is written although something else did not.
CompiledPartly ==
  /\ pc = "compile" /\ todo = {} /\ ~GeneratedIdentifierClash(AllFiles)
  /\ pc' = "template" /\ todo' = AllFiles
  /\ UNCHANGED <<sources, tree, read, missing, file, io, hasStatic, outcome, litter>>

Compiled ==
  /\ pc = "compile" /\ todo = {} /\ ~Errors
  /\ pc' = "template" /\ todo' = AllFiles
  /\ UNCHANGED <<sources, tree, read, missing, file, io, hasStatic, outcome, litter>>

-----------------------------------------------------------------------------
(* Only then is the tree touched: each file's template and handler, the    *)
(* copy of static/, embed.go, routes.go, render.go.                        *)

\* os.WriteFile truncates the file before it writes it.
OpenTemplate(f) ==
  /\ pc = "template" /\ f \in todo
  /\ pc' = "fill" /\ file' = f
  /\ tpl' = [tpl EXCEPT ![OutputTemplateFile(f)] = Torn]
  /\ UNCHANGED <<sources, go, tmp, static, todo, read, missing, io, hasStatic, outcome, litter>>

FillTemplate ==
  /\ pc = "fill" /\ pc' = "handler"
  /\ tpl' = [tpl EXCEPT ![OutputTemplateFile(file)] = read[file]]
  /\ UNCHANGED <<sources, go, tmp, static, todo, read, missing, file, io, hasStatic, outcome, litter>>

TemplatesWritten ==
  /\ pc = "template" /\ todo = {} /\ pc' = "static"
  /\ UNCHANGED <<sources, tree, todo, read, missing, file, io, hasStatic, outcome, litter>>

\* syncStatic removes the old copy and makes a new one.  Without static/ it is
\* not called.
SyncStatic ==
  /\ pc = "static" /\ hasStatic' = assets
  /\ IF assets
     THEN pc' = "copy" /\ static' = "absent" /\ UNCHANGED litter
     ELSE pc' = "embed" /\ UNCHANGED static /\ litter' = (litter \/ static = "copied")
  /\ UNCHANGED <<sources, go, tmp, tpl, todo, read, missing, file, io, outcome>>

CopyDir ==
  /\ pc = "copy" /\ pc' = "embed"
  /\ static' = "copied"
  /\ UNCHANGED <<sources, go, tmp, tpl, todo, read, missing, file, io, hasStatic, outcome, litter>>

\* What writeGoFile writes, and what comes after it.
Writing == pc \in {"handler", "embed", "routes", "render"}

Target ==
  CASE pc = "handler" -> OutputGoFile(file)
    [] pc = "embed"   -> Embed
    [] pc = "routes"  -> RouteGo
    [] pc = "render"  -> Render

Code ==
  CASE pc = "handler" -> HandlerCode(file)
    [] pc = "embed"   -> EmbedCode
    [] pc = "routes"  -> RoutesCode
    [] pc = "render"  -> RenderCode

\* render.go is written when there is a component.
NextPlace ==
  CASE pc = "handler" -> "template"
    [] pc = "embed"   -> "routes"
    [] pc = "routes"  -> IF Components(AllFiles) = {} THEN "prune" ELSE "render"
    [] pc = "render"  -> "prune"

Written ==
  /\ pc' = NextPlace /\ io' = "start"
  /\ todo' = todo \ {file} /\ file' = Absent
  /\ UNCHANGED <<sources, tpl, static, read, missing, hasStatic, outcome, litter>>

\* Mutant: an existing file is taken for the right one.
SkipExisting == Writing /\ io = "start" /\ go[Target] # Absent /\ Written /\ UNCHANGED <<go, tmp>>

\* A file that already is as it should be is not touched.
SkipEqual == Writing /\ io = "start" /\ go[Target] = Code /\ Written /\ UNCHANGED <<go, tmp>>

OpenTmp ==
  /\ Writing /\ io = "start" /\ go[Target] # Code
  /\ tmp' = [tmp EXCEPT ![Target] = Torn]
  /\ io' = "open"
  /\ UNCHANGED <<sources, go, tpl, static, pc, todo, read, missing, file, hasStatic, outcome, litter>>

FillTmp ==
  /\ io = "open" /\ io' = "filled"
  /\ tmp' = [tmp EXCEPT ![Target] = Code]
  /\ UNCHANGED <<sources, go, tpl, static, pc, todo, read, missing, file, hasStatic, outcome, litter>>

\* Mutant: the file is renamed before it is written.
RenameEarly ==
  /\ io = "open"
  /\ go' = [go EXCEPT ![Target] = tmp[Target]]
  /\ tmp' = [tmp EXCEPT ![Target] = Absent]
  /\ Written

Rename ==
  /\ io = "filled"
  /\ go' = [go EXCEPT ![Target] = tmp[Target]]
  /\ tmp' = [tmp EXCEPT ![Target] = Absent]
  /\ Written

WriteGoFile == SkipEqual \/ OpenTmp \/ FillTmp \/ Rename

-----------------------------------------------------------------------------
(* pruneStaleOutputs, in the order of the directory: the handlers, then    *)
(* render.go, then the templates.                                          *)

\* Mutant: only the pages' handlers are kept.
KeepGoPages == {Embed, RouteGo, Render} \cup {OutputGoFile(f) : f \in Pages(AllFiles)}

KeepGo ==
  {Embed, RouteGo} \cup {OutputGoFile(f) : f \in AllFiles}
  \cup (IF Components(AllFiles) = {} THEN {} ELSE {Render})

KeepTemplates == {OutputTemplateFile(f) : f \in AllFiles}

StaleGo        == {n \in GoFiles : go[n] # Absent} \ KeepGo
StaleTemplates == {t \in Templates : tpl[t] # Absent} \ KeepTemplates

PruneGo ==
  /\ pc = "prune"
  /\ \E n \in StaleGo :
       /\ n = Render => StaleGo = {Render}
       /\ go' = [go EXCEPT ![n] = Absent]
  /\ UNCHANGED <<sources, tmp, tpl, static, compile, litter>>

PruneTemplate ==
  /\ pc = "prune" /\ StaleGo = {}
  /\ \E t \in StaleTemplates : tpl' = [tpl EXCEPT ![t] = Absent]
  /\ UNCHANGED <<sources, go, tmp, static, compile, litter>>

CompileEnds ==
  /\ pc = "prune" /\ StaleGo = {} /\ StaleTemplates = {}
  /\ pc' = "idle" /\ outcome' = "ok"
  /\ UNCHANGED <<sources, tree, todo, read, missing, file, io, hasStatic, litter>>

\* The process is killed, or a write fails; after a failed rename the .tmp is
\* removed.
CompileFails ==
  /\ pc # "idle"
  /\ pc' = "idle" /\ outcome' = "failed"
  /\ todo' = {} /\ read' = Nothing /\ missing' = FALSE
  /\ file' = Absent /\ io' = "start" /\ hasStatic' = FALSE
  /\ \/ tmp' = tmp /\ litter' = (litter \/ io # "start")
     \/ io = "filled" /\ tmp' = [tmp EXCEPT ![Target] = Absent] /\ UNCHANGED litter
  /\ UNCHANGED <<sources, go, tpl, static>>

Compile ==
  \/ DiscoverFiles \/ (\E f \in todo : CompileFile(f) \/ OpenTemplate(f))
  \/ Diagnosed \/ Compiled
  \/ FillTemplate \/ TemplatesWritten \/ SyncStatic \/ CopyDir
  \/ WriteGoFile \/ PruneGo \/ PruneTemplate \/ CompileEnds

Next == Edit \/ Compile \/ CompileFails

Spec == Init /\ [][Next]_vars

-----------------------------------------------------------------------------
(* Properties                                                              *)

\* "Compile writes nothing to the output directory" when it reports an error,
\* whatever else compiled (DiagnosticsError, diagnostics.go).
ErrorsTouchNothing == [][Errors => UNCHANGED tree]_<<tree>>

\* What Compile would make of what it read, in an empty directory.
Fresh ==
  [n \in GoFiles |->
    CASE n = Embed   -> EmbedCode
      [] n = RouteGo -> RoutesCode
      [] n = Render  -> IF Components(AllFiles) = {} THEN Absent ELSE RenderCode
      [] OTHER       -> IF \E f \in AllFiles : OutputGoFile(f) = n
                        THEN LET f == CHOOSE g \in AllFiles : OutputGoFile(g) = n
                             IN  HandlerCode(f)
                        ELSE Absent]

Ended == pc = "idle" /\ outcome = "ok"

Unambiguous == ~Warnings(AllFiles)

\* A go build that runs meanwhile reads whole Go files, and a killed Compile
\* leaves none half written; templates are whole once a Compile has ended well.
WholeFiles ==
  /\ \A n \in GoFiles : go[n] # Torn
  /\ Ended => \A t \in Templates : tpl[t] # Torn

\* Whatever an earlier, killed or failed Compile left behind, one that succeeds
\* leaves the tree that it would have made in an empty directory, which is what
\* gastro check compares with; only a static/ that has gone and the .tmp of a
\* killed write stay (litter).
TreeExact ==
  /\ WholeFiles
  /\ Ended /\ Unambiguous =>
       /\ go = Fresh
       /\ \A t \in Templates :
            IF \E f \in AllFiles : OutputTemplateFile(f) = t
            THEN \E f \in AllFiles : OutputTemplateFile(f) = t /\ tpl[t] = read[f]
            ELSE tpl[t] = Absent
       /\ hasStatic => static = "copied"
       /\ ~litter /\ static = "copied" => hasStatic
       /\ ~litter => \A n \in GoFiles : tmp[n] = Absent

\* Names that no diagnostic is about: a page with an underscore in its path, and
\* two pages whose handlers have one name.
Unreported(files) ==
  \/ \E f \in Pages(files) : RouteToFuncName(f) # HandlerFuncName(f)
  \/ \E f, g \in Pages(files) : f # g /\ HandlerFuncName(f) = HandlerFuncName(g)

Imported == \A f \in AllFiles : read[f].uses \subseteq AllFiles

\* A project without diagnostics builds, and its templates load, provided that it
\* has a file and the components it imports, and but for the names above.
CleanBuilds ==
  Ended /\ Unambiguous /\ AllFiles # {} /\ Imported /\ ~Unreported(AllFiles) => Builds

\* "there is no window where a live file points at a pruned one" (compiler.go),
\* but for render.go when the last component goes, which is pruned after it, and
\* for a component that went and is still imported.
PrunedUnused ==
  [][\A n \in GoFiles : Imported /\ go[n] # Absent /\ go'[n] = Absent =>
       \A m \in GoFiles \ {Render} : go'[m] # Absent =>
         Refers(m, go'[m]) \cap Declares(n, go[n]) \subseteq
           UNION {Declares(k, go'[k]) : k \in {j \in GoFiles : go'[j] # Absent}}]_vars

\* No step of a Compile spoils what is there.
TreeSteps == ErrorsTouchNothing /\ PrunedUnused
=============================================================================

------------------------- MODULE GenerateTreeProofs -------------------------
(***************************************************************************)
(* What a Compile that ends well leaves behind, whatever earlier ones did, *)
(* for any set of files.  The inductive invariant, IInv, says what a       *)
(* Compile has covered at each of its steps.                               *)
(***************************************************************************)
EXTENDS GenerateTree, FiniteSetTheorems, TLAPS

\* Compile is past the point where it may report an error.
Past == pc \notin {"idle", "compile"}

\* The file it is at, those it has yet to write, and what it knows of them.
StageInv ==
  /\ pc \in {"fill", "handler"} => file \in todo
  /\ pc \notin {"fill", "handler"} => file = Absent
  /\ pc \in {"template", "fill", "handler"} => todo \subseteq AllFiles
  /\ pc \notin {"compile", "template", "fill", "handler"} => todo = {}
  /\ Past \/ Ended => ~Errors
  /\ pc = "render" => Components(AllFiles) # {}
  /\ pc = "copy" => hasStatic
  /\ io # "start" => Writing

\* What is in the .tmp files.
TmpInv ==
  /\ io = "filled" => tmp[Target] = Code
  /\ ~litter => \A n \in GoFiles : tmp[n] # Absent => io # "start" /\ n = Target

\* The output of f is there, f's own or that of a file with the same name.
HandlerDone(f)  == \E g \in AllFiles : OutputGoFile(g) = OutputGoFile(f)
                                       /\ go[OutputGoFile(f)] = HandlerCode(g)
TemplateDone(f) == \E g \in AllFiles : OutputTemplateFile(g) = OutputTemplateFile(f)
                                       /\ tpl[OutputTemplateFile(f)] = read[g]

\* The files that have been written.
WrittenInv ==
  /\ Past \/ Ended => \A f \in AllFiles \ todo : HandlerDone(f)
  /\ Past \/ Ended => \A f \in AllFiles \ todo :
       TemplateDone(f) \/ (pc = "fill" /\ OutputTemplateFile(f) = OutputTemplateFile(file))
  /\ pc = "handler" => TemplateDone(file)

\* static/, and the files of the project as a whole.
StaticInv ==
  pc \in {"embed", "routes", "render", "prune"} \/ Ended =>
    /\ hasStatic => static = "copied"
    /\ ~litter /\ static = "copied" => hasStatic

SharedInv ==
  /\ pc \in {"routes", "render", "prune"} \/ Ended => go[Embed] = EmbedCode
  /\ pc \in {"render", "prune"} \/ Ended => go[RouteGo] = RoutesCode
  /\ pc = "prune" \/ Ended => Components(AllFiles) = {} \/ go[Render] = RenderCode

PrunedInv ==
  /\ go = [n \in GoFiles |-> go[n]] /\ \A n \in GoFiles : go[n] # Torn
  /\ Ended => StaleGo = {} /\ StaleTemplates = {}

IInv == TypeOK /\ StageInv /\ TmpInv /\ WrittenInv /\ StaticInv /\ SharedInv /\ PrunedInv

-----------------------------------------------------------------------------
(* Names.  A name that folds more of the separators depends only on one    *)
(* that folds fewer.                                                       *)

AnyWord == [joint : Joints, word : STRING]

\* The separators that the names of handler files, and page IDs, fold.
Route  == {"/", "/[", "-"}
PageID == {"/", "/[", "-", "_"}

LEMMA Shape ==
  ASSUME NEW f \in Files
  PROVE  f.kind \in {"pages", "components"} /\ f.name \in Seq(AnyWord)
BY GenerateTreeAssumption DEF AnyPath, AnyWord

LEMMA Outputs ==
  ASSUME NEW f \in Files
  PROVE  /\ OutputGoFile(f).kind = f.kind /\ OutputTemplateFile(f).kind = f.kind
         /\ HandlerFuncName(f).kind = f.kind
         /\ DerivePageID(f) = Path(f.kind, Fold(OutputGoFile(f).name, PageID, "_"))
         /\ DerivePageID(f) = Path(f.kind, Fold(OutputTemplateFile(f).name, PageID, "_"))
         /\ HandlerFuncName(f) = Path(f.kind, Fold(OutputGoFile(f).name, Joints, "aA"))
<1>1. f.name \in Seq(AnyWord)
  BY Shape
<1>2. Fold(Fold(f.name, Route, "_"), PageID, "_") = Fold(f.name, PageID, "_")
  BY <1>1 DEF Fold, Word, Route, PageID
<1>3. Fold(Fold(f.name, {"/"}, "_"), PageID, "_") = Fold(f.name, PageID, "_")
  BY <1>1 DEF Fold, Word, PageID
<1>4. Fold(Fold(f.name, Route, "_"), Joints, "aA") = Fold(f.name, Joints, "aA")
  BY <1>1 DEF Fold, Word, Route, Joints
<1> QED
  BY <1>2, <1>3, <1>4
  DEF OutputGoFile, OutputTemplateFile, HandlerFuncName, DerivePageID, Path, Route, PageID

\* Files with one handler file have one handler; files with one handler file or
\* one template file have one page ID.
LEMMA SameOutput ==
  ASSUME NEW f \in Files, NEW g \in Files
  PROVE  /\ OutputGoFile(f) = OutputGoFile(g) =>
              DerivePageID(f) = DerivePageID(g) /\ HandlerFuncName(f) = HandlerFuncName(g)
         /\ OutputTemplateFile(f) = OutputTemplateFile(g) => DerivePageID(f) = DerivePageID(g)
BY Outputs

\* A page that routes.go finds by its handler's name has that name.
LEMMA RouteNames ==
  ASSUME NEW f \in Pages(Files), NEW g \in Files, RouteToFuncName(f) = HandlerFuncName(g)
  PROVE  HandlerFuncName(f) = HandlerFuncName(g)
<1>1. f \in Files /\ f.kind = "pages"
  BY DEF Pages
<1>2. f.name \in Seq(AnyWord) /\ g.name \in Seq(AnyWord)
  BY <1>1, Shape
<1>3. /\ Fold(Fold(f.name, Route, "aA"), Joints, "aA") = Fold(f.name, Joints, "aA")
      /\ Fold(Fold(g.name, Joints, "aA"), Joints, "aA") = Fold(g.name, Joints, "aA")
  BY <1>2 DEF Fold, Word, Route, Joints
<1>4. /\ Fold(f.name, Route, "aA") = Fold(g.name, Joints, "aA")
      /\ g.kind = "pages"
  BY DEF RouteToFuncName, HandlerFuncName, Path, Route
<1> QED
  BY <1>1, <1>3, <1>4 DEF HandlerFuncName

LEMMA ComponentNames ==
  ASSUME NEW f \in Files
  PROVE  ExportedComponentName(f) \in Seq(STRING)
<1>1. /\ f.name \in Seq(AnyWord) /\ DOMAIN HandlerFuncName(f).name = DOMAIN f.name
      /\ \A i \in DOMAIN f.name : HandlerFuncName(f).name[i].word = f.name[i].word
  BY Shape DEF HandlerFuncName, Path, Fold, Word
<1>2. ExportedComponentName(f) = [i \in DOMAIN f.name |-> f.name[i].word]
  BY <1>1 DEF ExportedComponentName, Words
<1>3. \A i \in DOMAIN f.name : f.name[i].word \in STRING
  <2> SUFFICES ASSUME NEW i \in DOMAIN f.name PROVE f.name[i].word \in STRING
    OBVIOUS
  <2>1. f.name[i] \in AnyWord
    BY <1>1
  <2> QED
    BY <2>1 DEF AnyWord
<1>4. DOMAIN f.name = 1 .. Len(f.name) /\ Len(f.name) \in Nat
  BY <1>1
<1> QED
  BY <1>2, <1>3, <1>4

LEMMA PropsNames ==
  ASSUME NEW f \in Files, NEW g \in Files
  PROVE  /\ PropsType(f) = PropsType(g) => ExportedComponentName(f) = ExportedComponentName(g)
         /\ PropsType(f) \notin GeneratedIdentifiers
<1> DEFINE s == ExportedComponentName(f)
           t == ExportedComponentName(g)
<1>1. s \in Seq(STRING) /\ t \in Seq(STRING)
  BY ComponentNames
<1> HIDE DEF s, t
<1>2. Append(s, "props") = Append(t, "props") => s = t
  BY <1>1
<1>3. Append(s, "props") # <<"new">> /\ Append(s, "props") # <<"router">>
  <2>1. Append(s, "props")[Len(s) + 1] = "props" /\ Len(Append(s, "props")) = Len(s) + 1
    BY <1>1
  <2>2. Len(<<"new">>) = 1 /\ Len(<<"router">>) = 1 /\ <<"new">>[1] # "props" /\ <<"router">>[1] # "props"
    OBVIOUS
  <2> QED
    BY <2>1, <2>2, <1>1
<1> QED
  BY <1>2, <1>3 DEF PropsType, GeneratedIdentifiers, s, t

-----------------------------------------------------------------------------
(* The files of .gastro/.                                                  *)

LEMMA Generated ==
  /\ Embed \in GoFiles /\ RouteGo \in GoFiles /\ Render \in GoFiles
  /\ Embed # RouteGo /\ Embed # Render /\ RouteGo # Render
  /\ \A f \in Files : /\ OutputGoFile(f) \in Handlers /\ OutputGoFile(f) \in GoFiles
                      /\ OutputTemplateFile(f) \in Templates
  /\ \A n \in Handlers : n # Embed /\ n # RouteGo /\ n # Render
  /\ \A n \in GoFiles : n \in Handlers \/ n = Embed \/ n = RouteGo \/ n = Render
<1>1. \A f \in Files : /\ OutputGoFile(f) # Embed /\ OutputGoFile(f) # RouteGo
                       /\ OutputGoFile(f) # Render
  <2> SUFFICES ASSUME NEW f \in Files
               PROVE  /\ OutputGoFile(f) # Embed /\ OutputGoFile(f) # RouteGo
                      /\ OutputGoFile(f) # Render
    OBVIOUS
  <2>1. OutputGoFile(f).kind = f.kind /\ f.kind \in {"pages", "components"}
    BY Outputs, Shape
  <2> QED
    BY <2>1 DEF Embed, RouteGo, Render, Path
<1>2. Embed # RouteGo /\ Embed # Render /\ RouteGo # Render
  BY DEF Embed, RouteGo, Render, Path
<1> QED
  BY <1>1, <1>2 DEF GoFiles, Handlers, Templates

LEMMA ContentsOf ==
  /\ Contents(Embed) = {Absent, Torn} \cup AnyEmbed
  /\ Contents(RouteGo) = {Absent, Torn} \cup AnyRoutes
  /\ Contents(Render) = {Absent, Torn} \cup AnyRender
  /\ \A n \in Handlers : Contents(n) = {Absent, Torn} \cup AnyHandler
BY Generated DEF Contents

LEMMA ReadTexts ==
  ASSUME TypeOK
  PROVE  /\ AllFiles \subseteq Files /\ Components(AllFiles) \subseteq AllFiles
         /\ \A f \in AllFiles : read[f] \in Text /\ read[f].uses \subseteq Files
         /\ \A f \in Files \ AllFiles : read[f] = Absent
<1>1. AllFiles \subseteq Files /\ \A f \in AllFiles : read[f] \in Text
  BY DEF TypeOK, AllFiles
<1>2. \A t \in Text : t.uses \subseteq Files
  BY DEF Text, Components
<1> QED
  BY <1>1, <1>2 DEF AllFiles, Components

\* The text that writeGoFile is to write is of the kind the file has.
LEMMA Codes ==
  ASSUME TypeOK, StageInv, Writing
  PROVE  /\ Target \in GoFiles /\ Code \in Contents(Target)
         /\ Code # Absent /\ Code # Torn
<1>0. Absent # Torn /\ {Absent, Torn} \cap (Text \cup AnyHandler \cup AnyEmbed \cup AnyRoutes \cup AnyRender) = {}
  BY GenerateTreeAssumption
<1>1. CASE pc = "handler"
  <2>1. file \in AllFiles /\ file \in Files
    BY <1>1, ReadTexts DEF StageInv
  <2>2. Target = OutputGoFile(file) /\ Code = HandlerCode(file)
    BY <1>1 DEF Target, Code
  <2>3. HandlerCode(file) \in AnyHandler
    BY <2>1, ReadTexts DEF HandlerCode, AnyHandler
  <2> QED
    BY <1>0, <2>1, <2>2, <2>3, Generated, ContentsOf
<1>2. CASE pc = "embed"
  <2>1. EmbedCode \in AnyEmbed
    BY DEF EmbedCode, AnyEmbed, TypeOK
  <2>2. Target = Embed /\ Code = EmbedCode
    BY <1>2 DEF Target, Code
  <2> QED
    BY <1>0, <2>1, <2>2, Generated, ContentsOf
<1>3. CASE pc = "routes"
  <2>1. UNION {read[f].uses : f \in AllFiles} \subseteq Files
    BY ReadTexts
  <2>2. RoutesCode \in AnyRoutes
    BY <2>1, ReadTexts DEF RoutesCode, AnyRoutes, TypeOK
  <2>3. Target = RouteGo /\ Code = RoutesCode
    BY <1>3 DEF Target, Code
  <2> QED
    BY <1>0, <2>2, <2>3, Generated, ContentsOf
<1>4. CASE pc = "render"
  <2>1. RenderCode \in AnyRender
    BY ReadTexts DEF RenderCode, AnyRender
  <2>2. Target = Render /\ Code = RenderCode
    BY <1>4 DEF Target, Code
  <2> QED
    BY <1>0, <2>1, <2>2, Generated, ContentsOf
<1> QED
  BY <1>1, <1>2, <1>3, <1>4 DEF Writing

\* What is generated depends on what was read, and writeGoFile's file on the place.
LEMMA Same ==
  ASSUME read' = read
  PROVE  /\ AllFiles' = AllFiles /\ RenderCode' = RenderCode
         /\ \A f : HandlerCode(f)' = HandlerCode(f)
         /\ KeepGo' = KeepGo /\ KeepTemplates' = KeepTemplates
         /\ hasStatic' = hasStatic => EmbedCode' = EmbedCode /\ RoutesCode' = RoutesCode
         /\ missing' = missing => (Errors' <=> Errors)
<1>1. AllFiles' = AllFiles
  BY DEF AllFiles
<1>2. RenderCode' = RenderCode /\ \A f : HandlerCode(f)' = HandlerCode(f)
  BY <1>1 DEF RenderCode, HandlerCode
<1>3. KeepGo' = KeepGo /\ KeepTemplates' = KeepTemplates
  BY <1>1 DEF KeepGo, KeepTemplates
<1>4. hasStatic' = hasStatic => EmbedCode' = EmbedCode /\ RoutesCode' = RoutesCode
  BY <1>1 DEF EmbedCode, RoutesCode
<1>5. missing' = missing => (Errors' <=> Errors)
  BY <1>1 DEF Errors
<1> QED
  BY <1>1, <1>2, <1>3, <1>4, <1>5

LEMMA SameTarget ==
  ASSUME read' = read, hasStatic' = hasStatic, pc' = pc, file' = file
  PROVE  Target' = Target /\ Code' = Code
BY Same DEF Target, Code

\* Where writeGoFile goes on.
LEMMA Places ==
  ASSUME Writing
  PROVE  /\ pc = "handler" => NextPlace = "template"
         /\ pc = "embed" => NextPlace = "routes"
         /\ pc = "routes" => NextPlace = IF Components(AllFiles) = {} THEN "prune" ELSE "render"
         /\ pc = "render" => NextPlace = "prune"
BY DEF Writing, NextPlace

-----------------------------------------------------------------------------
(* Every step keeps the invariant.                                         *)

LEMMA NextTypeOK == IInv /\ [Next]_vars => TypeOK'
<1> SUFFICES ASSUME IInv, [Next]_vars PROVE TypeOK'
  OBVIOUS
<1> USE DEF IInv, TypeOK, sources, tree, compile
<1>0. Writing => Target \in GoFiles /\ Code \in Contents(Target)
  BY Codes
<1>1. CASE Edit
  <2>1. src' \in [Files -> Text \cup {Absent}] /\ assets' \in BOOLEAN
    BY <1>1 DEF Edit
  <2>2. edits' \in 0 .. MaxEdits
    BY <1>1, GenerateTreeAssumption DEF Edit
  <2> QED
    BY <1>1, <2>1, <2>2 DEF Edit
<1>2. CASE DiscoverFiles
  BY <1>2 DEF DiscoverFiles, Nothing
<1>3. ASSUME NEW f \in todo, CompileFile(f) PROVE TypeOK'
  BY <1>3 DEF CompileFile
<1>4. ASSUME NEW f \in todo, OpenTemplate(f) PROVE TypeOK'
  BY <1>4, Generated DEF OpenTemplate
<1>5. CASE Diagnosed
  BY <1>5 DEF Diagnosed, Nothing
<1>6. CASE Compiled
  BY <1>6, ReadTexts DEF Compiled
<1>7. CASE FillTemplate
  <2>1. file \in Files /\ read[file] \in Text
    BY <1>7, ReadTexts DEF FillTemplate, StageInv
  <2> QED
    BY <1>7, <2>1, Generated DEF FillTemplate
<1>8. CASE TemplatesWritten
  BY <1>8 DEF TemplatesWritten
<1>9. CASE SyncStatic
  BY <1>9 DEF SyncStatic
<1>10. CASE CopyDir
  BY <1>10 DEF CopyDir
<1>11. CASE SkipEqual
  BY <1>11, Places DEF SkipEqual, Written, Writing
<1>12. CASE OpenTmp
  <2>1. Torn \in Contents(Target)
    BY DEF Contents
  <2> QED
    BY <1>0, <1>12, <2>1 DEF OpenTmp
<1>13. CASE FillTmp
  <2>1. Writing
    BY <1>13 DEF FillTmp, StageInv
  <2> QED
    BY <1>0, <1>13, <2>1 DEF FillTmp
<1>14. CASE Rename
  <2>1. Writing
    BY <1>14 DEF Rename, StageInv
  <2>2. Absent \in Contents(Target)
    BY DEF Contents
  <2>3. pc' \in {"template", "routes", "render", "prune"}
    BY <1>14, <2>1, Places DEF Rename, Written, Writing
  <2> QED
    BY <1>0, <1>14, <2>1, <2>2, <2>3 DEF Rename, Written
<1>15. CASE PruneGo
  <2>1. \A n \in GoFiles : Absent \in Contents(n)
    BY DEF Contents
  <2> QED
    BY <1>15, <2>1 DEF PruneGo
<1>16. CASE PruneTemplate
  BY <1>16 DEF PruneTemplate
<1>17. CASE CompileEnds
  BY <1>17 DEF CompileEnds
<1>18. CASE CompileFails
  <2>1. tmp' = tmp \/ (Writing /\ tmp' = [tmp EXCEPT ![Target] = Absent])
    BY <1>18 DEF CompileFails, StageInv
  <2>2. Absent \in Contents(Target)
    BY DEF Contents
  <2>3. DOMAIN tmp' = GoFiles /\ \A n \in GoFiles : tmp'[n] \in Contents(n)
    BY <1>0, <2>1, <2>2
  <2> QED
    BY <1>18, <2>3 DEF CompileFails, Nothing
<1>19. CASE UNCHANGED vars
  BY <1>19 DEF vars
<1> QED
  BY <1>1, <1>2, <1>3, <1>4, <1>5, <1>6, <1>7, <1>8, <1>9, <1>10, <1>11, <1>12, <1>13, <1>14,
     <1>15, <1>16, <1>17, <1>18, <1>19 DEF Next, Compile, WriteGoFile

LEMMA NextStage == IInv /\ [Next]_vars => StageInv'
<1> SUFFICES ASSUME IInv, [Next]_vars PROVE StageInv'
  OBVIOUS
<1> USE Same DEF IInv, StageInv, Past, Ended, Writing, sources, tree, compile
<1>1. CASE Edit
  BY <1>1 DEF Edit
<1>2. CASE DiscoverFiles
  BY <1>2 DEF DiscoverFiles
<1>3. ASSUME NEW f \in todo, CompileFile(f) PROVE StageInv'
  BY <1>3 DEF CompileFile
<1>4. ASSUME NEW f \in todo, OpenTemplate(f) PROVE StageInv'
  BY <1>4 DEF OpenTemplate
<1>5. CASE Diagnosed
  BY <1>5 DEF Diagnosed
<1>6. CASE Compiled
  BY <1>6 DEF Compiled
<1>7. CASE FillTemplate
  BY <1>7 DEF FillTemplate
<1>8. CASE TemplatesWritten
  BY <1>8 DEF TemplatesWritten
<1>9. CASE SyncStatic
  <2>1. pc = "static" /\ pc' \in {"copy", "embed"} /\ (pc' = "copy" => hasStatic')
    BY <1>9 DEF SyncStatic
  <2> QED
    BY <1>9, <2>1 DEF SyncStatic
<1>10. CASE CopyDir
  BY <1>10 DEF CopyDir
<1>11. CASE SkipEqual
  BY <1>11, Places DEF SkipEqual, Written
<1>12. CASE OpenTmp
  BY <1>12 DEF OpenTmp
<1>13. CASE FillTmp
  BY <1>13 DEF FillTmp
<1>14. CASE Rename
  BY <1>14, Places DEF Rename, Written
<1>15. CASE PruneGo
  BY <1>15 DEF PruneGo
<1>16. CASE PruneTemplate
  BY <1>16 DEF PruneTemplate
<1>17. CASE CompileEnds
  BY <1>17 DEF CompileEnds
<1>18. CASE CompileFails
  BY <1>18 DEF CompileFails
<1>19. CASE UNCHANGED vars
  BY <1>19 DEF vars
<1> QED
  BY <1>1, <1>2, <1>3, <1>4, <1>5, <1>6, <1>7, <1>8, <1>9, <1>10, <1>11, <1>12, <1>13, <1>14,
     <1>15, <1>16, <1>17, <1>18, <1>19 DEF Next, Compile, WriteGoFile

LEMMA NextTmp == IInv /\ [Next]_vars => TmpInv'
<1> SUFFICES ASSUME IInv, [Next]_vars PROVE TmpInv'
  OBVIOUS
<1>0. /\ io # "start" => Writing
      /\ Writing => Target \in GoFiles
      /\ DOMAIN tmp = GoFiles
  BY Codes DEF IInv, StageInv, TypeOK
<1> USE DEF IInv, TmpInv, sources, tree, compile
<1>1. CASE Edit
  BY <1>1, SameTarget DEF Edit
<1>2. CASE DiscoverFiles
  BY <1>0, <1>2 DEF DiscoverFiles, Writing
<1>3. ASSUME NEW f \in todo, CompileFile(f) PROVE TmpInv'
  BY <1>0, <1>3 DEF CompileFile, Writing
<1>4. ASSUME NEW f \in todo, OpenTemplate(f) PROVE TmpInv'
  BY <1>0, <1>4 DEF OpenTemplate, Writing
<1>5. CASE Diagnosed
  BY <1>0, <1>5 DEF Diagnosed, Writing
<1>6. CASE Compiled
  BY <1>0, <1>6 DEF Compiled, Writing
<1>7. CASE FillTemplate
  BY <1>0, <1>7 DEF FillTemplate, Writing
<1>8. CASE TemplatesWritten
  BY <1>0, <1>8 DEF TemplatesWritten, Writing
<1>9. CASE SyncStatic
  <2>1. io = "start" /\ io' = io /\ tmp' = tmp /\ (litter => litter')
    BY <1>0, <1>9 DEF SyncStatic, Writing
  <2> QED
    BY <2>1
<1>10. CASE CopyDir
  BY <1>0, <1>10 DEF CopyDir, Writing
<1>11. CASE SkipEqual
  BY <1>11 DEF SkipEqual, Written
<1>12. CASE OpenTmp
  <2>1. Target' = Target
    BY <1>12, SameTarget DEF OpenTmp
  <2> QED
    BY <1>12, <2>1 DEF OpenTmp
<1>13. CASE FillTmp
  <2>1. Target' = Target /\ Code' = Code
    BY <1>13, SameTarget DEF FillTmp
  <2> QED
    BY <1>0, <1>13, <2>1 DEF FillTmp
<1>14. CASE Rename
  BY <1>0, <1>14 DEF Rename, Written
<1>15. CASE PruneGo
  BY <1>15, SameTarget DEF PruneGo
<1>16. CASE PruneTemplate
  BY <1>16, SameTarget DEF PruneTemplate
<1>17. CASE CompileEnds
  BY <1>0, <1>17 DEF CompileEnds, Writing
<1>18. CASE CompileFails
  <2>1. /\ io' = "start"
        /\ \/ tmp' = tmp /\ (~litter' => ~litter /\ io = "start")
           \/ io = "filled" /\ tmp' = [tmp EXCEPT ![Target] = Absent] /\ litter' = litter
    BY <1>18 DEF CompileFails
  <2>2. CASE tmp' = tmp /\ (~litter' => ~litter /\ io = "start")
    BY <2>1, <2>2
  <2>3. CASE io = "filled" /\ tmp' = [tmp EXCEPT ![Target] = Absent] /\ litter' = litter
    BY <1>0, <2>1, <2>3
  <2> QED
    BY <2>1, <2>2, <2>3
<1>19. CASE UNCHANGED vars
  BY <1>19, SameTarget DEF vars
<1> QED
  BY <1>1, <1>2, <1>3, <1>4, <1>5, <1>6, <1>7, <1>8, <1>9, <1>10, <1>11, <1>12, <1>13, <1>14,
     <1>15, <1>16, <1>17, <1>18, <1>19 DEF Next, Compile, WriteGoFile


LEMMA DoneKept ==
  ASSUME read' = read, NEW f
  PROVE  /\ HandlerDone(f) /\ go'[OutputGoFile(f)] = go[OutputGoFile(f)] => HandlerDone(f)'
         /\ TemplateDone(f) /\ tpl'[OutputTemplateFile(f)] = tpl[OutputTemplateFile(f)]
              => TemplateDone(f)'
BY Same DEF HandlerDone, TemplateDone

\* A step that writes no output, and passes over none.
LEMMA Unwritten ==
  ASSUME IInv, UNCHANGED <<read, todo, file, go, tpl>>,
         (Past \/ Ended)' => Past \/ Ended, pc = "fill" => pc' = "fill",
         pc' = "handler" => pc = "handler"
  PROVE  WrittenInv'
<1>1. \A f : (HandlerDone(f) => HandlerDone(f)') /\ (TemplateDone(f) => TemplateDone(f)')
  BY DoneKept
<1>2. AllFiles' = AllFiles
  BY Same
<1> QED
  BY <1>1, <1>2 DEF IInv, WrittenInv

\* The end of writeGoFile, whether it wrote the file or found it as it should be.
WroteGo ==
  /\ Writing /\ Written /\ go'[Target] = Code
  /\ \A n \in GoFiles \ {Target} : go'[n] = go[n]

LEMMA Writes == IInv /\ (SkipEqual \/ Rename) => WroteGo
<1> SUFFICES ASSUME IInv, SkipEqual \/ Rename PROVE WroteGo
  OBVIOUS
<1>1. CASE SkipEqual
  BY <1>1 DEF SkipEqual, WroteGo
<1>2. CASE Rename
  <2>1. Writing /\ tmp[Target] = Code
    BY <1>2 DEF Rename, IInv, StageInv, TmpInv
  <2>2. Target \in GoFiles /\ DOMAIN go = GoFiles
    BY <2>1, Codes DEF IInv, TypeOK
  <2> QED
    BY <1>2, <2>1, <2>2 DEF Rename, WroteGo
<1> QED
  BY <1>1, <1>2

LEMMA WritesWritten ==
  ASSUME IInv, WroteGo
  PROVE  WrittenInv'
<1>1. /\ AllFiles' = AllFiles /\ \A f : HandlerCode(f)' = HandlerCode(f)
      /\ read' = read /\ tpl' = tpl /\ todo' = todo \ {file}
  BY Same DEF WroteGo, Written
<1>2. AllFiles \subseteq Files
  BY ReadTexts DEF IInv
<1>3. Past /\ pc # "fill" /\ pc' # "handler"
  BY Places DEF WroteGo, Written, Writing, Past
<1>4. ASSUME NEW f \in AllFiles, f \notin todo'
      PROVE  HandlerDone(f)' /\ TemplateDone(f)'
  <2>1. CASE pc = "handler"
    <3>1. Target = OutputGoFile(file) /\ Code = HandlerCode(file) /\ file \in AllFiles
      BY <2>1 DEF Target, Code, IInv, StageInv
    <3>0. /\ go'[OutputGoFile(file)] = HandlerCode(file)
          /\ \A n \in GoFiles : n # OutputGoFile(file) => go'[n] = go[n]
      BY <3>1 DEF WroteGo
    <3>2. ASSUME OutputGoFile(f) = OutputGoFile(file)
          PROVE  HandlerDone(f)'
      <4>1. \E h \in AllFiles : OutputGoFile(h) = OutputGoFile(f) /\ go'[OutputGoFile(f)] = HandlerCode(h)
        BY <3>0, <3>1, <3>2
      <4> QED
        BY <1>1, <4>1 DEF HandlerDone, HandlerCode
    <3>3. ASSUME OutputGoFile(f) # OutputGoFile(file)
          PROVE  HandlerDone(f)'
      <4>1. f \notin todo
        BY <1>1, <1>4, <3>3
      <4>2. HandlerDone(f)
        BY <4>1, <1>3 DEF IInv, WrittenInv
      <4>3. OutputGoFile(f) \in GoFiles
        BY <1>2, Generated
      <4>4. go'[OutputGoFile(f)] = go[OutputGoFile(f)]
        BY <3>0, <3>3, <4>3
      <4> QED
        BY <1>1, <4>2, <4>4, DoneKept
    <3>4. HandlerDone(f)'
      BY <3>2, <3>3
    <3>5. TemplateDone(f)
      BY <1>1, <1>3, <1>4, <2>1 DEF IInv, WrittenInv
    <3> QED
      BY <1>1, <3>4, <3>5, DoneKept
  <2>2. CASE pc # "handler"
    <3>1. todo = {} /\ Target \in {Embed, RouteGo, Render}
      BY <2>2 DEF WroteGo, Writing, IInv, StageInv, Target
    <3>2. HandlerDone(f) /\ TemplateDone(f)
      BY <1>3, <3>1 DEF IInv, WrittenInv
    <3>3. go'[OutputGoFile(f)] = go[OutputGoFile(f)]
      BY <1>2, <3>1, Generated DEF WroteGo
    <3> QED
      BY <1>1, <3>2, <3>3, DoneKept
  <2> QED
    BY <2>1, <2>2
<1> QED
  BY <1>1, <1>3, <1>4 DEF WrittenInv

LEMMA NextWritten == IInv /\ [Next]_vars => WrittenInv'
<1> SUFFICES ASSUME IInv, [Next]_vars PROVE WrittenInv'
  OBVIOUS
<1>0. AllFiles \subseteq Files
  BY ReadTexts DEF IInv
<1> USE DEF sources, tree, compile
<1>1. CASE Edit
  BY <1>1, Unwritten DEF Edit, Past, Ended
<1>2. CASE DiscoverFiles
  BY <1>2 DEF DiscoverFiles, WrittenInv, Past, Ended
<1>3. ASSUME NEW f \in todo, CompileFile(f) PROVE WrittenInv'
  BY <1>3 DEF CompileFile, WrittenInv, Past, Ended
<1>4. ASSUME NEW f \in todo, OpenTemplate(f) PROVE WrittenInv'
  <2>1. /\ pc = "template" /\ pc' = "fill" /\ file' = f /\ UNCHANGED <<read, go, todo>>
        /\ tpl' = [tpl EXCEPT ![OutputTemplateFile(f)] = Torn]
        /\ AllFiles' = AllFiles
    BY <1>4, Same DEF OpenTemplate
  <2>2. ASSUME NEW g \in AllFiles \ todo
        PROVE  HandlerDone(g)' /\ (TemplateDone(g)' \/ OutputTemplateFile(g) = OutputTemplateFile(f))
    <3>1. HandlerDone(g) /\ TemplateDone(g)
      BY <2>1 DEF IInv, WrittenInv, Past
    <3>2. OutputTemplateFile(g) # OutputTemplateFile(f)
             => tpl'[OutputTemplateFile(g)] = tpl[OutputTemplateFile(g)]
      BY <2>1
    <3> QED
      BY <2>1, <3>1, <3>2, DoneKept
  <2> QED
    BY <2>1, <2>2 DEF WrittenInv
<1>5. CASE Diagnosed
  BY <1>5 DEF Diagnosed, WrittenInv, Past, Ended
<1>6. CASE Compiled
  <2>1. AllFiles' = AllFiles
    BY <1>6, Same DEF Compiled
  <2> QED
    BY <1>6, <2>1 DEF Compiled, WrittenInv
<1>7. CASE FillTemplate
  <2>1. /\ pc = "fill" /\ pc' = "handler" /\ UNCHANGED <<read, go, todo, file>>
        /\ tpl' = [tpl EXCEPT ![OutputTemplateFile(file)] = read[file]]
        /\ AllFiles' = AllFiles
    BY <1>7, Same DEF FillTemplate
  <2>2. file \in AllFiles
    BY <2>1 DEF IInv, StageInv
  <2>3. tpl'[OutputTemplateFile(file)] = read[file]
    BY <1>0, <2>1, <2>2, Generated DEF IInv, TypeOK
  <2>4. ASSUME NEW g \in AllFiles, OutputTemplateFile(g) = OutputTemplateFile(file)
        PROVE  TemplateDone(g)'
    BY <2>1, <2>2, <2>3, <2>4 DEF TemplateDone
  <2>5. ASSUME NEW g \in AllFiles \ todo
        PROVE  HandlerDone(g)' /\ TemplateDone(g)'
    <3>1. HandlerDone(g) /\ (TemplateDone(g) \/ OutputTemplateFile(g) = OutputTemplateFile(file))
      BY <2>1 DEF IInv, WrittenInv, Past
    <3>2. OutputTemplateFile(g) # OutputTemplateFile(file)
             => tpl'[OutputTemplateFile(g)] = tpl[OutputTemplateFile(g)]
      BY <2>1
    <3> QED
      BY <2>1, <2>4, <3>1, <3>2, DoneKept
  <2> QED
    BY <2>1, <2>2, <2>4, <2>5 DEF WrittenInv
<1>8. CASE TemplatesWritten
  BY <1>8, Unwritten DEF TemplatesWritten, Past, Ended
<1>9. CASE SyncStatic
  <2>1. pc = "static" /\ pc' \in {"copy", "embed"}
    BY <1>9 DEF SyncStatic
  <2> QED
    BY <1>9, <2>1, Unwritten DEF SyncStatic, Past, Ended
<1>10. CASE CopyDir
  BY <1>10, Unwritten DEF CopyDir, Past, Ended
<1>11. CASE SkipEqual
  BY <1>11, Writes, WritesWritten
<1>12. CASE OpenTmp
  BY <1>12, Unwritten DEF OpenTmp, Past, Ended
<1>13. CASE FillTmp
  BY <1>13, Unwritten DEF FillTmp, Past, Ended
<1>14. CASE Rename
  BY <1>14, Writes, WritesWritten
<1>15. CASE PruneGo
  <2>1. /\ pc = "prune" /\ UNCHANGED <<pc, outcome, read, tpl, todo, file>> /\ AllFiles' = AllFiles
        /\ \E n \in StaleGo : go' = [go EXCEPT ![n] = Absent]
    BY <1>15, Same DEF PruneGo
  <2>2. ASSUME NEW f \in AllFiles \ todo
        PROVE  HandlerDone(f)' /\ TemplateDone(f)'
    <3>1. HandlerDone(f) /\ TemplateDone(f)
      BY <2>1 DEF IInv, WrittenInv, Past
    <3>2. OutputGoFile(f) \notin StaleGo
      BY DEF StaleGo, KeepGo
    <3>3. go'[OutputGoFile(f)] = go[OutputGoFile(f)]
      BY <2>1, <3>2
    <3> QED
      BY <2>1, <3>1, <3>3, DoneKept
  <2> QED
    BY <2>1, <2>2 DEF WrittenInv
<1>16. CASE PruneTemplate
  <2>1. /\ pc = "prune" /\ UNCHANGED <<pc, outcome, read, go, todo, file>> /\ AllFiles' = AllFiles
        /\ \E t \in StaleTemplates : tpl' = [tpl EXCEPT ![t] = Absent]
    BY <1>16, Same DEF PruneTemplate
  <2>2. ASSUME NEW f \in AllFiles \ todo
        PROVE  HandlerDone(f)' /\ TemplateDone(f)'
    <3>1. HandlerDone(f) /\ TemplateDone(f)
      BY <2>1 DEF IInv, WrittenInv, Past
    <3>2. OutputTemplateFile(f) \notin StaleTemplates
      BY DEF StaleTemplates, KeepTemplates
    <3>3. tpl'[OutputTemplateFile(f)] = tpl[OutputTemplateFile(f)]
      BY <2>1, <3>2
    <3> QED
      BY <2>1, <3>1, <3>3, DoneKept
  <2> QED
    BY <2>1, <2>2 DEF WrittenInv
<1>17. CASE CompileEnds
  BY <1>17, Unwritten DEF CompileEnds, Past, Ended
<1>18. CASE CompileFails
  BY <1>18 DEF CompileFails, WrittenInv, Past, Ended
<1>19. CASE UNCHANGED vars
  BY <1>19, Unwritten DEF vars, Past, Ended
<1> QED
  BY <1>1, <1>2, <1>3, <1>4, <1>5, <1>6, <1>7, <1>8, <1>9, <1>10, <1>11, <1>12, <1>13, <1>14,
     <1>15, <1>16, <1>17, <1>18, <1>19 DEF Next, Compile, WriteGoFile

LEMMA NextStatic == IInv /\ [Next]_vars => StaticInv'
<1> SUFFICES ASSUME IInv, [Next]_vars PROVE StaticInv'
  OBVIOUS
<1> USE DEF IInv, StaticInv, Ended, sources, tree, compile
<1>1. CASE Edit
  BY <1>1 DEF Edit
<1>2. CASE DiscoverFiles
  BY <1>2 DEF DiscoverFiles
<1>3. ASSUME NEW f \in todo, CompileFile(f) PROVE StaticInv'
  BY <1>3 DEF CompileFile
<1>4. ASSUME NEW f \in todo, OpenTemplate(f) PROVE StaticInv'
  BY <1>4 DEF OpenTemplate
<1>5. CASE Diagnosed
  BY <1>5 DEF Diagnosed
<1>6. CASE Compiled
  BY <1>6 DEF Compiled
<1>7. CASE FillTemplate
  BY <1>7 DEF FillTemplate
<1>8. CASE TemplatesWritten
  BY <1>8 DEF TemplatesWritten
<1>9. CASE SyncStatic
  BY <1>9 DEF SyncStatic
<1>10. CASE CopyDir
  BY <1>10 DEF CopyDir, StageInv
<1>11. CASE SkipEqual \/ Rename
  <2>1. WroteGo /\ UNCHANGED <<hasStatic, static, litter>>
    BY <1>11, Writes DEF WroteGo, Written
  <2>2. pc \in {"handler", "embed", "routes", "render"} /\ (pc = "handler" => pc' = "template")
    BY <2>1, Places DEF WroteGo, Written, Writing
  <2> QED
    BY <2>1, <2>2
<1>12. CASE OpenTmp
  BY <1>12 DEF OpenTmp
<1>13. CASE FillTmp
  BY <1>13 DEF FillTmp
<1>15. CASE PruneGo
  BY <1>15 DEF PruneGo
<1>16. CASE PruneTemplate
  BY <1>16 DEF PruneTemplate
<1>17. CASE CompileEnds
  BY <1>17 DEF CompileEnds
<1>18. CASE CompileFails
  BY <1>18 DEF CompileFails
<1>19. CASE UNCHANGED vars
  BY <1>19 DEF vars
<1> QED
  BY <1>1, <1>2, <1>3, <1>4, <1>5, <1>6, <1>7, <1>8, <1>9, <1>10, <1>11, <1>12, <1>13,
     <1>15, <1>16, <1>17, <1>18, <1>19 DEF Next, Compile, WriteGoFile

\* A step that leaves the files of the project as a whole alone.
LEMMA SharedKept ==
  ASSUME SharedInv, UNCHANGED <<read, hasStatic>>,
         \A n \in {Embed, RouteGo, Render} : go'[n] = go[n],
         pc' \in {"routes", "render", "prune"} => pc' = pc, Ended' => pc = "prune" \/ Ended
  PROVE  SharedInv'
<1>1. /\ EmbedCode' = EmbedCode /\ RoutesCode' = RoutesCode /\ RenderCode' = RenderCode
      /\ AllFiles' = AllFiles
  BY Same
<1> QED
  BY <1>1 DEF SharedInv, Ended

LEMMA WritesShared ==
  ASSUME IInv, WroteGo
  PROVE  SharedInv'
<1>1. /\ EmbedCode' = EmbedCode /\ RoutesCode' = RoutesCode /\ RenderCode' = RenderCode
      /\ AllFiles' = AllFiles
  BY Same DEF WroteGo, Written
<1>2. \A n \in GoFiles : n # Target => go'[n] = go[n]
  BY DEF WroteGo
<1>3. Writing /\ pc' = NextPlace /\ go'[Target] = Code
  BY DEF WroteGo, Written
<1>4. CASE pc = "handler"
  BY <1>3, <1>4, Places DEF SharedInv, Ended
<1>5. CASE pc = "embed"
  <2>1. pc' = "routes" /\ go'[Embed] = EmbedCode
    BY <1>3, <1>5, Places DEF Target, Code
  <2> QED
    BY <1>1, <2>1 DEF SharedInv, Ended
<1>6. CASE pc = "routes"
  <2>1. /\ pc' \in {"render", "prune"} /\ (pc' = "prune" => Components(AllFiles) = {})
        /\ go'[RouteGo] = RoutesCode /\ Target = RouteGo
    BY <1>3, <1>6, Places DEF Target, Code
  <2>2. go'[Embed] = EmbedCode
    BY <1>2, <1>6, <2>1, Generated DEF IInv, SharedInv
  <2> QED
    BY <1>1, <2>1, <2>2 DEF SharedInv, Ended
<1>7. CASE pc = "render"
  <2>1. pc' = "prune" /\ go'[Render] = RenderCode /\ Target = Render
    BY <1>3, <1>7, Places DEF Target, Code
  <2>2. go'[Embed] = EmbedCode /\ go'[RouteGo] = RoutesCode
    BY <1>2, <1>7, <2>1, Generated DEF IInv, SharedInv
  <2> QED
    BY <1>1, <2>1, <2>2 DEF SharedInv, Ended
<1> QED
  BY <1>3, <1>4, <1>5, <1>6, <1>7 DEF Writing

LEMMA NextShared == IInv /\ [Next]_vars => SharedInv'
<1> SUFFICES ASSUME IInv, [Next]_vars PROVE SharedInv'
  OBVIOUS
<1>0. SharedInv
  BY DEF IInv
<1> USE <1>0, SharedKept DEF Ended, sources, tree, compile
<1>1. CASE Edit
  BY <1>1 DEF Edit
<1>2. CASE DiscoverFiles
  BY <1>2 DEF DiscoverFiles, SharedInv
<1>3. ASSUME NEW f \in todo, CompileFile(f) PROVE SharedInv'
  BY <1>3 DEF CompileFile, SharedInv
<1>4. ASSUME NEW f \in todo, OpenTemplate(f) PROVE SharedInv'
  BY <1>4 DEF OpenTemplate, SharedInv
<1>5. CASE Diagnosed
  BY <1>5 DEF Diagnosed, SharedInv
<1>6. CASE Compiled
  BY <1>6 DEF Compiled, SharedInv
<1>7. CASE FillTemplate
  BY <1>7 DEF FillTemplate, SharedInv
<1>8. CASE TemplatesWritten
  BY <1>8 DEF TemplatesWritten, SharedInv
<1>9. CASE SyncStatic
  <2>1. pc' \in {"copy", "embed"}
    BY <1>9 DEF SyncStatic
  <2> QED
    BY <2>1 DEF SharedInv
<1>10. CASE CopyDir
  BY <1>10 DEF CopyDir, SharedInv
<1>11. CASE SkipEqual \/ Rename
  BY <1>11, Writes, WritesShared
<1>12. CASE OpenTmp
  BY <1>12 DEF OpenTmp
<1>13. CASE FillTmp
  BY <1>13 DEF FillTmp
<1>15. CASE PruneGo
  <2>1. /\ pc = "prune" /\ pc' = pc /\ UNCHANGED <<read, hasStatic, outcome>>
        /\ \E n \in StaleGo : go' = [go EXCEPT ![n] = Absent]
    BY <1>15 DEF PruneGo
  <2>2. Embed \notin StaleGo /\ RouteGo \notin StaleGo
        /\ (Components(AllFiles) # {} => Render \notin StaleGo)
    BY DEF StaleGo, KeepGo
  <2>3. /\ go'[Embed] = go[Embed] /\ go'[RouteGo] = go[RouteGo]
        /\ Components(AllFiles) # {} => go'[Render] = go[Render]
    BY <2>1, <2>2
  <2>4. /\ EmbedCode' = EmbedCode /\ RoutesCode' = RoutesCode /\ RenderCode' = RenderCode
        /\ AllFiles' = AllFiles
    BY <2>1, Same
  <2> QED
    BY <2>1, <2>3, <2>4 DEF SharedInv
<1>16. CASE PruneTemplate
  BY <1>16 DEF PruneTemplate
<1>17. CASE CompileEnds
  BY <1>17 DEF CompileEnds
<1>18. CASE CompileFails
  BY <1>18 DEF CompileFails, SharedInv
<1>19. CASE UNCHANGED vars
  BY <1>19 DEF vars
<1> QED
  BY <1>1, <1>2, <1>3, <1>4, <1>5, <1>6, <1>7, <1>8, <1>9, <1>10, <1>11, <1>12, <1>13,
     <1>15, <1>16, <1>17, <1>18, <1>19 DEF Next, Compile, WriteGoFile

\* A step that leaves the .go files alone, and ends no Compile.
LEMMA PrunedKept ==
  ASSUME PrunedInv, go' = go, Ended' => Ended /\ read' = read /\ tpl' = tpl
  PROVE  PrunedInv'
<1>1. Ended' => StaleGo' = StaleGo /\ StaleTemplates' = StaleTemplates
  BY Same DEF StaleGo, StaleTemplates
<1> QED
  BY <1>1 DEF PrunedInv

LEMMA NextPruned == IInv /\ [Next]_vars => PrunedInv'
<1> SUFFICES ASSUME IInv, [Next]_vars PROVE PrunedInv'
  OBVIOUS
<1>0. PrunedInv /\ StageInv
  BY DEF IInv
<1> USE <1>0, PrunedKept DEF Ended, sources, tree, compile
<1>1. CASE Edit
  BY <1>1 DEF Edit
<1>2. CASE DiscoverFiles
  BY <1>2 DEF DiscoverFiles
<1>3. ASSUME NEW f \in todo, CompileFile(f) PROVE PrunedInv'
  BY <1>3 DEF CompileFile
<1>4. ASSUME NEW f \in todo, OpenTemplate(f) PROVE PrunedInv'
  BY <1>4 DEF OpenTemplate
<1>5. CASE Diagnosed
  BY <1>5 DEF Diagnosed
<1>6. CASE Compiled
  BY <1>6 DEF Compiled
<1>7. CASE FillTemplate
  BY <1>7 DEF FillTemplate
<1>8. CASE TemplatesWritten
  BY <1>8 DEF TemplatesWritten
<1>9. CASE SyncStatic
  BY <1>9 DEF SyncStatic
<1>10. CASE CopyDir
  BY <1>10 DEF CopyDir
<1>11. CASE SkipEqual
  BY <1>11, Places DEF SkipEqual, Written, Writing
<1>12. CASE OpenTmp
  BY <1>12 DEF OpenTmp, Writing
<1>13. CASE FillTmp
  BY <1>13 DEF FillTmp, StageInv, Writing
<1>14. CASE Rename
  <2>1. Writing /\ tmp[Target] = Code
    BY <1>14 DEF Rename, IInv, StageInv, TmpInv
  <2>2. Target \in GoFiles /\ Code # Torn /\ pc' # "idle"
    BY <1>14, <2>1, Codes, Places DEF IInv, Rename, Written, Writing
  <2>3. go' = [go EXCEPT ![Target] = tmp[Target]] /\ go = [n \in GoFiles |-> go[n]]
    BY <1>14 DEF Rename, PrunedInv
  <2>4. go' = [n \in GoFiles |-> go'[n]]
    BY <2>3
  <2>5. \A n \in GoFiles : go'[n] # Torn
    BY <2>1, <2>2, <2>3 DEF PrunedInv
  <2> QED
    BY <2>2, <2>4, <2>5 DEF PrunedInv
<1>15. CASE PruneGo
  <2>1. PICK n \in StaleGo : go' = [go EXCEPT ![n] = Absent]
    BY <1>15 DEF PruneGo
  <2>2. n \in GoFiles /\ go = [m \in GoFiles |-> go[m]] /\ pc' # "idle"
    BY <1>15 DEF PruneGo, StaleGo, PrunedInv
  <2>3. go' = [m \in GoFiles |-> go'[m]]
    BY <2>1, <2>2
  <2>4. \A m \in GoFiles : go'[m] # Torn
    BY <2>1, <2>2, GenerateTreeAssumption DEF PrunedInv
  <2> QED
    BY <2>2, <2>3, <2>4 DEF PrunedInv
<1>16. CASE PruneTemplate
  BY <1>16 DEF PruneTemplate
<1>17. CASE CompileEnds
  <2>1. StaleGo = {} /\ StaleTemplates = {} /\ go' = go /\ read' = read /\ tpl' = tpl
    BY <1>17 DEF CompileEnds
  <2>2. StaleGo' = StaleGo /\ StaleTemplates' = StaleTemplates
    BY <2>1, Same DEF StaleGo, StaleTemplates
  <2> QED
    BY <2>1, <2>2 DEF PrunedInv
<1>18. CASE CompileFails
  BY <1>18 DEF CompileFails
<1>19. CASE UNCHANGED vars
  BY <1>19 DEF vars
<1> QED
  BY <1>1, <1>2, <1>3, <1>4, <1>5, <1>6, <1>7, <1>8, <1>9, <1>10, <1>11, <1>12, <1>13, <1>14,
     <1>15, <1>16, <1>17, <1>18, <1>19 DEF Next, Compile, WriteGoFile

LEMMA InitIInv == Init => IInv
<1> SUFFICES ASSUME Init PROVE IInv
  OBVIOUS
<1> USE DEF Init
<1>1. TypeOK
  <2>1. src \in [Files -> Text \cup {Absent}]
    <3>1. PICK present \in SUBSET Files :
            src = [f \in Files |->
                     IF f \in present THEN Importing(Components(present) \ {f}) ELSE Absent]
      OBVIOUS
    <3>2. \A f \in Files : Importing(Components(present) \ {f}) \in Text
      BY DEF Importing, Components, Text
    <3> QED
      BY <3>1, <3>2
  <2>2. \A n \in GoFiles : Absent \in Contents(n)
    BY DEF Contents
  <2>3. edits \in 0 .. MaxEdits
    BY GenerateTreeAssumption
  <2> QED
    BY <2>1, <2>2, <2>3 DEF TypeOK, Nothing
<1>2. StageInv /\ TmpInv /\ WrittenInv /\ StaticInv /\ SharedInv
  BY DEF StageInv, TmpInv, WrittenInv, StaticInv, SharedInv, Past, Ended, Writing
<1>3. PrunedInv
  BY GenerateTreeAssumption DEF PrunedInv, Ended
<1> QED
  BY <1>1, <1>2, <1>3 DEF IInv

\* The invariant holds, whatever is edited, killed or fails.
LEMMA Inductive == Spec => []IInv
<1>1. IInv /\ [Next]_vars => IInv'
  BY NextTypeOK, NextStage, NextTmp, NextWritten, NextStatic, NextShared, NextPruned DEF IInv
<1> QED
  BY <1>1, InitIInv, PTL DEF Spec

\* Every Compile keeps to the tree's files and to what they are made from.
THEOREM TypeCorrect == Spec => []TypeOK
BY Inductive, PTL DEF IInv

-----------------------------------------------------------------------------
(* What a Compile that ended well has left.                                *)

LEMMA EndedTodo ==
  ASSUME IInv, Ended
  PROVE  /\ todo = {} /\ io = "start" /\ ~Errors
         /\ \A f \in AllFiles : HandlerDone(f) /\ TemplateDone(f)
<1>1. todo = {} /\ io = "start" /\ ~Errors
  BY DEF IInv, StageInv, Ended, TypeOK, Writing
<1> QED
  BY <1>1 DEF IInv, WrittenInv, Ended

\* Without a warning, a handler's file is one file's only.
LEMMA OwnHandler ==
  ASSUME IInv, Ended, Unambiguous, NEW f \in AllFiles
  PROVE  /\ go[OutputGoFile(f)] = HandlerCode(f)
         /\ \A g \in AllFiles : OutputGoFile(g) = OutputGoFile(f) => g = f
<1>1. AllFiles \subseteq Files
  BY ReadTexts DEF IInv
<1>2. \A g \in AllFiles : OutputGoFile(g) = OutputGoFile(f) => g = f
  BY <1>1, SameOutput DEF Unambiguous, Warnings, PageIDCollision
<1> QED
  BY <1>2, EndedTodo DEF HandlerDone

LEMMA OwnTemplate ==
  ASSUME IInv, Ended, NEW t \in Templates
  PROVE  IF \E f \in AllFiles : OutputTemplateFile(f) = t
         THEN \E f \in AllFiles : OutputTemplateFile(f) = t /\ tpl[t] = read[f]
         ELSE tpl[t] = Absent
<1>1. CASE \E f \in AllFiles : OutputTemplateFile(f) = t
  BY <1>1, EndedTodo DEF TemplateDone
<1>2. CASE ~\E f \in AllFiles : OutputTemplateFile(f) = t
  <2>1. t \notin KeepTemplates
    BY <1>2 DEF KeepTemplates
  <2>2. t \notin StaleTemplates
    BY DEF IInv, PrunedInv
  <2> QED
    BY <1>2, <2>1, <2>2 DEF StaleTemplates
<1> QED
  BY <1>1, <1>2

LEMMA EndedFresh ==
  ASSUME IInv, Ended, Unambiguous, NEW n \in GoFiles
  PROVE  go[n] = Fresh[n]
<1> DEFINE fresh ==
      CASE n = Embed   -> EmbedCode
        [] n = RouteGo -> RoutesCode
        [] n = Render  -> IF Components(AllFiles) = {} THEN Absent ELSE RenderCode
        [] OTHER       -> IF \E f \in AllFiles : OutputGoFile(f) = n
                          THEN LET f == CHOOSE g \in AllFiles : OutputGoFile(g) = n
                               IN  HandlerCode(f)
                          ELSE Absent
<1>0. Fresh[n] = fresh
  BY DEF Fresh
<1>1. CASE n = Embed \/ n = RouteGo
  BY <1>0, <1>1, Generated DEF IInv, SharedInv
<1>2. n \notin KeepGo => go[n] = Absent
  BY DEF IInv, PrunedInv, StaleGo
<1>3. CASE n = Render
  <2>1. CASE Components(AllFiles) = {}
    <3>1. \A f \in AllFiles : Render # OutputGoFile(f)
      BY ReadTexts, Generated DEF IInv
    <3>2. n \notin KeepGo
      BY <1>3, <2>1, <3>1, Generated DEF KeepGo
    <3> QED
      BY <1>0, <1>2, <1>3, <2>1, <3>2, Generated
  <2>2. CASE Components(AllFiles) # {}
    BY <1>0, <1>3, <2>2, Generated DEF IInv, SharedInv
  <2> QED
    BY <2>1, <2>2
<1>4. CASE n \in Handlers
  <2>1. n # Embed /\ n # RouteGo /\ n # Render
    BY <1>4, Generated
  <2>2. CASE \E f \in AllFiles : OutputGoFile(f) = n
    <3>1. PICK f \in AllFiles : OutputGoFile(f) = n
      BY <2>2
    <3>2. (CHOOSE g \in AllFiles : OutputGoFile(g) = n) = f
      BY <3>1, OwnHandler
    <3> QED
      BY <1>0, <2>1, <2>2, <3>1, <3>2, OwnHandler
  <2>3. CASE ~\E f \in AllFiles : OutputGoFile(f) = n
    <3>1. n \notin KeepGo
      BY <2>1, <2>3 DEF KeepGo
    <3> QED
      BY <1>0, <1>2, <2>1, <2>3, <3>1
  <2> QED
    BY <2>2, <2>3
<1> QED
  BY <1>1, <1>3, <1>4, Generated

\* A generated Go file is never half written, and a Compile that ends well leaves
\* what it would have made in an empty directory, whatever was there.
THEOREM TreeExactHolds == Spec => []TreeExact
<1>1. ASSUME IInv PROVE TreeExact
  <2> USE <1>1
  <2>1. WholeFiles
    <3>1. \A n \in GoFiles : go[n] # Torn
      BY DEF IInv, PrunedInv
    <3>2. ASSUME Ended, NEW t \in Templates PROVE tpl[t] # Torn
      <4>1. tpl[t] = Absent \/ \E f \in AllFiles : tpl[t] = read[f]
        BY <3>2, OwnTemplate
      <4>2. \A f \in AllFiles : read[f] \in Text
        BY ReadTexts DEF IInv
      <4> QED
        BY <4>1, <4>2, GenerateTreeAssumption
    <3> QED
      BY <3>1, <3>2 DEF WholeFiles
  <2>2. ASSUME Ended, Unambiguous
        PROVE  go = Fresh
    <3>1. go = [n \in GoFiles |-> go[n]]
      BY DEF IInv, PrunedInv
    <3>2. Fresh = [n \in GoFiles |-> Fresh[n]]
      BY DEF Fresh
    <3>3. \A n \in GoFiles : go[n] = Fresh[n]
      BY <2>2, EndedFresh
    <3> HIDE DEF Fresh
    <3> QED
      BY <3>1, <3>2, <3>3
  <2>3. ASSUME Ended
        PROVE  /\ hasStatic => static = "copied"
               /\ ~litter /\ static = "copied" => hasStatic
               /\ ~litter => \A n \in GoFiles : tmp[n] = Absent
    BY <2>3, EndedTodo DEF IInv, StaticInv, TmpInv
  <2> QED
    BY <2>1, <2>2, <2>3, OwnTemplate DEF TreeExact
<1> QED
  BY <1>1, Inductive, PTL

-----------------------------------------------------------------------------
(* A project without diagnostics builds.                                   *)

LEMMA SymbolsDiffer ==
  ASSUME NEW s, NEW t, NEW x, NEW y
  PROVE  Symbol(s, x) = Symbol(t, y) <=> s = t /\ x = y
BY DEF Symbol

\* What each generated file declares, and what it refers to.
LEMMA Declared ==
  /\ \A code : Declares(Embed, code) = {} /\ Refers(Embed, code) = {}
  /\ \A code : Declares(RouteGo, code) = {Symbol("exported", x) : x \in GeneratedIdentifiers}
  /\ \A code : Refers(RouteGo, code) =
       {Symbol("method", RouteToFuncName(f)) : f \in Pages(code.files)}
         \cup {Symbol("method", HandlerFuncName(f)) : f \in code.uses}
  /\ \A code : Declares(Render, code) =
       {Symbol("exported", ExportedComponentName(f)) : f \in code.components}
         \cup {Symbol("exported", PropsType(f)) : f \in code.components}
  /\ \A code : Refers(Render, code) =
       {Symbol("method", HandlerFuncName(f)) : f \in code.components}
         \cup {Symbol("hoisted", DerivePageID(f)) : f \in code.components}
         \cup {Symbol("exported", <<"router">>)}
  /\ \A n \in Handlers : \A code :
       /\ Declares(n, code) = {Symbol("method", HandlerFuncName(code.of)),
                               Symbol("hoisted", DerivePageID(code.of))}
       /\ Refers(n, code) = {Symbol("exported", <<"router">>)}
BY Generated DEF Declares, Refers

\* The files that go build finds.
LEMMA EndedLive ==
  ASSUME IInv, Ended, Unambiguous
  PROVE  /\ Embed \in Live /\ RouteGo \in Live
         /\ go[Embed] = EmbedCode /\ go[RouteGo] = RoutesCode
         /\ Render \in Live <=> Components(AllFiles) # {}
         /\ Components(AllFiles) # {} => go[Render] = RenderCode
         /\ \A f \in AllFiles : OutputGoFile(f) \in Live /\ go[OutputGoFile(f)] = HandlerCode(f)
         /\ \A n \in Live : \/ n \in {Embed, RouteGo, Render}
                            \/ \E f \in AllFiles : n = OutputGoFile(f) /\ n \in Handlers
<1>0. /\ Absent \notin Text \cup AnyHandler \cup AnyEmbed \cup AnyRoutes \cup AnyRender
      /\ AllFiles \subseteq Files
  BY GenerateTreeAssumption, ReadTexts DEF IInv
<1>1. go[Embed] = EmbedCode /\ go[RouteGo] = RoutesCode
      /\ (Components(AllFiles) # {} => go[Render] = RenderCode)
  BY DEF IInv, SharedInv
<1>2. EmbedCode \in AnyEmbed
  BY DEF EmbedCode, AnyEmbed, IInv, TypeOK
<1>3. RoutesCode \in AnyRoutes
  <2>1. UNION {read[f].uses : f \in AllFiles} \subseteq Files
    BY ReadTexts DEF IInv
  <2> QED
    BY <1>0, <2>1 DEF RoutesCode, AnyRoutes, IInv, TypeOK
<1>4. RenderCode \in AnyRender
  BY <1>0 DEF RenderCode, AnyRender, Components
<1>5. \A f \in AllFiles : HandlerCode(f) \in AnyHandler /\ OutputGoFile(f) \in GoFiles
  BY <1>0, ReadTexts, Generated DEF HandlerCode, AnyHandler, IInv
<1>6. \A f \in AllFiles : go[OutputGoFile(f)] = HandlerCode(f)
  BY OwnHandler
<1>7. \A n \in Live : n \in KeepGo
  BY DEF IInv, PrunedInv, StaleGo, Live
<1>8. \A f \in AllFiles : Render # OutputGoFile(f)
  BY <1>0, Generated
<1>9. Render \in Live <=> Components(AllFiles) # {}
  <2>1. Components(AllFiles) # {} => Render \in Live
    BY <1>0, <1>1, <1>4, Generated DEF Live
  <2>2. Components(AllFiles) = {} => Render \notin KeepGo
    BY <1>8, Generated DEF KeepGo
  <2> QED
    BY <1>7, <2>1, <2>2
<1>10. \A n \in Live : \/ n \in {Embed, RouteGo, Render}
                       \/ \E f \in AllFiles : n = OutputGoFile(f) /\ n \in Handlers
  BY <1>0, <1>7, Generated DEF KeepGo
<1>11. Embed \in Live /\ RouteGo \in Live
  BY <1>0, <1>1, <1>2, <1>3, Generated DEF Live
<1>12. \A f \in AllFiles : OutputGoFile(f) \in Live
  BY <1>0, <1>5, <1>6 DEF Live
<1> QED
  BY <1>1, <1>6, <1>9, <1>10, <1>11, <1>12

\* Every identifier has a declaration.
LEMMA EndedRefers ==
  ASSUME IInv, Ended, Unambiguous, Imported, ~Unreported(AllFiles),
         NEW n \in Live, NEW s \in Refers(n, go[n])
  PROVE  \E m \in Live : s \in Declares(m, go[m])
<1>0. AllFiles \subseteq Files /\ Components(AllFiles) \subseteq AllFiles
  BY ReadTexts DEF IInv
<1>1. \A f \in AllFiles : /\ OutputGoFile(f) \in Live
                          /\ Symbol("method", HandlerFuncName(f)) \in
                               Declares(OutputGoFile(f), go[OutputGoFile(f)])
                          /\ Symbol("hoisted", DerivePageID(f)) \in
                               Declares(OutputGoFile(f), go[OutputGoFile(f)])
  <2> SUFFICES ASSUME NEW f \in AllFiles
               PROVE  /\ OutputGoFile(f) \in Live
                      /\ Symbol("method", HandlerFuncName(f)) \in
                           Declares(OutputGoFile(f), go[OutputGoFile(f)])
                      /\ Symbol("hoisted", DerivePageID(f)) \in
                           Declares(OutputGoFile(f), go[OutputGoFile(f)])
    OBVIOUS
  <2>1. OutputGoFile(f) \in Live /\ go[OutputGoFile(f)] = HandlerCode(f)
        /\ OutputGoFile(f) \in Handlers
    BY <1>0, EndedLive, Generated
  <2>2. HandlerCode(f).of = f
    BY DEF HandlerCode
  <2> QED
    BY <2>1, <2>2, Declared
<1>2. RouteGo \in Live /\ Symbol("exported", <<"router">>) \in Declares(RouteGo, go[RouteGo])
  BY EndedLive, Declared DEF GeneratedIdentifiers
<1>3. CASE n = Embed
  BY <1>3, Declared
<1>4. CASE n = RouteGo
  <2>1. go[n].files = AllFiles /\ go[n].uses \subseteq AllFiles
    BY <1>4, EndedLive DEF RoutesCode, Imported
  <2>2. \/ \E f \in Pages(AllFiles) : s = Symbol("method", RouteToFuncName(f))
        \/ \E f \in AllFiles : s = Symbol("method", HandlerFuncName(f))
    BY <1>4, <2>1, Declared
  <2>3. \A f \in Pages(AllFiles) : f \in AllFiles /\ RouteToFuncName(f) = HandlerFuncName(f)
    BY DEF Unreported, Pages
  <2>4. \E f \in AllFiles : s = Symbol("method", HandlerFuncName(f))
    BY <2>2, <2>3
  <2> QED
    BY <1>1, <2>4
<1>5. CASE n = Render
  <2>1. go[n].components = Components(AllFiles)
    BY <1>5, EndedLive DEF RenderCode
  <2>2. \/ \E f \in AllFiles : \/ s = Symbol("method", HandlerFuncName(f))
                               \/ s = Symbol("hoisted", DerivePageID(f))
        \/ s = Symbol("exported", <<"router">>)
    BY <1>0, <1>5, <2>1, Declared
  <2> QED
    BY <1>1, <1>2, <2>2
<1>6. CASE n \in Handlers
  BY <1>2, <1>6, Declared
<1> QED
  BY <1>3, <1>4, <1>5, <1>6, EndedLive

\* Two files do not have one name for what they declare.
LEMMA OwnNames ==
  ASSUME IInv, Unambiguous, ~Unreported(AllFiles), NEW f \in AllFiles, NEW g \in AllFiles, f # g
  PROVE  HandlerFuncName(f) # HandlerFuncName(g) /\ DerivePageID(f) # DerivePageID(g)
<1>1. f \in Files /\ g \in Files
  BY ReadTexts DEF IInv
<1>2. DerivePageID(f) # DerivePageID(g)
  BY DEF Unambiguous, Warnings, PageIDCollision
<1>3. SUFFICES ASSUME HandlerFuncName(f) = HandlerFuncName(g) PROVE FALSE
  BY <1>2
<1>4. f.kind = g.kind /\ f.kind \in {"pages", "components"}
  BY <1>1, <1>3, Outputs, Shape
<1>5. CASE f.kind = "pages"
  BY <1>3, <1>4, <1>5 DEF Unreported, Pages
<1>6. CASE f.kind = "components"
  <2>1. ExportedComponentName(f) = ExportedComponentName(g)
    BY <1>3 DEF ExportedComponentName
  <2> QED
    BY <1>4, <1>6, <2>1 DEF Unambiguous, Warnings, ComponentNameCollision, Components
<1> QED
  BY <1>4, <1>5, <1>6

LEMMA EndedDeclares ==
  ASSUME IInv, Ended, Unambiguous, ~Unreported(AllFiles),
         NEW n \in Live, NEW m \in Live, n # m,
         NEW s \in Declares(n, go[n]), s \in Declares(m, go[m])
  PROVE  FALSE
<1> DEFINE OfHandler(k) == \E f \in AllFiles :
             /\ k = OutputGoFile(f)
             /\ s = Symbol("method", HandlerFuncName(f)) \/ s = Symbol("hoisted", DerivePageID(f))
           OfRoutes == \E x \in GeneratedIdentifiers : s = Symbol("exported", x)
           OfRender == \E f \in Components(AllFiles) :
             \/ s = Symbol("exported", ExportedComponentName(f))
             \/ s = Symbol("exported", PropsType(f))
<1>1. ASSUME NEW k \in Live, s \in Declares(k, go[k])
      PROVE  (k = RouteGo /\ OfRoutes) \/ (k = Render /\ OfRender) \/ OfHandler(k)
  <2>1. CASE k = Embed
    BY <1>1, <2>1, Declared
  <2>2. CASE k = RouteGo
    BY <1>1, <2>2, Declared
  <2>3. CASE k = Render
    <3>1. go[k].components = Components(AllFiles)
      BY <2>3, EndedLive DEF RenderCode
    <3> QED
      BY <1>1, <2>3, <3>1, Declared
  <2>4. CASE \E f \in AllFiles : k = OutputGoFile(f) /\ k \in Handlers
    <3>1. PICK f \in AllFiles : k = OutputGoFile(f) /\ k \in Handlers
      BY <2>4
    <3>2. go[k].of = f
      <4>1. go[k] = HandlerCode(f)
        BY <3>1, EndedLive
      <4> QED
        BY <4>1 DEF HandlerCode
    <3>3. s = Symbol("method", HandlerFuncName(f)) \/ s = Symbol("hoisted", DerivePageID(f))
      BY <1>1, <3>1, <3>2, Declared
    <3> QED
      BY <3>1, <3>3
  <2> QED
    BY <2>1, <2>2, <2>3, <2>4, EndedLive
<1>2. ~(OfRoutes /\ OfRender)
  <2> SUFFICES ASSUME OfRoutes, OfRender PROVE FALSE
    OBVIOUS
  <2>1. PICK x \in GeneratedIdentifiers : s = Symbol("exported", x)
    OBVIOUS
  <2>2. PICK f \in Components(AllFiles) : s = Symbol("exported", ExportedComponentName(f))
                                          \/ s = Symbol("exported", PropsType(f))
    OBVIOUS
  <2>3. x = ExportedComponentName(f) \/ x = PropsType(f)
    BY <2>1, <2>2 DEF Symbol
  <2>4. f \in Files
    BY ReadTexts DEF IInv
  <2>5. ExportedComponentName(f) \notin GeneratedIdentifiers
    BY EndedTodo DEF Errors, GeneratedIdentifierClash
  <2> QED
    BY <2>1, <2>3, <2>4, <2>5, PropsNames
<1>3. \A k : ~(OfHandler(k) /\ (OfRoutes \/ OfRender))
  BY DEF Symbol
<1>4. ASSUME OfHandler(n), OfHandler(m) PROVE FALSE
  <2>1. PICK f \in AllFiles :
           /\ n = OutputGoFile(f)
           /\ s = Symbol("method", HandlerFuncName(f)) \/ s = Symbol("hoisted", DerivePageID(f))
    BY <1>4
  <2>2. PICK g \in AllFiles :
           /\ m = OutputGoFile(g)
           /\ s = Symbol("method", HandlerFuncName(g)) \/ s = Symbol("hoisted", DerivePageID(g))
    BY <1>4
  <2>3. f # g
    BY <2>1, <2>2
  <2>4. HandlerFuncName(f) = HandlerFuncName(g) \/ DerivePageID(f) = DerivePageID(g)
    BY <2>1, <2>2 DEF Symbol
  <2> QED
    BY <2>3, <2>4, OwnNames
<1> HIDE DEF OfHandler, OfRoutes, OfRender
<1> QED
  BY <1>1, <1>2, <1>3, <1>4

\* Each component has two names in render.go that no other has.
LEMMA RenderNames ==
  ASSUME IInv, Ended, Unambiguous
  PROVE  Cardinality(Declares(Render, RenderCode)) = 2 * Cardinality(Components(AllFiles))
<1> DEFINE C == Components(AllFiles)
           A == {Symbol("exported", ExportedComponentName(f)) : f \in C}
           B == {Symbol("exported", PropsType(f)) : f \in C}
<1>1. C \subseteq Files /\ IsFiniteSet(C)
  <2>1. C \subseteq Files
    BY ReadTexts DEF IInv
  <2> QED
    BY <2>1, GenerateTreeAssumption, FS_Subset
<1>2. \A f, g \in C : ExportedComponentName(f) = ExportedComponentName(g) => f = g
  BY DEF Unambiguous, Warnings, ComponentNameCollision, Components
<1>3. \A f, g \in C : PropsType(f) = PropsType(g) => f = g
  BY <1>1, <1>2, PropsNames
<1>4. \A f, g \in C : ExportedComponentName(f) # PropsType(g)
  BY EndedTodo DEF Errors, GeneratedIdentifierClash
<1>5. IsFiniteSet(A) /\ Cardinality(A) = Cardinality(C)
  <2> DEFINE a == [f \in C |-> Symbol("exported", ExportedComponentName(f))]
  <2>1. a \in Bijection(C, A)
    <3>1. a \in [C -> A] /\ \A y \in A : \E f \in C : a[f] = y
      OBVIOUS
    <3>2. \A f, g \in C : a[f] = a[g] => f = g
      BY <1>2 DEF Symbol
    <3> HIDE DEF a, A, C
    <3> QED
      BY <3>1, <3>2 DEF Bijection, Injection, Surjection, IsInjective
  <2> HIDE DEF a, A, C
  <2> QED
    BY <1>1, <2>1, FS_Bijection DEF ExistsBijection
<1>6. IsFiniteSet(B) /\ Cardinality(B) = Cardinality(C)
  <2> DEFINE b == [f \in C |-> Symbol("exported", PropsType(f))]
  <2>1. b \in Bijection(C, B)
    <3>1. b \in [C -> B] /\ \A y \in B : \E f \in C : b[f] = y
      OBVIOUS
    <3>2. \A f, g \in C : b[f] = b[g] => f = g
      BY <1>3 DEF Symbol
    <3> HIDE DEF b, B, C
    <3> QED
      BY <3>1, <3>2 DEF Bijection, Injection, Surjection, IsInjective
  <2> HIDE DEF b, B, C
  <2> QED
    BY <1>1, <2>1, FS_Bijection DEF ExistsBijection
<1>7. A \cap B = {}
  BY <1>4 DEF Symbol
<1>8. Declares(Render, RenderCode) = A \cup B
  <2>1. RenderCode.components = C
    BY DEF RenderCode
  <2> QED
    BY <2>1, Declared
<1> HIDE DEF A, B, C
<1>9. Cardinality(A \cup B) = Cardinality(C) + Cardinality(C)
  <2>1. Cardinality(A \cup B) = Cardinality(A) + Cardinality(B) - Cardinality(A \cap B)
    BY <1>5, <1>6, FS_Union
  <2>2. Cardinality(A \cap B) = 0
    BY <1>7, FS_EmptySet
  <2>3. Cardinality(C) \in Nat
    BY <1>1, FS_CardinalityType
  <2> QED
    BY <1>5, <1>6, <2>1, <2>2, <2>3
<1>10. Cardinality(C) \in Nat
  BY <1>1, FS_CardinalityType
<1> QED
  BY <1>8, <1>9, <1>10 DEF C

\* When a Compile ends well without a warning, go build accepts what it made and
\* New finds the templates: whatever the files are called, but for the names no
\* diagnostic is about, and provided that what they import is there.
THEOREM CleanBuildsHolds == Spec => []CleanBuilds
<1>1. ASSUME IInv, Ended, Unambiguous, AllFiles # {}, Imported, ~Unreported(AllFiles)
      PROVE  Builds
  <2> USE <1>1
  <2>1. {Embed, RouteGo} \subseteq Live /\ \A n \in Live : go[n] # Torn
    BY EndedLive DEF IInv, PrunedInv, Live
  <2>2. \A n \in Live : \A s \in Refers(n, go[n]) : \E m \in Live : s \in Declares(m, go[m])
    BY EndedRefers
  <2>3. \A n, m \in Live : n # m => Declares(n, go[n]) \cap Declares(m, go[m]) = {}
    BY EndedDeclares
  <2>4. Render \in Live =>
          Cardinality(Declares(Render, go[Render])) = 2 * Cardinality(go[Render].components)
    <3>1. RenderCode.components = Components(AllFiles)
      BY DEF RenderCode
    <3> QED
      BY <3>1, EndedLive, RenderNames
  <2>5. \A f \in AllFiles : /\ OutputTemplateFile(f) \in Templates
                            /\ tpl[OutputTemplateFile(f)] \notin {Absent, Torn}
    <3> SUFFICES ASSUME NEW f \in AllFiles
                 PROVE  /\ OutputTemplateFile(f) \in Templates
                        /\ tpl[OutputTemplateFile(f)] \notin {Absent, Torn}
      OBVIOUS
    <3>1. OutputTemplateFile(f) \in Templates
      BY ReadTexts, Generated DEF IInv
    <3>2. \E g \in AllFiles : tpl[OutputTemplateFile(f)] = read[g]
      BY EndedTodo DEF TemplateDone
    <3> QED
      BY <3>1, <3>2, ReadTexts, GenerateTreeAssumption DEF IInv
  <2>6. go[Embed].static => static = "copied"
    BY EndedLive DEF EmbedCode, IInv, StaticInv
  <2>7. go[RouteGo].files = AllFiles
    BY EndedLive DEF RoutesCode
  <2> QED
    BY <2>1, <2>2, <2>3, <2>4, <2>5, <2>6, <2>7 DEF Builds
<1>2. IInv => CleanBuilds
  BY <1>1 DEF CleanBuilds
<1> QED
  BY <1>2, Inductive, PTL

-----------------------------------------------------------------------------
(* No step spoils what is there.                                           *)

LEMMA WhereErrors ==
  ASSUME IInv, Errors
  PROVE  pc \in {"idle", "compile"} /\ ~Writing /\ io = "start"
BY DEF IInv, StageInv, Past, Writing

\* What is removed, is removed by pruneStaleOutputs.
LEMMA OnlyPruneRemoves ==
  ASSUME IInv, [Next]_vars, NEW n \in GoFiles, go[n] # Absent, go'[n] = Absent
  PROVE  PruneGo
<1>1. ASSUME Rename PROVE FALSE
  <2>1. Writing /\ tmp[Target] = Code
    BY <1>1 DEF Rename, IInv, StageInv, TmpInv
  <2>2. Target \in GoFiles /\ Code # Absent /\ DOMAIN go = GoFiles
    BY <2>1, Codes DEF IInv, TypeOK
  <2> QED
    BY <1>1, <2>1, <2>2 DEF Rename
<1>2. ~(PruneGo \/ Rename) => go' = go
  BY DEF Next, Compile, WriteGoFile, vars, sources, tree, compile, Edit, DiscoverFiles, CompileFile,
         Diagnosed, Compiled, OpenTemplate, FillTemplate, TemplatesWritten, SyncStatic, CopyDir,
         SkipEqual, OpenTmp, FillTmp, PruneTemplate, CompileEnds, CompileFails
<1> QED
  BY <1>1, <1>2

\* A handler that is kept still has the name that a file of the project is
\* registered under.
LEMMA HandlersKept ==
  ASSUME IInv, PruneGo, NEW f \in AllFiles
  PROVE  /\ OutputGoFile(f) \in GoFiles /\ go'[OutputGoFile(f)] # Absent
         /\ Symbol("method", HandlerFuncName(f)) \in
              Declares(OutputGoFile(f), go'[OutputGoFile(f)])
<1>1. f \in Files /\ AllFiles \subseteq Files
  BY ReadTexts DEF IInv
<1>2. OutputGoFile(f) \in GoFiles /\ OutputGoFile(f) \in Handlers
  BY <1>1, Generated
<1>3. PICK g \in AllFiles : OutputGoFile(g) = OutputGoFile(f)
                            /\ go[OutputGoFile(f)] = HandlerCode(g)
  <2>1. todo = {} /\ Past
    BY DEF PruneGo, IInv, StageInv, Past
  <2> QED
    BY <2>1 DEF IInv, WrittenInv, HandlerDone
<1>4. OutputGoFile(f) \notin StaleGo
  BY DEF StaleGo, KeepGo
<1>5. go'[OutputGoFile(f)] = HandlerCode(g)
  BY <1>3, <1>4 DEF PruneGo
<1>6. HandlerCode(g).of = g /\ HandlerCode(g) \in AnyHandler
  BY <1>1, ReadTexts DEF HandlerCode, AnyHandler, IInv
<1>7. HandlerCode(g) # Absent
  BY <1>6, GenerateTreeAssumption
<1>8. HandlerFuncName(g) = HandlerFuncName(f)
  BY <1>1, <1>3, SameOutput
<1>9. Symbol("method", HandlerFuncName(f)) \in Declares(OutputGoFile(f), HandlerCode(g))
  BY <1>2, <1>6, <1>8, Declared
<1> QED
  BY <1>2, <1>5, <1>7, <1>9

\* The router is kept, with the names that everything refers to.
LEMMA RouterKept ==
  ASSUME IInv, PruneGo
  PROVE  /\ go'[RouteGo] = RoutesCode /\ RoutesCode # Absent
         /\ Symbol("exported", <<"router">>) \in Declares(RouteGo, go'[RouteGo])
<1>1. RouteGo \notin StaleGo /\ go[RouteGo] = RoutesCode
  BY DEF StaleGo, KeepGo, PruneGo, IInv, SharedInv
<1>2. go'[RouteGo] = RoutesCode
  BY <1>1 DEF PruneGo
<1>3. RoutesCode # Absent
  <2>1. UNION {read[f].uses : f \in AllFiles} \subseteq Files
    BY ReadTexts DEF IInv
  <2>2. RoutesCode \in AnyRoutes
    BY <2>1, ReadTexts DEF RoutesCode, AnyRoutes, IInv, TypeOK
  <2> QED
    BY <2>2, GenerateTreeAssumption
<1>4. Symbol("exported", <<"router">>) \in Declares(RouteGo, go'[RouteGo])
  BY Declared DEF GeneratedIdentifiers
<1> QED
  BY <1>2, <1>3, <1>4

\* What a handler that is pruned declares is its file's.
LEMMA StaleDeclares ==
  ASSUME IInv, NEW n \in StaleGo, NEW x, Symbol("method", x) \in Declares(n, go[n])
  PROVE  \E g \in Files : x = HandlerFuncName(g)
<1>1. n \in GoFiles /\ go[n] # Absent /\ go[n] # Torn /\ n # Embed /\ n # RouteGo
  BY DEF StaleGo, KeepGo, IInv, PrunedInv
<1>2. CASE n = Render
  BY <1>2, Declared DEF Symbol
<1>3. CASE n \in Handlers
  <2>1. go[n] \in AnyHandler
    BY <1>1, <1>3, ContentsOf DEF IInv, TypeOK
  <2>2. go[n].of \in Files
    BY <2>1 DEF AnyHandler
  <2>3. x = HandlerFuncName(go[n].of)
    BY <1>3, Declared DEF Symbol
  <2> QED
    BY <2>2, <2>3
<1> QED
  BY <1>1, <1>2, <1>3, Generated

LEMMA PruneKeepsUsed ==
  ASSUME IInv, PruneGo, Imported, NEW n \in GoFiles, go[n] # Absent, go'[n] = Absent,
         NEW m \in GoFiles \ {Render}, go'[m] # Absent,
         NEW s \in Refers(m, go'[m]), s \in Declares(n, go[n])
  PROVE  \E k \in GoFiles : go'[k] # Absent /\ s \in Declares(k, go'[k])
<1>1. n \in StaleGo
  BY DEF PruneGo
<1>2. CASE m = Embed
  BY <1>2, Declared
<1>3. CASE m = RouteGo
  <2>1. \/ \E f \in Pages(AllFiles) : s = Symbol("method", RouteToFuncName(f))
        \/ \E f \in AllFiles : s = Symbol("method", HandlerFuncName(f))
    <3>1. go'[m].files = AllFiles /\ go'[m].uses \subseteq AllFiles
      <4>1. go'[m] = RoutesCode
        BY <1>3, RouterKept
      <4> QED
        BY <4>1 DEF RoutesCode, Imported
    <3> QED
      BY <1>3, <3>1, Declared
  <2>2. ASSUME NEW f \in Pages(AllFiles), s = Symbol("method", RouteToFuncName(f))
        PROVE  s = Symbol("method", HandlerFuncName(f)) /\ f \in AllFiles
    <3>1. f \in Pages(Files) /\ f \in AllFiles
      BY ReadTexts DEF Pages, IInv
    <3>2. PICK g \in Files : RouteToFuncName(f) = HandlerFuncName(g)
      BY <1>1, <2>2, StaleDeclares
    <3>3. HandlerFuncName(f) = HandlerFuncName(g)
      BY <3>1, <3>2, RouteNames
    <3> QED
      BY <2>2, <3>1, <3>2, <3>3
  <2>3. \E f \in AllFiles : s = Symbol("method", HandlerFuncName(f))
    BY <2>1, <2>2
  <2> QED
    BY <2>3, HandlersKept
<1>4. CASE m \in Handlers
  <2>1. s = Symbol("exported", <<"router">>)
    BY <1>4, Declared
  <2> QED
    BY <2>1, RouterKept, Generated
<1> QED
  BY <1>2, <1>3, <1>4, Generated

\* A Compile that reports an error has touched nothing, and pruneStaleOutputs
\* never removes what a file that stays refers to.
THEOREM TreeStepsHolds == Spec => TreeSteps
<1>1. IInv /\ [Next]_vars => [Errors => UNCHANGED tree]_<<tree>>
  <2> SUFFICES ASSUME IInv, [Next]_vars, Errors
               PROVE  UNCHANGED tree
    OBVIOUS
  <2>1. pc \in {"idle", "compile"} /\ ~Writing /\ io = "start"
    BY WhereErrors
  <2> QED
    BY <2>1
    DEF Next, Compile, WriteGoFile, vars, sources, tree, compile, Edit, DiscoverFiles, CompileFile,
        Diagnosed, Compiled, OpenTemplate, FillTemplate, TemplatesWritten, SyncStatic, CopyDir,
        SkipEqual, OpenTmp, FillTmp, Rename, PruneGo, PruneTemplate, CompileEnds, CompileFails
<1>2. IInv /\ [Next]_vars =>
        [\A n \in GoFiles : Imported /\ go[n] # Absent /\ go'[n] = Absent =>
           \A m \in GoFiles \ {Render} : go'[m] # Absent =>
             Refers(m, go'[m]) \cap Declares(n, go[n]) \subseteq
               UNION {Declares(k, go'[k]) : k \in {j \in GoFiles : go'[j] # Absent}}]_vars
  <2> SUFFICES ASSUME IInv, [Next]_vars, NEW n \in GoFiles,
                      Imported, go[n] # Absent, go'[n] = Absent,
                      NEW m \in GoFiles \ {Render}, go'[m] # Absent,
                      NEW s \in Refers(m, go'[m]), s \in Declares(n, go[n])
               PROVE  \E k \in GoFiles : go'[k] # Absent /\ s \in Declares(k, go'[k])
    OBVIOUS
  <2>1. PruneGo
    BY OnlyPruneRemoves
  <2> QED
    BY <2>1, PruneKeepsUsed
<1> QED
  BY <1>1, <1>2, Inductive, PTL DEF Spec, TreeSteps, ErrorsTouchNothing, PrunedUnused
=============================================================================

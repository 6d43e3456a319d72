------------------------------- MODULE Names --------------------------------
(***************************************************************************)
(* The names the compiler makes from the path of a .gastro file.  Each     *)
(* transform folds some of the path's separators into another and keeps    *)
(* the rest, so which of two paths end up with one name is decided by      *)
(* separators alone: a path is its words, each with what comes before it.  *)
(***************************************************************************)
EXTENDS Naturals, Sequences

\* "/" and "/[" begin a segment, the second of a [param]; "aA" is a capital
\* letter inside a word, as in postCard.
Joints == {"/", "/[", "-", "_", "aA"}

Path(kind, name) == [kind |-> kind, name |-> name]
Word(joint, word) == [joint |-> joint, word |-> word]

AnyPath == [kind : {"pages", "components"}, name : Seq([joint : Joints, word : STRING])]

Fold(name, joints, by) ==
  [i \in DOMAIN name |-> IF name[i].joint \in joints THEN Word(by, name[i].word) ELSE name[i]]

Words(f) == [i \in DOMAIN f.name |-> f.name[i].word]

OutputGoFile(f) == Path(f.kind, Fold(f.name, {"/", "/[", "-"}, "_"))

\* Brackets and dashes are kept.
OutputTemplateFile(f) == Path(f.kind, Fold(f.name, {"/"}, "_"))

DerivePageID(f) == Path(f.kind, Fold(f.name, {"/", "/[", "-", "_"}, "_"))

\* The words are capitalised and run together.
HandlerFuncName(f) == Path(f.kind, Fold(f.name, Joints, "aA"))

\* For routes.go; an underscore is kept.
RouteToFuncName(f) == Path("pages", Fold(f.name, {"/", "/[", "-"}, "aA"))

\* ExportedComponentName drops the prefix of HandlerFuncName.
ExportedComponentName(f) == Words(HandlerFuncName(f))

-----------------------------------------------------------------------------
(* The pre-passes over the paths.                                          *)

\* "New", "Router", ...: declared by every generated package.
GeneratedIdentifiers == {<<"new">>, <<"router">>}

PropsType(f) == Append(ExportedComponentName(f), "props")

Components(files) == {f \in files : f.kind = "components"}
Pages(files)      == {f \in files : f.kind = "pages"}

PageIDCollision(files) ==
  \E f, g \in files : f # g /\ DerivePageID(f) = DerivePageID(g)

ComponentNameCollision(files) ==
  \E f, g \in Components(files) : f # g /\ ExportedComponentName(f) = ExportedComponentName(g)

\* Mutant: the props types are forgotten.
ClashWithRouterAPI(files) ==
  \E f \in Components(files) : ExportedComponentName(f) \in GeneratedIdentifiers

GeneratedIdentifierClash(files) ==
  \E f \in Components(files) :
    \/ ExportedComponentName(f) \in GeneratedIdentifiers
    \/ \E g \in Components(files) : ExportedComponentName(f) = PropsType(g)
=============================================================================

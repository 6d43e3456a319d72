SPECIFICATION Spec
CONSTANTS
  Exported <- MCExported
  TypecheckProps = TRUE
  Parts = {"sections", "embeds", "code", "edits", "returns", "markup", "props"}
  FilesOf <- MCFilesOf
INVARIANTS SectionsExact EmbedsHonoured DiagnosticsAt RequestRefused BuiltAsWritten ValidBuilds ReturnsFollow WrapsNest CallsChecked LiteralsAgree PropsShown PositionsAgree ShadowAgrees EditorAgrees
\* A compile ends.
CHECK_DEADLOCK FALSE

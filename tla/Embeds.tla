------------------------------- MODULE Embeds -------------------------------
(***************************************************************************)
(* The //gastro:embed directives of a frontmatter: ProcessEmbedDirectives  *)
(* bakes the named file into the variable declared below the directive,    *)
(* ValidateEmbedDirectives reports, for the editor and for the messages of *)
(* the compiler, what is wrong with each directive.  They find the         *)
(* variable of a directive the same way, through the comments go/ast       *)
(* attaches to a statement, and go wrong each in its own way.              *)
(*                                                                         *)
(* The path of a directive stands for what is at that path.                *)
(***************************************************************************)
EXTENDS Sections

Comments(fm)   == {i \in DOMAIN fm : fm[i].is \in {"embed", "note"} /\ ~Raw(fm)[i]}
Directives(fm) == {i \in DOMAIN fm : fm[i].is = "embed" /\ ~Raw(fm)[i]}
Statements(fm) == {i \in DOMAIN fm : fm[i].is \notin {"embed", "note", "blank"} \/ Raw(fm)[i]}
VarDecls(fm)   == {i \in DOMAIN fm : fm[i].is = "var" /\ ~Raw(fm)[i]}

\* The frontmatter, wrapped in a function, is Go.
Parses(fm) == Lines(fm, "broken") = {}

\* The comment group line i is in: a run of lines that are comments.
Run(comments, i) == {j \in comments : (j .. i) \cup (i .. j) \subseteq comments}
Group(fm, i) == Run(Comments(fm), i)

\* ast.NewCommentMap: a group right below a statement and with a blank line
\* below it belongs to that statement, any other to the next one.
OwnerOf(group, stmts) ==
  LET after == {j \in stmts : j > Max(group)}
  IN IF after = {} \/ (Min(group) - 1 \in stmts /\ Max(group) + 1 \notin stmts) THEN 0 ELSE Min(after)

Owner(fm, i) == OwnerOf(Group(fm, i), Statements(fm))

Above(fm, d) == {i \in Comments(fm) : Owner(fm, i) = d}

\* Mutant: only the comments right above a variable are its own.
ClaimedDirectly(fm, d) == {i \in Above(fm, d) \cap Directives(fm) : i .. d - 1 \subseteq Comments(fm)}

Claimed(fm, d) == Above(fm, d) \cap Directives(fm)

Candidates(fm) == {d \in VarDecls(fm) : Claimed(fm, d) # {}}

\* Symbolic links may leave the module, the path as it is written may not.
ResolveEmbedPath(path) ==
  CASE path = "escape"  -> "outside module"
    [] path = "missing" -> "missing file"
    [] OTHER            -> ""

\* classifyEmbedVarType: string and []byte, no other name of theirs.
ClassifyEmbedVarType(form) == form \in {"string", "bytes"}

\* The paths the directives in lines claimed name.
Paths(fm, claimed) == LET line == SetToSortSeq(claimed, <) IN [k \in DOMAIN line |-> fm[line[k]].arg]

\* What both find wrong with a variable, in the order they look.
FaultOf(form, paths) ==
  CASE Len(paths) > 1                      -> "stacked"
    [] form \in {"group", "pair", "init"}  -> form
    [] ~ClassifyEmbedVarType(form)         -> "type"
    [] paths[1] = "absolute"               -> "absolute path"
    [] OTHER                               -> ResolveEmbedPath(paths[1])

DirectiveFault(fm, d) == FaultOf(fm[d].form, Paths(fm, Claimed(fm, d)))

\* What only the compiler finds, because it reads the file.
ReadFault(form, path) ==
  CASE path = "directory"                   -> "reading"
    [] path = "binary" /\ form = "string"   -> "not UTF-8"
    [] OTHER                                -> ""

EmbedFaultOf(form, paths) ==
  IF FaultOf(form, paths) # "" THEN FaultOf(form, paths) ELSE ReadFault(form, paths[1])

EmbedFault(fm, d) == EmbedFaultOf(fm[d].form, Paths(fm, Claimed(fm, d)))

\* The comment group the rewrite starts at, and what it swallows: it ends with
\* the declaration, and writes back that one group and the declaration.
LeadingDoc(fm, d) == Group(fm, Min(Above(fm, d)))
Swallowed(fm, d)  == Max(LeadingDoc(fm, d)) + 1 .. d - 1

BuildEmbedDecl(l) == [l EXCEPT !.form = "baked"]

\* The files the program must be built again for.
EmbedDeps(fm) == {fm[Min(Claimed(fm, d))].arg : d \in Candidates(fm)}

\* The rewritten frontmatter, by the lines of the old one; the first fault in
\* the order of the declarations ends it.
Rewritten(error, lines, from, deps) ==
  [error |-> error, frontmatter |-> lines, from |-> from, deps |-> deps]

RewriteEmbeds(fm, decls, kept, gone) ==
  LET line(i) == CASE i \in decls -> BuildEmbedDecl(fm[i])
                   [] i \in gone -> Bare("blank")
                   [] OTHER      -> fm[i]
  IN Rewritten("", [k \in DOMAIN kept |-> line(kept[k])], kept, EmbedDeps(fm))

RewriteUnlessFaulty(fm, decls, faults) ==
  IF faults # {} THEN Rewritten(EmbedFault(fm, Min(faults)), <<>>, <<>>, {})
  ELSE RewriteEmbeds(fm, decls,
                     InOrder({i \in DOMAIN fm : \A d \in decls : i \notin Swallowed(fm, d)}),
                     UNION {LeadingDoc(fm, d) \cap Directives(fm) : d \in decls})

ProcessEmbedDirectives(fm) ==
  IF ~Parses(fm) THEN Rewritten("", fm, [i \in DOMAIN fm |-> i], {})
  ELSE RewriteUnlessFaulty(fm, Candidates(fm), {d \in Candidates(fm) : EmbedFault(fm, d) # ""})

\* The directives no variable claims.
OrphanDirectives(fm) == Directives(fm) \ UNION {Claimed(fm, d) : d \in Candidates(fm)}

\* Every finding, with the line of its directive.
ValidateEmbedDirectives(fm) ==
  IF ~Parses(fm) THEN {}
  ELSE {<<DirectiveFault(fm, d), Min(Claimed(fm, d))>> :
          d \in {e \in Candidates(fm) : DirectiveFault(fm, e) # ""}}
       \cup {<<"orphan", i>> : i \in OrphanDirectives(fm)}
=============================================================================

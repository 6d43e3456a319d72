------------------------------- MODULE Markup -------------------------------
(***************************************************************************)
(* The template of a .gastro file.  TransformTemplate makes html/template  *)
(* of it: a raw block becomes literal text, a wrap block a call and a      *)
(* define that holds what it wraps.  ValidateTemplate checks the template  *)
(* as it is written, so it masks what html/template cannot parse.  The two *)
(* find raw blocks, comments and the ends of wraps each in its own way.    *)
(*                                                                         *)
(* A template is a sequence of <<kind, name>>:                             *)
(*   text; old: text that looks like <X a={b}>; call X; open: if, range or *)
(*   with; end; wrap X; trimwrap X: {{- wrap X}}; raw; endraw; children;   *)
(*   comment c: one whose text has {{ c }} in it                           *)
(***************************************************************************)
EXTENDS Integers, FiniteSets, SequencesExt

Token(kind, name, id) == [kind |-> kind, name |-> name, id |-> id]

Tokens(body) == [i \in DOMAIN body |-> Token(body[i][1], body[i][2], i)]

Of(ts, kinds) == {i \in DOMAIN ts : ts[i].kind \in kinds}

\* .Children in an action of its own, wherever it stands.
TemplateRendersChildren(body) == \E i \in DOMAIN body : body[i] = <<"children", "">>

\* findMatchingEnd: the end that closes what token p opens, as a set.
MatchingEnds(ts, p) ==
  LET openers == {"open", "wrap", "trimwrap", "define"}
      level(q) == Cardinality({k \in p + 1 .. q : ts[k].kind \in openers})
                  - Cardinality({k \in p + 1 .. q : ts[k].kind = "end"})
      first(ends) == {q \in ends : \A r \in ends : q <= r}
  IN first({q \in p + 1 .. Len(ts) : level(q) = -1})

-----------------------------------------------------------------------------
(* template.go: TransformTemplate.                                         *)

\* extractComments takes all comments out first, those in raw blocks too.
ExtractComments(ts) ==
  [i \in DOMAIN ts |-> IF ts[i].kind = "comment" THEN [ts[i] EXCEPT !.kind = "placeholder"] ELSE ts[i]]

RestoreComments(ts) ==
  [i \in DOMAIN ts |-> IF ts[i].kind = "placeholder" THEN [ts[i] EXCEPT !.kind = "comment"] ELSE ts[i]]

EscapeRawContent(t) == IF t.kind = "placeholder" THEN t ELSE [t EXCEPT !.kind = "literal"]

EscapeRawBlocks(ts) ==
  LET step(s, t) ==
        IF s.error # "" THEN s
        ELSE IF s.raw THEN [s EXCEPT !.raw = t.kind # "endraw",
                                     !.out = IF t.kind = "endraw" THEN @ ELSE Append(@, EscapeRawContent(t))]
        ELSE IF t.kind = "endraw" THEN [s EXCEPT !.error = "unexpected endraw"]
        ELSE IF t.kind = "raw" THEN [s EXCEPT !.raw = TRUE]
        ELSE [s EXCEPT !.out = Append(@, t)]
      closed(end) == [out   |-> end.out,
                      error |-> IF end.error = "" /\ end.raw THEN "unclosed raw" ELSE end.error]
  IN closed(FoldLeft(step, [raw |-> FALSE, out |-> <<>>, error |-> ""], ts))

\* The first wrap becomes a call, what it wraps a define at the end.
SplitWrap(ts, p, e) ==
  LET define == <<Token("define", "", ts[p].id)>> \o SubSeq(ts, p + 1, e - 1) \o <<Token("end", "", 0)>>
  IN SubSeq(ts, 1, p - 1) \o <<[ts[p] EXCEPT !.kind = "wrapcall"]>> \o SubSeq(ts, e + 1, Len(ts)) \o define

TransformWrapAt(s, p, known) ==
  IF s.out[p].name \notin known THEN [s EXCEPT !.error = "unknown component"]
  ELSE IF MatchingEnds(s.out, p) = {} THEN [s EXCEPT !.error = "missing end"]
  ELSE [s EXCEPT !.out = SplitWrap(s.out, p, Min(MatchingEnds(s.out, p)))]

TransformOneWrap(s, known) ==
  IF s.error # "" \/ Of(s.out, {"wrap"}) = {} THEN s
  ELSE TransformWrapAt(s, Min(Of(s.out, {"wrap"})), known)

TransformWraps(s, body, known) ==
  FoldLeft(LAMBDA t, i : TransformOneWrap(t, known), s, [i \in DOMAIN body |-> i])

\* The placeholders of the comments are put back last.
Finished(s) == [out |-> RestoreComments(s.out), error |-> s.error]

\* Mutant: the wraps are transformed before the raw blocks are escaped.
WrapsFirst(body, known) ==
  LET escape(s) == IF s.error # "" THEN s ELSE Finished(EscapeRawBlocks(s.out))
  IN escape(TransformWraps([out |-> ExtractComments(Tokens(body)), error |-> ""], body, known))

\* detectOldSyntax looks at the text as it is, comments and raw blocks included.
TransformTemplate(body, known) ==
  IF \E i \in DOMAIN body : "old" \in {body[i][1], body[i][2]}
  THEN [out |-> <<>>, error |-> "old syntax"]
  ELSE Finished(TransformWraps(EscapeRawBlocks(ExtractComments(Tokens(body))), body, known))

-----------------------------------------------------------------------------
(* validate_template.go: ValidateTemplate.                                 *)

\* Mutant: raw blocks are validated like the rest.
NoneMasked(ts) == {}

\* The tokens of raw blocks, found in the text with its comments: a comment can
\* hide the start of a block, not its end.
MaskedRaw(ts) ==
  LET closes(p) == {q \in p + 1 .. Len(ts) : ts[q].kind = "endraw" \/ ts[q].name = "endraw"}
      step(s, p) == IF ts[p].kind = "raw" /\ p > s.upto /\ closes(p) # {}
                    THEN [upto |-> Min(closes(p)), masked |-> s.masked \cup p .. Min(closes(p))]
                    ELSE IF ts[p].kind = "raw" /\ p > s.upto THEN [s EXCEPT !.upto = Len(ts)]
                    ELSE s
  IN FoldLeft(step, [upto |-> 0, masked |-> {}], [p \in DOMAIN ts |-> p]).masked

StripRaw(ts) == SelectSeq(ts, LAMBDA t : t.id \notin MaskedRaw(ts))

\* maskForValidation: raw blocks and the ends of wraps go; the wraps are those
\* of the text, comments included, but not {{- wrap.
MaskForValidation(body) ==
  LET wraps(ts) == Of(ts, {"wrap"}) \cup {i \in Of(ts, {"comment"}) : ts[i].name = "wrap"}
      without(ts, ends) == SelectSeq(ts, LAMBDA t : t.id \notin {ts[e].id : e \in ends})
      mask(ts) == without(ts, UNION {MatchingEnds(ts, p) : p \in wraps(ts)})
  IN mask(StripRaw(Tokens(body)))

\* text/template parses it: every end closes an open, every open is closed.
Balanced(ts, openers) ==
  LET level(q) == Cardinality({k \in 1 .. q : ts[k].kind \in openers})
                  - Cardinality({k \in 1 .. q : ts[k].kind = "end"})
  IN level(Len(ts)) = 0 /\ \A q \in DOMAIN ts : level(q) >= 0

ComponentCalls == {"call", "wrap", "trimwrap", "wrapcall"}

\* The component calls the validator looks at; none if the masked text does not
\* parse.
CallsIn(ts) == IF Balanced(ts, {"open"}) THEN {ts[i].id : i \in Of(ts, ComponentCalls)} ELSE {}

ValidatedCalls(body) == CallsIn(MaskForValidation(body))

UnknownComponents(body, known) == {i \in ValidatedCalls(body) : body[i][2] \notin known}

-----------------------------------------------------------------------------
(* What html/template makes of the result.                                 *)

\* The calls the template makes.
CompiledCalls(ts) == {ts[i].id : i \in Of(ts, ComponentCalls)}

\* It parses: {{- wrap is no function of it, a define stands at the top.
RuntimeParses(ts, known) ==
  /\ Balanced(ts, {"open", "define"})
  /\ Of(ts, {"trimwrap"}) = {}
  /\ \A i \in Of(ts, ComponentCalls) : ts[i].name \in known
  /\ \A d \in Of(ts, {"define"}) : Balanced(SubSeq(ts, 1, d - 1), {"open", "define"})

\* A call of a wrap executes its define.
InlineAt(ts, p, d, e) ==
  SubSeq(ts, 1, p - 1) \o <<[ts[p] EXCEPT !.kind = "wrap"]>> \o SubSeq(ts, d + 1, e - 1)
  \o <<Token("end", "", 0)>> \o SubSeq(ts, p + 1, d - 1) \o SubSeq(ts, e + 1, Len(ts))

InlineDefine(ts, p, d) == InlineAt(ts, p, d, Min(MatchingEnds(ts, d)))
InlineCall(ts, p) == InlineDefine(ts, p, Min({i \in Of(ts, {"define"}) : ts[i].id = ts[p].id}))

InlineOne(ts) == IF Of(ts, {"wrapcall"}) = {} THEN ts ELSE InlineCall(ts, Min(Of(ts, {"wrapcall"})))

Inlined(ts) ==
  LET unnumbered(done) == [i \in DOMAIN done |-> IF done[i].kind = "end" THEN Token("end", "", 0) ELSE done[i]]
  IN unnumbered(FoldLeft(LAMBDA t, i : InlineOne(t), ts, [i \in DOMAIN ts |-> i]))

\* The template as it is written: a raw block is literal up to its endraw.
WrittenAround(ts, in) ==
  LET text(i) == IF in[i] THEN [ts[i] EXCEPT !.kind = "literal"]
                 ELSE IF ts[i].kind = "end" THEN Token("end", "", 0) ELSE ts[i]
      kept == SelectSeq([i \in DOMAIN ts |-> i],
                        LAMBDA i : ~(in[i] /\ ts[i].kind = "endraw") /\ ~(~in[i] /\ ts[i].kind = "raw"))
  IN [k \in DOMAIN kept |-> text(kept[k])]

WrittenTokens(body) ==
  LET in(ts) == FoldLeft(LAMBDA s, t : Append(s, IF Last(s) THEN t.kind # "endraw" ELSE t.kind = "raw"),
                         <<FALSE>>, ts)
  IN WrittenAround(Tokens(body), in(Tokens(body)))
=============================================================================

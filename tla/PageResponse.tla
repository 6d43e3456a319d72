---------------------------- MODULE PageResponse ----------------------------
(***************************************************************************)
(* One request: what the frontmatter of a page, or a handler registered    *)
(* with WithHandler, does to its http.ResponseWriter, and what arrives.  A *)
(* page writes through gastroWriter, which decides whether the template    *)
(* still runs and whether a failure can still become a 500.  In            *)
(* development mode everything goes through injectWriter, which holds HTML *)
(* back until the handler returns and adds the reload script to it.        *)
(*                                                                         *)
(* out.plain is the response that the same calls make on the writer of     *)
(* net/http: the measure of what the two wrappers may change.              *)
(***************************************************************************)
EXTENDS Naturals, Sequences

CONSTANTS MaxCalls,    \* bound on the calls of a frontmatter or handler
          MaxChunks    \* bound on the writes of a template

ASSUME PageResponseAssumption == MaxCalls \in Nat /\ MaxChunks \in Nat

\* A chunk is the bytes of one write: by whom ("user", "template", "error" or
\* "dev"), and of the kind ("markup", "blank" or "text") that they look like.

VARIABLES page,      \* a page, not a handler of WithHandler
          dev,       \* development mode
          binders,   \* WithRequestFuncs: pages render into a buffer
          pc,        \* "handler", "render", "ended" or "aborted"
          calls,
          rendered,  \* what the template has produced
          out,       \* gw and iw, the two wrappers; net, the response; plain;
                     \* and odd, the calls so far that the wrappers and
                     \* net/http are known to take differently
          opened,    \* history: an event stream was opened on a fresh response
          owed       \* history: something failed while nothing was committed

vars == <<page, dev, binders, pc, calls, rendered, out, opened, owed>>

-----------------------------------------------------------------------------
(* net/http.  The status and the headers are taken at the first            *)
(* WriteHeader or Write, and sent at the first Flush or at the end; without *)
(* a Content-Type the response gets the one that the bytes sent with them  *)
(* look like, and none if there are no bytes yet.  Bodies stay below the   *)
(* size of its buffer.                                                     *)

LooksLike(bytes) ==
  IF \E i \in DOMAIN bytes :
       bytes[i].kind = "markup" /\ \A j \in 1 .. i - 1 : bytes[j].kind = "blank"
  THEN "html" ELSE "text"

Unsent ==
  [type |-> "none", status |-> 0, head |-> "none", body |-> <<>>,
   sent |-> FALSE, seen |-> <<>>, seenType |-> "none"]

NetHeader(r, code) ==
  IF code = 103 \/ r.status # 0 THEN r ELSE [r EXCEPT !.status = code, !.head = r.type]

NetWrite(r, bytes) ==
  LET headed == NetHeader(r, 200) IN [headed EXCEPT !.body = @ \o bytes]

NetFlush(r) ==
  LET headed == NetHeader(r, 200)
      type   == IF headed.head # "none" THEN headed.head
                ELSE IF headed.body # <<>> THEN LooksLike(headed.body) ELSE "none"
  IN  [headed EXCEPT !.sent = TRUE, !.seen = headed.body, !.seenType = IF r.sent THEN @ ELSE type]

-----------------------------------------------------------------------------
(* injectWriter.                                                           *)

Fresh == [decided |-> FALSE, html |-> FALSE, status |-> 0, buf |-> <<>>]

Decide(s) ==
  IF s.iw.decided THEN s
  ELSE [s EXCEPT !.iw.decided = TRUE, !.iw.html = (s.net.type = "html")]

InjectHeader(s, code) ==
  LET d == Decide([s EXCEPT !.iw.status = code])
  IN  IF d.iw.html THEN d ELSE [d EXCEPT !.net = NetHeader(@, code)]

\* Mutant: the type is left to net/http.
InjectWriteUnsniffed(s, bytes) ==
  LET d == Decide(s)
  IN  IF d.iw.html THEN [d EXCEPT !.iw.buf = @ \o bytes] ELSE [d EXCEPT !.net = NetWrite(@, bytes)]

InjectWrite(s, bytes) ==
  LET known == s.iw.decided \/ s.net.type # "none"
      d     == Decide(IF known THEN s ELSE [s EXCEPT !.net.type = LooksLike(bytes)])
  IN  IF d.iw.html THEN [d EXCEPT !.iw.buf = @ \o bytes] ELSE [d EXCEPT !.net = NetWrite(@, bytes)]

\* Before </body> or, as here, at the end.
Script == [by |-> "dev", kind |-> "markup"]

\* Mutant: the status is lost.
InjectFlushPlain(s) ==
  IF ~s.iw.html THEN s ELSE [s EXCEPT !.net = NetWrite(@, Append(s.iw.buf, Script))]

InjectFlush(s) ==
  IF ~s.iw.html THEN s
  ELSE [s EXCEPT !.net =
         NetWrite(IF s.iw.status = 0 THEN @ ELSE NetHeader(@, s.iw.status), Append(s.iw.buf, Script))]

Odd(s, what, when) == IF when THEN [s EXCEPT !.odd = @ \cup {what}] ELSE s

-----------------------------------------------------------------------------
(* The calls of a frontmatter, handler or template, on both responses.     *)

SetHeader(s, type) ==
  Odd([s EXCEPT !.net.type = type, !.plain.type = type], "lateType", s.plain.status # 0)

WriteHeader(s, code) ==
  LET below == IF page /\ s.gw.committed THEN s
               ELSE IF dev THEN InjectHeader(s, code)
               ELSE [s EXCEPT !.net = NetHeader(@, code)]
      odd   == (IF code = 103 THEN {"earlyHints"} ELSE {})
               \cup (IF ~page /\ s.plain.status # 0 THEN {"secondStatus"} ELSE {})
               \cup (IF ~s.iw.decided /\ s.net.type = "none" THEN {"untypedStatus"} ELSE {})
  IN  [below EXCEPT !.plain = NetHeader(@, code), !.odd = @ \cup odd,
                    !.gw.committed = @ \/ page]

Below(s, bytes) == IF dev THEN InjectWrite(s, bytes) ELSE [s EXCEPT !.net = NetWrite(@, bytes)]

WriteOdd(s, bytes) == Odd(s, "firstWrite", s.plain.body = <<>> /\ LooksLike(bytes) # "html")

\* Mutant: the header is committed and the body not marked.
WriteUnmarked(s, bytes) ==
  [Below(WriteOdd(s, bytes), bytes) EXCEPT
    !.plain = NetWrite(@, bytes), !.gw.committed = @ \/ page]

Write(s, bytes) ==
  [Below(WriteOdd(s, bytes), bytes) EXCEPT
    !.plain = NetWrite(@, bytes),
    !.gw    = [committed |-> @.committed \/ page, body |-> @.body \/ page]]

\* http.ResponseController unwraps injectWriter; gastroWriter has a Flush if the
\* writer it was given has one, which injectWriter has not, and no Unwrap.
Flushes == ~page \/ ~dev

\* The headers would be sent without a Content-Type.
Untyped(r) == ~r.sent /\ NetHeader(r, 200).head = "none" /\ r.body = <<>>

Flush(s) ==
  LET noted == Odd(Odd(s, "flush", dev /\ (page \/ s.iw.html)),
                   "untypedFlush", dev /\ Untyped(s.plain))
  IN  [noted EXCEPT
        !.plain = NetFlush(@),
        !.net = IF Flushes THEN NetFlush(@) ELSE @,
        !.gw.committed = @ \/ (page /\ Flushes)]

NewSSE(s) == Flush(SetHeader(s, "stream"))

User(kind) == <<[by |-> "user", kind |-> kind]>>

Send(s) == Flush(Write(s, User("text")))

Failure == <<[by |-> "error", kind |-> "text"]>>

\* Mutant: the text is written before the status.
HttpErrorTextFirst(s) == WriteHeader(Write(SetHeader(s, "text"), Failure), 500)

HttpError(s) == Write(WriteHeader(SetHeader(s, "text"), 500), Failure)

\* Recover and DefaultErrorHandler: once something is committed they only log.
Failed(s) == IF s.gw.committed \/ s.gw.body THEN s ELSE HttpError(s)

-----------------------------------------------------------------------------

Init ==
  /\ page \in BOOLEAN /\ dev \in BOOLEAN /\ binders \in BOOLEAN
  /\ pc = "handler" /\ calls = 0 /\ rendered = <<>>
  /\ out = [gw |-> [committed |-> FALSE, body |-> FALSE], iw |-> Fresh,
            net |-> Unsent, plain |-> Unsent, odd |-> {}]
  /\ opened = FALSE /\ owed = FALSE

Call(s) ==
  /\ pc = "handler" /\ calls < MaxCalls /\ calls' = calls + 1
  /\ out' = s
  /\ UNCHANGED <<page, dev, binders, pc, rendered, owed>>

CallSetHeader   == \E t \in {"html", "text"} : Call(SetHeader(out, t)) /\ UNCHANGED opened
CallWriteHeader == \E c \in {103, 404} : Call(WriteHeader(out, c)) /\ UNCHANGED opened
CallWrite ==
  \E bytes \in {User(k) : k \in {"markup", "blank", "text"}} \cup {<<>>} :
    Call(Write(out, bytes)) /\ UNCHANGED opened
CallFlush == Call(Flush(out)) /\ UNCHANGED opened
CallNewSSE ==
  /\ Call(NewSSE(out))
  /\ opened' = (opened \/ (out.plain = [Unsent EXCEPT !.type = out.plain.type] /\ ~out.iw.decided))
CallSend == opened /\ Call(Send(out)) /\ UNCHANGED opened

\* The handler returns to injectWriter and to net/http.
End(s) ==
  LET flushed == IF dev THEN InjectFlush(s) ELSE s
  IN  /\ pc' = "ended"
      /\ out' = [flushed EXCEPT !.net = NetFlush(@), !.plain = NetFlush(@)]
      /\ UNCHANGED <<page, dev, binders, calls, opened>>

Fails == End(Failed(out)) /\ owed' = (out.plain.status = 0)

\* net/http drops the connection of a handler that panics.
Panic ==
  /\ pc = "handler"
  /\ IF page THEN Fails
     ELSE pc' = "aborted" /\ UNCHANGED <<page, dev, binders, calls, out, opened, owed>>
  /\ UNCHANGED rendered

HandlerReturns ==
  /\ pc = "handler" /\ (page => out.gw.body)
  /\ End(out) /\ UNCHANGED <<rendered, owed>>

TemplateStarts ==
  /\ pc = "handler" /\ page /\ ~out.gw.body /\ pc' = "render"
  /\ UNCHANGED <<page, dev, binders, calls, rendered, out, opened, owed>>

TemplateWrites ==
  /\ pc = "render" /\ Len(rendered) < MaxChunks
  /\ \E kind \in {"markup", "blank", "text"} :
       LET chunk == [by |-> "template", kind |-> kind]
       IN  /\ rendered' = Append(rendered, chunk)
           /\ out' = IF binders THEN out ELSE Write(out, <<chunk>>)
  /\ UNCHANGED <<page, dev, binders, pc, calls, opened, owed>>

TemplateEnds ==
  /\ pc = "render"
  /\ End(IF binders THEN Write(out, rendered) ELSE out)
  /\ UNCHANGED <<rendered, owed>>

\* The template, or one of the binders, fails.
TemplateFails == pc = "render" /\ Fails /\ UNCHANGED rendered

Next ==
  \/ CallSetHeader \/ CallWriteHeader \/ CallWrite \/ CallFlush \/ CallNewSSE \/ CallSend
  \/ Panic \/ HandlerReturns
  \/ TemplateStarts \/ TemplateWrites \/ TemplateEnds \/ TemplateFails

Spec == Init /\ [][Next]_vars

-----------------------------------------------------------------------------
(* Properties                                                              *)

\* These bytes have arrived, the script apart.
Arrived(bytes) == out.net.seen \in {bytes, Append(bytes, Script)}

HasScript == \E i \in DOMAIN out.net.seen : out.net.seen[i].by = "dev"

\* The script is in HTML and nothing else, and in every HTML body unless a status
\* was written before the type (early hints, too), a flush came before either,
\* the first write does not look like HTML, or the type was set after the status.
ScriptExact ==
  pc = "ended" /\ out.odd \cap {"untypedStatus", "untypedFlush", "firstWrite", "lateType", "earlyHints"} = {} =>
    /\ HasScript => dev /\ out.net.seenType = "html"
    /\ dev /\ out.net.seenType = "html" /\ out.plain.seen # <<>> => HasScript

\* The client gets the status, the type and the bytes it would get from net/http,
\* the script apart.  The calls that break this are named: after an early hint a
\* page's status is dropped; in development mode a page is not flushed, a flush
\* of held HTML commits 200, one before any type or byte sends headers without a
\* type (a handler's later HTML gets the script all the same, and a page's flush
\* is not made, so that its later bytes are given a type), the last status of a
\* handler counts and not the first, headers are taken late, and a type is
\* guessed from the first write.  The script is where it belongs.
\* Events arrive as they are sent, but for a page in development mode.
AnswerKept ==
  /\ ScriptExact
  /\ pc = "ended" =>
       /\ Arrived(out.plain.seen)
       /\ out.odd \cap {"earlyHints", "secondStatus", "flush"} = {} =>
            out.net.status = out.plain.status
       /\ out.odd \cap {"lateType", "firstWrite", "untypedFlush"} = {} =>
            out.net.seenType = out.plain.seenType
  /\ opened /\ ~(page /\ dev) /\ "lateType" \notin out.odd =>
       Arrived(out.plain.seen)

\* A body has one author: the template never follows bytes of the frontmatter,
\* nor an error page bytes of either.
OneAuthor ==
  \A i, j \in DOMAIN out.plain.body : out.plain.body[i].by = out.plain.body[j].by

\* A page that fails with nothing committed answers 500, at any point and in
\* either mode ("otherwise it writes a 500 page", docs/pages.md).
FailureShown ==
  pc = "ended" /\ owed /\ "earlyHints" \notin out.odd =>
    out.net.seen = Failure /\ out.net.status = 500 /\ out.net.seenType = "text"
=============================================================================

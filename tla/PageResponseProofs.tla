------------------------- MODULE PageResponseProofs --------------------------
(***************************************************************************)
(* Three promises of a response, for any number of calls and of writes.    *)
(*                                                                         *)
(* It has one author: the body of a page belongs to the frontmatter, to    *)
(* the template or to the error page.  What carries it is the flag of      *)
(* gastroWriter: a page that has written a byte says so, and both the      *)
(* template and the error page look at it first.                           *)
(*                                                                         *)
(* It is the answer net/http would have given, the script apart, but for   *)
(* the calls that AnswerKept names.  What carries it relates the response  *)
(* behind the two wrappers to the plain one (Facts): what is held, which   *)
(* status is due, which type was guessed and from what.  Each call keeps   *)
(* that relation, and the end of the handler turns it into the promise.    *)
(*                                                                         *)
(* A page that fails with nothing committed shows the failure, because     *)
(* where net/http has no status the wrappers have decided nothing either.  *)
(***************************************************************************)
EXTENDS PageResponse, TLAPS

Kinds == {"markup", "blank", "text"}
Types == {"none", "html", "text", "stream"}
Calls == {"lateType", "earlyHints", "secondStatus", "untypedStatus", "firstWrite", "flush",
          "untypedFlush"}
Chunk == [by : {"user", "template", "error", "dev"}, kind : Kinds]
Answer ==
  [type : Types, status : Nat, head : Types,
   body : Seq(Chunk), sent : BOOLEAN, seen : Seq(Chunk), seenType : Types]
Flags   == [committed : BOOLEAN, body : BOOLEAN]
Holding == [decided : BOOLEAN, html : BOOLEAN, status : Nat, buf : Seq(Chunk)]
Response ==
  [gw : Flags, iw : Holding, net : Answer, plain : Answer, odd : SUBSET Calls]

\* By this author, every byte.
WrittenBy(bytes, who) == \A i \in DOMAIN bytes : bytes[i].by = who

-----------------------------------------------------------------------------
(* Bytes.                                                                  *)

LEMMA LooksLikeType == ASSUME NEW b PROVE LooksLike(b) \in {"html", "text"}
BY DEF LooksLike

LEMMA LooksLikeJoin ==
  ASSUME NEW a \in Seq(Chunk), NEW b \in Seq(Chunk), LooksLike(a) = "html"
  PROVE  LooksLike(a \o b) = "html"
<1>1. PICK i \in DOMAIN a : a[i].kind = "markup" /\ \A j \in 1 .. i - 1 : a[j].kind = "blank"
  BY DEF LooksLike
<1>2. i \in DOMAIN (a \o b) /\ \A j \in 1 .. i : (a \o b)[j] = a[j]
  OBVIOUS
<1>3. i \in Nat /\ i >= 1 /\ \A j \in 1 .. i - 1 : j \in 1 .. i
  OBVIOUS
<1>4. (a \o b)[i].kind = "markup" /\ \A j \in 1 .. i - 1 : (a \o b)[j].kind = "blank"
  BY <1>1, <1>2, <1>3
<1> QED
  BY <1>2, <1>4 DEF LooksLike

LEMMA NoBytes == LooksLike(<<>>) = "text"
BY DEF LooksLike

LEMMA AuthorsAgree ==
  ASSUME NEW bytes, NEW who, WrittenBy(bytes, who)
  PROVE  \A i, j \in DOMAIN bytes : bytes[i].by = bytes[j].by
BY DEF WrittenBy

LEMMA AuthorsJoin ==
  ASSUME NEW a \in Seq(Chunk), NEW b \in Seq(Chunk), NEW who, WrittenBy(a, who), WrittenBy(b, who)
  PROVE  WrittenBy(a \o b, who)
<1> SUFFICES ASSUME NEW i \in DOMAIN (a \o b) PROVE (a \o b)[i].by = who
  BY DEF WrittenBy
<1>1. CASE i \in 1 .. Len(a)
  BY <1>1 DEF WrittenBy
<1>2. CASE i \notin 1 .. Len(a)
  <2>1. i - Len(a) \in DOMAIN b /\ (a \o b)[i] = b[i - Len(a)]
    BY <1>2
  <2> QED
    BY <2>1 DEF WrittenBy
<1> QED
  BY <1>1, <1>2

LEMMA Pieces ==
  /\ Failure \in Seq(Chunk) /\ WrittenBy(Failure, "error")
  /\ Script \in Chunk
  /\ \A k \in Kinds : User(k) \in Seq(Chunk) /\ WrittenBy(User(k), "user")
<1>1. /\ [by |-> "error", kind |-> "text"] \in Chunk
      /\ [by |-> "dev", kind |-> "markup"] \in Chunk
      /\ \A k \in Kinds : [by |-> "user", kind |-> k] \in Chunk
  BY DEF Chunk, Kinds
<1>2. \A c \in Chunk : <<c>> \in Seq(Chunk) /\ DOMAIN <<c>> = {1} /\ <<c>>[1] = c
  OBVIOUS
<1>3. Failure \in Seq(Chunk) /\ WrittenBy(Failure, "error")
  BY <1>1, <1>2 DEF Failure, WrittenBy
<1>4. \A k \in Kinds : User(k) \in Seq(Chunk) /\ WrittenBy(User(k), "user")
  <2> TAKE k \in Kinds
  <2> DEFINE c == [by |-> "user", kind |-> k]
  <2>1. c \in Chunk /\ c.by = "user" /\ User(k) = <<c>>
    BY <1>1 DEF User
  <2> HIDE DEF c
  <2> QED
    BY <1>2, <2>1 DEF WrittenBy
<1> QED
  BY <1>1, <1>3, <1>4 DEF Script

-----------------------------------------------------------------------------
(* What the calls do to a response.                                        *)

\* The status and the headers are taken, unless they have been.
Headed(r, code, h) ==
  LET kept == code = 103 \/ r.status # 0
  IN  /\ h \in Answer
      /\ h.type = r.type /\ h.body = r.body /\ h.sent = r.sent
      /\ h.seen = r.seen /\ h.seenType = r.seenType
      /\ kept => h.status = r.status /\ h.head = r.head
      /\ ~kept => h.status = code /\ h.head = r.type

LEMMA NetHeaderEffect ==
  ASSUME NEW r \in Answer, NEW code \in Nat
  PROVE  Headed(r, code, NetHeader(r, code))
BY DEF NetHeader, Answer, Headed

\* Bytes are added, and with the first of them the status.
Written(r, b, w) ==
  /\ w \in Answer
  /\ w.type = r.type /\ w.body = r.body \o b /\ w.sent = r.sent
  /\ w.seen = r.seen /\ w.seenType = r.seenType
  /\ r.status # 0 => w.status = r.status /\ w.head = r.head
  /\ r.status = 0 => w.status = 200 /\ w.head = r.type

LEMMA NetWriteEffect ==
  ASSUME NEW r \in Answer, NEW b \in Seq(Chunk)
  PROVE  Written(r, b, NetWrite(r, b))
<1> DEFINE h == NetHeader(r, 200)
           body == h.body \o b
<1>1. Headed(r, 200, h)
  BY NetHeaderEffect
<1>2. NetWrite(r, b) = [h EXCEPT !.body = body]
  BY DEF NetWrite
<1> HIDE DEF h
<1>3. body \in Seq(Chunk) /\ body = r.body \o b
  BY <1>1 DEF Answer, Headed
<1> HIDE DEF body
<1>4. LET w == [h EXCEPT !.body = body]
      IN  /\ w \in Answer /\ w.type = h.type /\ w.body = body /\ w.seen = h.seen
          /\ w.seenType = h.seenType /\ w.sent = h.sent /\ w.status = h.status /\ w.head = h.head
  BY <1>1, <1>3 DEF Answer, Headed
<1> QED
  BY <1>1, <1>2, <1>3, <1>4 DEF Headed, Written

\* The bytes so far are sent.  With the first of them, or with none, goes their
\* type: from the headers, or guessed from the bytes there are.
Flushed(r, f) ==
  /\ f \in Answer
  /\ f.type = r.type /\ f.body = r.body /\ f.seen = r.body /\ f.sent
  /\ r.status # 0 => f.status = r.status /\ f.head = r.head
  /\ r.status = 0 => f.status = 200 /\ f.head = r.type
  /\ r.sent => f.seenType = r.seenType
  /\ ~r.sent =>
       f.seenType = IF f.head # "none" THEN f.head
                    ELSE IF r.body # <<>> THEN LooksLike(r.body) ELSE "none"

LEMMA NetFlushEffect ==
  ASSUME NEW r \in Answer
  PROVE  Flushed(r, NetFlush(r))
<1> DEFINE h == NetHeader(r, 200)
           type == IF h.head # "none" THEN h.head
                   ELSE IF h.body # <<>> THEN LooksLike(h.body) ELSE "none"
           t    == IF r.sent THEN h.seenType ELSE type
<1>1. Headed(r, 200, h)
  BY NetHeaderEffect
<1>2. NetFlush(r) = [h EXCEPT !.sent = TRUE, !.seen = h.body, !.seenType = t]
  BY DEF NetFlush
<1> HIDE DEF h
<1>3. t \in Types
  BY <1>1, LooksLikeType DEF Answer, Types, Headed
<1>4. /\ r.sent => t = r.seenType
      /\ ~r.sent => t = IF h.head # "none" THEN h.head
                        ELSE IF r.body # <<>> THEN LooksLike(r.body) ELSE "none"
  BY <1>1 DEF Headed
<1> HIDE DEF t
<1>5. h.body \in Seq(Chunk)
  BY <1>1 DEF Answer, Headed
<1> DEFINE body == h.body
<1> HIDE DEF body
<1>6. LET f == [h EXCEPT !.sent = TRUE, !.seen = body, !.seenType = t]
      IN  /\ f \in Answer /\ f.type = h.type /\ f.body = h.body /\ f.seen = body /\ f.sent
          /\ f.seenType = t /\ f.status = h.status /\ f.head = h.head
  BY <1>1, <1>3, <1>5 DEF Answer, Headed, body
<1> QED
  BY <1>1, <1>2, <1>4, <1>6 DEF Headed, Flushed, body

Retypes(r, t, type) ==
  /\ t \in Answer /\ t.type = type
  /\ t.status = r.status /\ t.head = r.head
  /\ t.body = r.body /\ t.sent = r.sent /\ t.seen = r.seen /\ t.seenType = r.seenType

LEMMA Retyped ==
  ASSUME NEW r \in Answer, NEW type \in Types
  PROVE  Retypes(r, [r EXCEPT !.type = type], type)
BY DEF Answer, Retypes

LEMMA Whole ==
  ASSUME NEW gw \in Flags, NEW iw \in Holding, NEW net \in Answer, NEW plain \in Answer,
         NEW odd \in SUBSET Calls
  PROVE  [gw |-> gw, iw |-> iw, net |-> net, plain |-> plain, odd |-> odd] \in Response
BY DEF Response

LEMMA Parts ==
  ASSUME NEW s \in Response
  PROVE  /\ s.plain \in Answer /\ s.net \in Answer /\ s.odd \in SUBSET Calls /\ s.gw \in Flags
         /\ s.iw \in Holding
         /\ s.gw.committed \in BOOLEAN /\ s.gw.body \in BOOLEAN
         /\ s.iw.decided \in BOOLEAN /\ s.iw.html \in BOOLEAN /\ s.iw.status \in Nat
         /\ s.iw.buf \in Seq(Chunk)
         /\ s = [gw |-> s.gw, iw |-> s.iw, net |-> s.net, plain |-> s.plain, odd |-> s.odd]
BY DEF Response, Flags, Holding

\* t is s after SetHeader(type).
TypeSet(s, type, t) ==
  /\ t \in Response /\ t.gw = s.gw /\ t.iw = s.iw
  /\ Retypes(s.net, t.net, type) /\ Retypes(s.plain, t.plain, type)
  /\ t.odd = IF s.plain.status # 0 THEN s.odd \cup {"lateType"} ELSE s.odd

LEMMA SetHeaderEffect ==
  ASSUME NEW s \in Response, NEW type \in Types
  PROVE  TypeSet(s, type, SetHeader(s, type))
<1> DEFINE net   == [s.net EXCEPT !.type = type]
           plain == [s.plain EXCEPT !.type = type]
           odd   == IF s.plain.status # 0 THEN s.odd \cup {"lateType"} ELSE s.odd
<1>1. SetHeader(s, type) = [gw |-> s.gw, iw |-> s.iw, net |-> net, plain |-> plain, odd |-> odd]
  BY DEF SetHeader, Odd, Response
<1>2. Retypes(s.net, net, type) /\ Retypes(s.plain, plain, type)
  BY Parts, Retyped
<1>3. net \in Answer /\ plain \in Answer /\ odd \in SUBSET Calls
  BY <1>2, Parts DEF Calls, Retypes
<1> HIDE DEF net, plain, odd
<1> DEFINE t == SetHeader(s, type)
<1>4. t \in Response
  BY <1>1, <1>3, Parts, Whole
<1>5. t.gw = s.gw /\ t.iw = s.iw /\ t.net = net /\ t.plain = plain /\ t.odd = odd
  BY <1>1
<1> HIDE DEF t
<1> QED
  BY <1>2, <1>4, <1>5 DEF odd, t, TypeSet

LEMMA Nets ==
  ASSUME NEW s \in Response, NEW r \in Answer
  PROVE  LET t == [s EXCEPT !.net = r]
         IN  /\ t \in Response /\ t.gw = s.gw /\ t.iw = s.iw /\ t.net = r
             /\ t.plain = s.plain /\ t.odd = s.odd
BY DEF Response

LEMMA InjectHeaderEffect ==
  ASSUME NEW s \in Response, NEW code \in Nat
  PROVE  LET t == InjectHeader(s, code)
         IN  /\ t \in Response /\ t.gw = s.gw /\ t.plain = s.plain /\ t.odd = s.odd
             /\ t.iw.decided /\ t.iw.status = code /\ t.iw.buf = s.iw.buf
             /\ t.iw.html <=> IF s.iw.decided THEN s.iw.html ELSE s.net.type = "html"
             /\ t.net = IF t.iw.html THEN s.net ELSE NetHeader(s.net, code)
<1> DEFINE html == IF s.iw.decided THEN s.iw.html ELSE s.net.type = "html"
           iw   == [decided |-> TRUE, html |-> html, status |-> code, buf |-> s.iw.buf]
           net  == IF html THEN s.net ELSE NetHeader(s.net, code)
           t    == InjectHeader(s, code)
<1>0. html \in BOOLEAN /\ net \in Answer
  BY Parts, NetHeaderEffect DEF Headed
<1>1. iw \in Holding /\ iw.decided /\ iw.status = code /\ iw.buf = s.iw.buf /\ (iw.html <=> html)
  <2> HIDE DEF html
  <2> QED
    BY <1>0, Parts DEF Holding
<1>2. Decide([s EXCEPT !.iw.status = code]) =
        [gw |-> s.gw, iw |-> iw, net |-> s.net, plain |-> s.plain, odd |-> s.odd]
  BY DEF Decide, Response, Holding
<1>3. t = [gw |-> s.gw, iw |-> iw, net |-> net, plain |-> s.plain, odd |-> s.odd]
  <2> HIDE DEF iw
  <2> QED
    BY <1>1, <1>2 DEF InjectHeader
<1> HIDE DEF iw, net, t
<1>4. t \in Response /\ t.gw = s.gw /\ t.plain = s.plain /\ t.odd = s.odd /\ t.iw = iw /\ t.net = net
  BY <1>0, <1>1, <1>3, Parts, Whole
<1> QED
  BY <1>0, <1>1, <1>4 DEF net, t

\* What the status says that the wrappers take differently.
News(s, code) ==
  (IF code = 103 THEN {"earlyHints"} ELSE {})
  \cup (IF ~page /\ s.plain.status # 0 THEN {"secondStatus"} ELSE {})
  \cup (IF ~s.iw.decided /\ s.net.type = "none" THEN {"untypedStatus"} ELSE {})

\* t is s after WriteHeader(code), which a committed page does not pass on.
HeaderWritten(s, code, t) ==
  LET skipped == page /\ s.gw.committed
  IN  /\ t \in Response /\ t.plain = NetHeader(s.plain, code)
      /\ t.gw.body = s.gw.body /\ (t.gw.committed <=> s.gw.committed \/ page)
      /\ t.odd = s.odd \cup News(s, code)
      /\ skipped => t.iw = s.iw /\ t.net = s.net
      /\ ~skipped /\ ~dev => t.iw = s.iw /\ t.net = NetHeader(s.net, code)
      /\ ~skipped /\ dev =>
           /\ t.iw.decided /\ t.iw.status = code /\ t.iw.buf = s.iw.buf
           /\ t.iw.html <=> IF s.iw.decided THEN s.iw.html ELSE s.net.type = "html"
           /\ t.net = IF t.iw.html THEN s.net ELSE NetHeader(s.net, code)

LEMMA WriteHeaderEffect ==
  ASSUME page \in BOOLEAN, NEW s \in Response, NEW code \in Nat
  PROVE  HeaderWritten(s, code, WriteHeader(s, code))
<1> DEFINE below == IF page /\ s.gw.committed THEN s
                    ELSE IF dev THEN InjectHeader(s, code)
                    ELSE [s EXCEPT !.net = NetHeader(@, code)]
           odd   == s.odd \cup News(s, code)
           committed == s.gw.committed \/ page
           gw    == [committed |-> committed, body |-> s.gw.body]
           plain == NetHeader(s.plain, code)
           t     == WriteHeader(s, code)
<1>1. /\ below \in Response /\ below.gw = s.gw /\ below.plain = s.plain /\ below.odd = s.odd
      /\ page /\ s.gw.committed => below.iw = s.iw /\ below.net = s.net
      /\ ~(page /\ s.gw.committed) /\ ~dev =>
           below.iw = s.iw /\ below.net = NetHeader(s.net, code)
      /\ ~(page /\ s.gw.committed) /\ dev =>
           /\ below.iw.decided /\ below.iw.status = code /\ below.iw.buf = s.iw.buf
           /\ below.iw.html <=> IF s.iw.decided THEN s.iw.html ELSE s.net.type = "html"
           /\ below.net = IF below.iw.html THEN s.net ELSE NetHeader(s.net, code)
  <2>1. CASE page /\ s.gw.committed
    BY <2>1
  <2>2. CASE ~(page /\ s.gw.committed) /\ dev
    BY <2>2, InjectHeaderEffect
  <2>3. CASE ~(page /\ s.gw.committed) /\ ~dev
    BY <2>3, Parts, NetHeaderEffect, Nets DEF Headed
  <2> QED
    BY <2>1, <2>2, <2>3
<1> HIDE DEF below
<1>2. t = [gw |-> gw, iw |-> below.iw, net |-> below.net, plain |-> plain, odd |-> odd]
  <2>1. t = [below EXCEPT !.plain = NetHeader(@, code), !.odd = @ \cup News(s, code),
                          !.gw.committed = @ \/ page]
    BY DEF WriteHeader, News, below
  <2>2. t = [below EXCEPT !.plain = plain, !.odd = odd, !.gw.committed = committed]
    BY <1>1, <2>1
  <2> HIDE DEF committed, plain, odd, t
  <2> QED
    BY <1>1, <2>2 DEF Response, Flags
<1>3. gw \in Flags /\ (gw.committed <=> s.gw.committed \/ page) /\ gw.body = s.gw.body
  BY Parts DEF Flags
<1>4. odd \in SUBSET Calls /\ plain \in Answer
  <2>1. News(s, code) \subseteq Calls
    BY DEF Calls, News
  <2> QED
    BY <2>1, Parts, NetHeaderEffect DEF Headed
<1> HIDE DEF gw, odd, plain, t
<1>5. /\ t \in Response /\ t.gw = gw /\ t.plain = plain /\ t.odd = odd
      /\ t.iw = below.iw /\ t.net = below.net
  <2>1. below.iw \in Holding /\ below.net \in Answer
    BY <1>1, Parts
  <2> QED
    BY <1>2, <1>3, <1>4, <2>1, Whole
<1> QED
  <2>1. t.odd = s.odd \cup News(s, code)
    BY <1>5 DEF odd
  <2> QED
    BY <1>1, <1>3, <1>5, <2>1 DEF t, plain, HeaderWritten

\* The headers that injectWriter leaves below it at a write of these bytes.
Sniffed(s, b) ==
  IF s.iw.decided \/ s.net.type # "none" THEN s.net ELSE [s.net EXCEPT !.type = LooksLike(b)]

LEMMA InjectWriteEffect ==
  ASSUME NEW s \in Response, NEW b \in Seq(Chunk)
  PROVE  LET t       == InjectWrite(s, b)
             guessed == Sniffed(s, b)
         IN  /\ t \in Response /\ t.gw = s.gw /\ t.plain = s.plain /\ t.odd = s.odd
             /\ t.iw.decided /\ t.iw.status = s.iw.status
             /\ t.iw.html <=> IF s.iw.decided THEN s.iw.html ELSE guessed.type = "html"
             /\ t.iw.buf = IF t.iw.html THEN s.iw.buf \o b ELSE s.iw.buf
             /\ t.net = IF t.iw.html THEN guessed ELSE NetWrite(guessed, b)
<1> DEFINE guessed == Sniffed(s, b)
           html == IF s.iw.decided THEN s.iw.html ELSE guessed.type = "html"
           buf  == IF html THEN s.iw.buf \o b ELSE s.iw.buf
           iw0  == [decided |-> TRUE, html |-> html, status |-> s.iw.status, buf |-> s.iw.buf]
           iw   == [decided |-> TRUE, html |-> html, status |-> s.iw.status, buf |-> buf]
           net  == IF html THEN guessed ELSE NetWrite(guessed, b)
           e    == IF s.iw.decided \/ s.net.type # "none" THEN s
                   ELSE [s EXCEPT !.net.type = LooksLike(b)]
           t    == InjectWrite(s, b)
<1>0. guessed \in Answer
  BY Parts, Retyped, LooksLikeType DEF Types, Retypes, Sniffed
<1>1. e = [gw |-> s.gw, iw |-> s.iw, net |-> guessed, plain |-> s.plain, odd |-> s.odd]
  <2>1. CASE s.iw.decided \/ s.net.type # "none"
    BY <2>1, Parts DEF Sniffed
  <2>2. CASE ~(s.iw.decided \/ s.net.type # "none")
    <3>1. e = [s EXCEPT !.net.type = LooksLike(b)]
      BY <2>2
    <3>2. guessed = [s.net EXCEPT !.type = LooksLike(b)]
      BY <2>2 DEF Sniffed
    <3> HIDE DEF e, guessed
    <3> QED
      BY <3>1, <3>2 DEF Response
  <2> QED
    BY <2>1, <2>2
<1> HIDE DEF guessed
<1>2. html \in BOOLEAN /\ buf \in Seq(Chunk)
  <2>1. html \in BOOLEAN
    BY Parts
  <2>2. s.iw.buf \in Seq(Chunk) /\ s.iw.buf \o b \in Seq(Chunk)
    BY Parts
  <2> HIDE DEF html
  <2> QED
    BY <2>1, <2>2
<1>3. Decide(e) = [gw |-> s.gw, iw |-> iw0, net |-> guessed, plain |-> s.plain, odd |-> s.odd]
  <2> HIDE DEF e
  <2> QED
    BY <1>1 DEF Decide, Response, Holding
<1>4. t = [gw |-> s.gw, iw |-> iw, net |-> net, plain |-> s.plain, odd |-> s.odd]
  <2>1. t = LET d == Decide(e)
            IN  IF d.iw.html THEN [d EXCEPT !.iw.buf = @ \o b]
                ELSE [d EXCEPT !.net = NetWrite(@, b)]
    BY DEF InjectWrite
  <2> DEFINE d == Decide(e)
  <2> HIDE DEF html, e, t, d
  <2>2. d = [gw |-> s.gw, iw |-> iw0, net |-> guessed, plain |-> s.plain, odd |-> s.odd]
    BY <1>3 DEF d
  <2>3. t = IF d.iw.html THEN [d EXCEPT !.iw.buf = d.iw.buf \o b]
            ELSE [d EXCEPT !.net = NetWrite(d.net, b)]
    BY <2>1 DEF d
  <2>4. CASE html
    BY <2>2, <2>3, <2>4
  <2>5. CASE ~html
    BY <2>2, <2>3, <2>5
  <2> QED
    BY <2>4, <2>5
<1>5. net \in Answer
  BY <1>0, NetWriteEffect DEF Written
<1>6. iw \in Holding /\ iw.decided /\ iw.status = s.iw.status /\ (iw.html <=> html) /\ iw.buf = buf
  <2> HIDE DEF html, buf
  <2> QED
    BY <1>2, Parts DEF Holding
<1> HIDE DEF iw, net, t
<1>7. t \in Response /\ t.gw = s.gw /\ t.plain = s.plain /\ t.odd = s.odd /\ t.iw = iw /\ t.net = net
  BY <1>4, <1>5, <1>6, Parts, Whole
<1> QED
  BY <1>2, <1>6, <1>7 DEF net, t, guessed

\* t is s after a write of these bytes.
BytesWritten(s, b, t) ==
  LET guessed == Sniffed(s, b)
  IN  /\ t \in Response /\ t.plain = NetWrite(s.plain, b)
      /\ t.gw.body <=> s.gw.body \/ page
      /\ t.gw.committed <=> s.gw.committed \/ page
      /\ t.odd = IF s.plain.body = <<>> /\ LooksLike(b) # "html" THEN s.odd \cup {"firstWrite"}
                 ELSE s.odd
      /\ ~dev => t.iw = s.iw /\ t.net = NetWrite(s.net, b)
      /\ dev =>
           /\ t.iw.decided /\ t.iw.status = s.iw.status
           /\ t.iw.html <=> IF s.iw.decided THEN s.iw.html ELSE guessed.type = "html"
           /\ t.iw.buf = IF t.iw.html THEN s.iw.buf \o b ELSE s.iw.buf
           /\ t.net = IF t.iw.html THEN guessed ELSE NetWrite(guessed, b)

LEMMA WriteEffect ==
  ASSUME page \in BOOLEAN, NEW s \in Response, NEW b \in Seq(Chunk)
  PROVE  BytesWritten(s, b, Write(s, b))
<1> DEFINE odd   == IF s.plain.body = <<>> /\ LooksLike(b) # "html" THEN s.odd \cup {"firstWrite"}
                    ELSE s.odd
           noted == WriteOdd(s, b)
           below == Below(noted, b)
           gw    == [committed |-> (s.gw.committed \/ page), body |-> (s.gw.body \/ page)]
           plain == NetWrite(s.plain, b)
           t     == Write(s, b)
<1>1. odd \in SUBSET Calls /\ plain \in Answer
  BY Parts, NetWriteEffect DEF Calls, Written
<1>2. noted = [gw |-> s.gw, iw |-> s.iw, net |-> s.net, plain |-> s.plain, odd |-> odd]
  BY DEF WriteOdd, Odd, Response
<1> HIDE DEF odd, noted
<1>3. noted \in Response
  BY <1>1, <1>2, Parts, Whole
<1>4. noted.gw = s.gw /\ noted.iw = s.iw /\ noted.net = s.net /\ noted.plain = s.plain /\ noted.odd = odd
  BY <1>2
<1>5. /\ below \in Response /\ below.gw = s.gw /\ below.plain = s.plain /\ below.odd = odd
      /\ ~dev => below.iw = s.iw /\ below.net = NetWrite(s.net, b)
      /\ dev => LET guessed == Sniffed(s, b)
                IN  /\ below.iw.decided /\ below.iw.status = s.iw.status
                    /\ below.iw.html <=> IF s.iw.decided THEN s.iw.html ELSE guessed.type = "html"
                    /\ below.iw.buf = IF below.iw.html THEN s.iw.buf \o b ELSE s.iw.buf
                    /\ below.net = IF below.iw.html THEN guessed ELSE NetWrite(guessed, b)
  <2>1. CASE dev
    BY <1>3, <1>4, <2>1, InjectWriteEffect, SMTT(30) DEF Below, Sniffed
  <2>2. CASE ~dev
    <3>1. NetWrite(s.net, b) \in Answer
      BY Parts, NetWriteEffect DEF Written
    <3> QED
      BY <1>3, <1>4, <2>2, <3>1, Nets DEF Below
  <2> QED
    BY <2>1, <2>2
<1> HIDE DEF below
<1>6. t = [gw |-> gw, iw |-> below.iw, net |-> below.net, plain |-> plain, odd |-> odd]
  <2>1. t = [below EXCEPT !.plain = NetWrite(@, b),
                          !.gw = [committed |-> @.committed \/ page, body |-> @.body \/ page]]
    BY DEF Write, below, noted
  <2> QED
    BY <1>5, <2>1 DEF Response
<1>7. /\ gw \in Flags
      /\ (gw.committed <=> s.gw.committed \/ page) /\ (gw.body <=> s.gw.body \/ page)
  BY Parts DEF Flags
<1> HIDE DEF gw, plain, t
<1>8. /\ t \in Response /\ t.gw = gw /\ t.plain = plain /\ t.odd = odd
      /\ t.iw = below.iw /\ t.net = below.net
  <2>1. below.iw \in Holding /\ below.net \in Answer
    BY <1>5, Parts
  <2> QED
    BY <1>1, <1>6, <1>7, <2>1, Whole
<1> QED
  BY <1>5, <1>7, <1>8 DEF t, plain, odd, BytesWritten

\* What a flush adds to the calls that are taken differently.
FlushNotes(s) ==
  s.odd \cup (IF dev /\ (page \/ s.iw.html) THEN {"flush"} ELSE {})
        \cup (IF dev /\ Untyped(s.plain) THEN {"untypedFlush"} ELSE {})

\* t is s after a flush, which a page in development mode does not pass on.
SentSoFar(s, t) ==
  /\ t \in Response /\ t.iw = s.iw /\ t.plain = NetFlush(s.plain)
  /\ t.net = IF Flushes THEN NetFlush(s.net) ELSE s.net
  /\ t.gw.body = s.gw.body /\ (t.gw.committed <=> s.gw.committed \/ (page /\ Flushes))
  /\ t.odd = FlushNotes(s)

LEMMA FlushEffect ==
  ASSUME page \in BOOLEAN, NEW s \in Response
  PROVE  SentSoFar(s, Flush(s))
<1> DEFINE odd   == FlushNotes(s)
           committed == s.gw.committed \/ (page /\ Flushes)
           gw    == [committed |-> committed, body |-> s.gw.body]
           net   == IF Flushes THEN NetFlush(s.net) ELSE s.net
           plain == NetFlush(s.plain)
           t     == Flush(s)
<1>1. odd \in SUBSET Calls /\ plain \in Answer /\ net \in Answer
  BY Parts, NetFlushEffect DEF Calls, Flushed, FlushNotes
<1>2. t = [gw |-> gw, iw |-> s.iw, net |-> net, plain |-> plain, odd |-> odd]
  <2> DEFINE held  == Odd(s, "flush", dev /\ (page \/ s.iw.html))
             noted == Odd(held, "untypedFlush", dev /\ Untyped(s.plain))
  <2>0. held = [gw |-> s.gw, iw |-> s.iw, net |-> s.net, plain |-> s.plain,
                odd |-> s.odd \cup (IF dev /\ (page \/ s.iw.html) THEN {"flush"} ELSE {})]
    BY DEF Odd, Response
  <2> HIDE DEF held
  <2>1. noted = [gw |-> s.gw, iw |-> s.iw, net |-> s.net, plain |-> s.plain, odd |-> odd]
    BY <2>0 DEF Odd, FlushNotes
  <2>2. t = [noted EXCEPT !.plain = NetFlush(@), !.net = IF Flushes THEN NetFlush(@) ELSE @,
                          !.gw.committed = @ \/ (page /\ Flushes)]
    BY DEF Flush, held
  <2> HIDE DEF noted, t, odd
  <2>3. t = [noted EXCEPT !.plain = plain, !.net = net, !.gw.committed = committed]
    BY <2>1, <2>2
  <2> HIDE DEF plain, net, committed
  <2>4. [s.gw EXCEPT !.committed = committed] = gw
    BY DEF Response, Flags
  <2> HIDE DEF gw
  <2> QED
    BY <2>1, <2>3, <2>4
<1>3. gw \in Flags /\ (gw.committed <=> s.gw.committed \/ (page /\ Flushes)) /\ gw.body = s.gw.body
  BY Parts DEF Flags, Flushes
<1> HIDE DEF gw, net, plain, odd, t
<1>4. t \in Response /\ t.gw = gw /\ t.plain = plain /\ t.odd = odd /\ t.iw = s.iw /\ t.net = net
  BY <1>1, <1>2, <1>3, Parts, Whole
<1> QED
  BY <1>3, <1>4 DEF net, plain, odd, t, SentSoFar

LEMMA InjectFlushEffect ==
  ASSUME NEW s \in Response, Script \in Chunk
  PROVE  LET t      == InjectFlush(s)
             headed == IF s.iw.status = 0 THEN s.net ELSE NetHeader(s.net, s.iw.status)
         IN  /\ t \in Response /\ t.plain = s.plain /\ t.odd = s.odd /\ t.gw = s.gw /\ t.iw = s.iw
             /\ t.net = IF s.iw.html THEN NetWrite(headed, Append(s.iw.buf, Script)) ELSE s.net
<1> DEFINE headed == IF s.iw.status = 0 THEN s.net ELSE NetHeader(s.net, s.iw.status)
           bytes  == Append(s.iw.buf, Script)
           net    == NetWrite(headed, bytes)
<1>1. InjectFlush(s) = IF ~s.iw.html THEN s ELSE [s EXCEPT !.net = net]
  BY DEF InjectFlush, Response
<1>2. headed \in Answer /\ bytes \in Seq(Chunk)
  BY Parts, NetHeaderEffect DEF Headed
<1> HIDE DEF headed, bytes
<1>3. net \in Answer
  BY <1>2, NetWriteEffect DEF Written
<1> HIDE DEF net
<1> QED
  BY <1>1, <1>3, Nets DEF net, headed, bytes

-----------------------------------------------------------------------------
(* What relates the response to the plain one, and that the calls keep it. *)

\* None of these calls has been made.
Without(s, names) == \A w \in names : w \notin s.odd

\* Nothing is there before a status is, and what has been sent has the type of
\* its headers.
Quiet(r) ==
  /\ r.status = 0 => r.head = "none" /\ r.body = <<>> /\ ~r.sent
  /\ r.head = "none" /\ r.body = <<>> => r.seenType = "none"
  /\ r.sent /\ r.head # "none" => r.seenType = r.head

\* What injectWriter holds is what the frontmatter wrote, and what it does not hold
\* has been passed on.
Bodies(s) ==
  /\ s.iw.decided => dev
  /\ s.iw.html => s.iw.decided
  /\ dev /\ ~s.iw.decided => s.plain.body = <<>>
  /\ ~s.iw.html => s.iw.buf = <<>> /\ s.net.body = s.plain.body
  /\ s.iw.html => s.iw.buf = s.plain.body /\ s.net.body = <<>>
  /\ s.iw.html => s.net.type # "none"
  /\ ~s.iw.html /\ ~(page /\ dev) => s.net.seen = s.plain.seen
  /\ ~(page /\ dev) => s.net.sent = s.plain.sent

\* Where net/http has no status the wrappers have decided nothing.
Untouched(s) ==
  s.plain.status = 0 =>
    /\ s.net.status = 0
    /\ "earlyHints" \notin s.odd =>
         ~s.gw.committed /\ ~s.gw.body /\ ~s.iw.decided /\ s.iw.status = 0

\* The status that the client will get.
Due(s) ==
  IF s.net.status # 0 THEN s.net.status ELSE IF s.iw.status # 0 THEN s.iw.status ELSE 200

\* It is the one net/http would send, until a call breaks it.
Statuses(s) ==
  /\ s.iw.status = 103 => "earlyHints" \in s.odd
  /\ s.plain.status # 0 /\ Without(s, {"earlyHints", "secondStatus", "flush"}) =>
       /\ page => s.gw.committed
       /\ s.net.status = 0 => s.iw.html
       /\ s.plain.status = Due(s)

LooksHtml(s) == LooksLike(s.plain.body) = "html"

\* A type that was guessed is HTML.
Sniffs(r) == r.sent /\ r.head = "none" => r.seenType = "html"

\* The type that injectWriter wrote where the handler had set none.
Guessed(s, type) == dev /\ s.plain.type = "none" /\ type = "html" /\ LooksHtml(s)

\* The headers that went below without a type are those of a body passed on.
Headless(s) == s.net.status # 0 /\ s.net.head = "none" => s.iw.decided /\ ~s.iw.html

\* The calls after which the types may differ.
Retyping == {"lateType", "firstWrite", "untypedFlush"}

\* The types of the two responses agree, or one of them is the guess of the other.
Typed(s) ==
  Without(s, Retyping) =>
    /\ s.plain.body = <<>> \/ LooksHtml(s)
    /\ s.plain.status # 0 => s.plain.head = s.plain.type
    /\ \/ s.net.type = s.plain.type
       \/ Guessed(s, s.net.type) /\ s.plain.status # 0 /\ s.iw.html
    /\ s.net.status # 0 => s.net.head = s.plain.type \/ Guessed(s, s.net.head)
    /\ s.iw.html => s.plain.type # "none" \/ LooksHtml(s)
    /\ dev => Sniffs(s.net) /\ Sniffs(s.plain) /\ Headless(s)
    /\ ~dev => s.net.seenType = s.plain.seenType

\* HTML is held back, and nothing else is.
Held(s) ==
  Without(s, {"untypedStatus", "firstWrite", "lateType", "earlyHints"}) =>
    /\ s.iw.html => s.net.type = "html"
    /\ s.iw.decided /\ ~s.iw.html => s.net.type \in {"text", "stream"}

\* What relates a response to what net/http would have made of the same calls.
Facts(s) ==
  /\ s \in Response
  /\ Quiet(s.net) /\ Quiet(s.plain)
  /\ Bodies(s) /\ Untouched(s) /\ Statuses(s) /\ Typed(s) /\ Held(s)

LEMMA SetHeaderFacts ==
  ASSUME NEW s, Facts(s), NEW type \in {"html", "text", "stream"}
  PROVE  Facts(SetHeader(s, type))
<1> DEFINE t == SetHeader(s, type)
<1>0. s \in Response /\ type \in Types
  BY DEF Facts, Types
<1>1. TypeSet(s, type, t)
  BY <1>0, SetHeaderEffect
<1>10. /\ \A w \in s.odd : w \in t.odd
       /\ "lateType" \in t.odd <=> "lateType" \in s.odd \/ s.plain.status # 0
       /\ \A w \in Calls \ {"lateType"} : w \in t.odd <=> w \in s.odd
  BY <1>1 DEF TypeSet
<1> HIDE DEF t
<1>2. /\ t.net.type = type /\ t.net.status = s.net.status /\ t.net.head = s.net.head
      /\ t.net.body = s.net.body /\ t.net.seen = s.net.seen /\ t.net.seenType = s.net.seenType
      /\ t.net.sent = s.net.sent
  BY <1>1 DEF Retypes, TypeSet
<1>3. /\ t.plain.type = type /\ t.plain.status = s.plain.status /\ t.plain.head = s.plain.head
      /\ t.plain.body = s.plain.body /\ t.plain.seen = s.plain.seen
      /\ t.plain.seenType = s.plain.seenType /\ t.plain.sent = s.plain.sent
  BY <1>1 DEF Retypes, TypeSet
<1>4. Quiet(t.net) /\ Quiet(t.plain)
  BY <1>2, <1>3 DEF Facts, Quiet
<1>5. Bodies(t)
  BY <1>1, <1>2, <1>3 DEF Facts, Bodies, TypeSet
<1>6. Untouched(t)
  BY <1>1, <1>2, <1>3 DEF Facts, Untouched, TypeSet
<1>7. Statuses(t)
  BY <1>1, <1>2, <1>3, <1>10 DEF Facts, Without, Statuses, Due, Calls, TypeSet
<1>8. Typed(t)
  <2> SUFFICES ASSUME Without(t, Retyping) PROVE Typed(t)
    BY DEF Typed
  <2>1. Without(s, Retyping) /\ s.plain.status = 0
    BY <1>10 DEF Without, Retyping
  <2> QED
    BY <1>1, <1>2, <1>3, <2>1
       DEF Facts, Typed, Sniffs, Headless, Guessed, LooksHtml, Quiet, Bodies, Untouched, TypeSet
<1>9. Held(t)
  <2> DEFINE broken == {"untypedStatus", "firstWrite", "lateType", "earlyHints"}
  <2> SUFFICES ASSUME Without(t, broken) PROVE Held(t)
    BY DEF Held
  <2>1. Without(s, broken) /\ s.plain.status = 0
    BY <1>10 DEF Without
  <2> QED
    BY <1>1, <1>2, <2>1 DEF Facts, Held, Untouched, Bodies, Without, TypeSet
<1> QED
  BY <1>1, <1>4, <1>5, <1>6, <1>7, <1>8, <1>9 DEF Facts, t, TypeSet

LEMMA WriteHeaderFacts ==
  ASSUME page \in BOOLEAN, NEW s, Facts(s), NEW code \in Nat \ {0}
  PROVE  Facts(WriteHeader(s, code))
<1> DEFINE t       == WriteHeader(s, code)
           skipped == page /\ s.gw.committed
<1>0. s \in Response /\ code \in Nat
  BY DEF Facts
<1>1. HeaderWritten(s, code, t)
  BY <1>0, WriteHeaderEffect
<1>2. /\ "lateType" \in t.odd <=> "lateType" \in s.odd
      /\ "firstWrite" \in t.odd <=> "firstWrite" \in s.odd
      /\ "flush" \in t.odd <=> "flush" \in s.odd
      /\ "untypedFlush" \in t.odd <=> "untypedFlush" \in s.odd
      /\ "earlyHints" \in t.odd <=> "earlyHints" \in s.odd \/ code = 103
      /\ "secondStatus" \in t.odd <=> "secondStatus" \in s.odd \/ (~page /\ s.plain.status # 0)
      /\ "untypedStatus" \in t.odd <=>
           "untypedStatus" \in s.odd \/ (~s.iw.decided /\ s.net.type = "none")
  BY <1>1 DEF HeaderWritten, News
<1> HIDE DEF t
<1>3. Headed(s.plain, code, NetHeader(s.plain, code)) /\ Headed(s.net, code, NetHeader(s.net, code))
  BY <1>0, Parts, NetHeaderEffect
<1>5. /\ t.net = s.net \/ t.net = NetHeader(s.net, code)
      /\ t.iw.buf = s.iw.buf
      /\ s.iw.decided => t.iw.html = s.iw.html
      /\ ~s.iw.decided => (t.iw.html => s.net.type = "html" \/ s.iw.html)
      /\ s.iw.decided => t.iw.decided
      /\ t.iw.decided => s.iw.decided \/ dev
  BY <1>1, <1>0, Parts DEF HeaderWritten
<1>6. /\ t.net.type = s.net.type /\ t.net.body = s.net.body /\ t.net.seen = s.net.seen
      /\ t.net.seenType = s.net.seenType /\ t.net.sent = s.net.sent
      /\ t.plain.type = s.plain.type /\ t.plain.body = s.plain.body /\ t.plain.seen = s.plain.seen
      /\ t.plain.seenType = s.plain.seenType /\ t.plain.sent = s.plain.sent
  BY <1>1, <1>3, <1>5 DEF HeaderWritten, Headed
<1>7. /\ s.net.status # 0 => t.net.status = s.net.status /\ t.net.head = s.net.head
      /\ s.net.status = 0 =>
           \/ t.net.status = 0 /\ t.net.head = s.net.head
           \/ t.net.status = code /\ t.net.head = s.net.type /\ code # 103
      /\ s.plain.status # 0 => t.plain.status = s.plain.status /\ t.plain.head = s.plain.head
      /\ s.plain.status = 0 =>
           \/ t.plain.status = 0 /\ t.plain.head = s.plain.head /\ code = 103
           \/ t.plain.status = code /\ t.plain.head = s.plain.type /\ code # 103
  BY <1>1, <1>3, <1>5 DEF HeaderWritten, Headed
<1>10. Quiet(t.net) /\ Quiet(t.plain)
  BY <1>6, <1>7 DEF Facts, Quiet
<1>11. Bodies(t)
  BY <1>1, <1>5, <1>6 DEF Facts, Bodies, HeaderWritten
<1>12. Untouched(t)
  BY <1>1, <1>2, <1>5, <1>6, <1>7 DEF Facts, Untouched, HeaderWritten
<1>13. Statuses(t)
  <2> DEFINE broken == {"earlyHints", "secondStatus", "flush"}
  <2>1. t.iw.status = 103 => "earlyHints" \in t.odd
    BY <1>1, <1>2 DEF Facts, Statuses, HeaderWritten
  <2> SUFFICES ASSUME Without(t, broken) PROVE Statuses(t)
    BY <2>1 DEF Statuses
  <2>2. Without(s, broken) /\ code # 103 /\ (page \/ s.plain.status = 0)
    BY <1>2 DEF Without
  <2> HIDE DEF skipped
  <2>3. CASE s.plain.status # 0
    <3>1. skipped
      BY <2>2, <2>3 DEF Facts, Statuses, skipped
    <3>2. t.net = s.net /\ t.iw = s.iw /\ t.plain.status = s.plain.status
      BY <1>1, <1>7, <2>3, <3>1 DEF HeaderWritten, skipped
    <3> QED
      BY <1>1, <2>1, <2>2, <2>3, <3>2 DEF Facts, Statuses, Due, HeaderWritten
  <2>4. CASE s.plain.status = 0
    <3>1. ~skipped /\ s.net.status = 0 /\ s.iw.status = 0 /\ t.plain.status = code
      BY <1>7, <2>2, <2>4 DEF Facts, Untouched, Without, skipped
    <3>2. CASE dev
      BY <1>1, <1>3, <2>1, <2>2, <3>1, <3>2 DEF Statuses, Due, HeaderWritten, skipped, Headed
    <3>3. CASE ~dev
      BY <1>1, <1>3, <2>1, <2>2, <3>1, <3>3 DEF Statuses, Due, HeaderWritten, skipped, Headed
    <3> QED
      BY <3>2, <3>3
  <2> QED
    BY <2>3, <2>4
<1>14. Typed(t)
  <2> SUFFICES ASSUME Without(t, Retyping) PROVE Typed(t)
    BY DEF Typed
  <2>1. Without(s, Retyping)
    BY <1>2 DEF Without, Retyping
  <2>2. t.iw.html => s.iw.html \/ s.net.type = "html"
    BY <1>5
  <2>3. LooksHtml(t) = LooksHtml(s)
    BY <1>6 DEF LooksHtml
  <2>4. s.iw.html => t.iw.html
    BY <1>0, <1>5, Parts DEF Facts, Bodies
  <2>5. t.plain.body = <<>> \/ LooksHtml(t)
    BY <1>6, <2>1, <2>3 DEF Facts, Typed
  <2>6. t.plain.status # 0 => t.plain.head = t.plain.type
    BY <1>6, <1>7, <2>1 DEF Facts, Typed
  <2>7. \/ t.net.type = t.plain.type
        \/ Guessed(t, t.net.type) /\ t.plain.status # 0 /\ t.iw.html
    BY <1>6, <1>7, <2>1, <2>3, <2>4 DEF Facts, Typed, Guessed
  <2>8. t.net.status # 0 => t.net.head = t.plain.type \/ Guessed(t, t.net.head)
    BY <1>6, <1>7, <2>1, <2>3 DEF Facts, Typed, Guessed
  <2>9. t.iw.html => t.plain.type # "none" \/ LooksHtml(t)
    BY <1>6, <2>1, <2>2, <2>3 DEF Facts, Typed, Guessed
  <2>10. dev => Sniffs(t.net) /\ Sniffs(t.plain)
    BY <1>6, <1>7, <2>1 DEF Facts, Typed, Sniffs, Quiet
  <2>11. dev => Headless(t)
    BY <1>1, <1>3, <2>1 DEF Facts, Typed, Headless, HeaderWritten, Bodies
  <2>12. ~dev => t.net.seenType = t.plain.seenType
    BY <1>6, <2>1 DEF Facts, Typed
  <2> QED
    BY <2>5, <2>6, <2>7, <2>8, <2>9, <2>10, <2>11, <2>12 DEF Typed
<1>15. Held(t)
  <2> DEFINE broken == {"untypedStatus", "firstWrite", "lateType", "earlyHints"}
  <2> SUFFICES ASSUME Without(t, broken) PROVE Held(t)
    BY DEF Held
  <2>1. Without(s, broken) /\ (s.iw.decided \/ s.net.type # "none")
    BY <1>2 DEF Without
  <2> QED
    BY <1>1, <1>5, <1>6, <2>1 DEF Facts, Held, Bodies, Response, Answer, Types, HeaderWritten
<1> QED
  BY <1>1, <1>10, <1>11, <1>12, <1>13, <1>14, <1>15 DEF Facts, t, HeaderWritten

LEMMA WriteFacts ==
  ASSUME page \in BOOLEAN, NEW s, Facts(s), NEW b \in Seq(Chunk)
  PROVE  Facts(Write(s, b))
<1> DEFINE t       == Write(s, b)
           guessed == Sniffed(s, b)
<1>0. s \in Response
  BY DEF Facts
<1>1. BytesWritten(s, b, t)
  BY <1>0, WriteEffect
<1>2. /\ "firstWrite" \in t.odd <=>
           "firstWrite" \in s.odd \/ (s.plain.body = <<>> /\ LooksLike(b) # "html")
      /\ \A w \in Calls \ {"firstWrite"} : w \in t.odd <=> w \in s.odd
  BY <1>1 DEF BytesWritten
<1>3. /\ guessed \in Answer
      /\ guessed.status = s.net.status /\ guessed.head = s.net.head /\ guessed.body = s.net.body
      /\ guessed.seen = s.net.seen /\ guessed.seenType = s.net.seenType
      /\ guessed.sent = s.net.sent
      /\ s.iw.decided \/ s.net.type # "none" => guessed.type = s.net.type
      /\ ~(s.iw.decided \/ s.net.type # "none") => guessed.type = LooksLike(b)
  <2>1. LooksLike(b) \in Types
    BY LooksLikeType DEF Types
  <2>2. CASE s.iw.decided \/ s.net.type # "none"
    BY <1>0, <2>2, Parts DEF Sniffed
  <2>3. CASE ~(s.iw.decided \/ s.net.type # "none")
    <3>1. Retypes(s.net, guessed, LooksLike(b))
      BY <1>0, <2>1, <2>3, Parts, Retyped DEF Sniffed
    <3> HIDE DEF guessed
    <3> QED
      BY <2>3, <3>1 DEF Retypes
  <2> QED
    BY <2>2, <2>3
<1> DEFINE base  == IF dev THEN guessed ELSE s.net
<1>4. /\ base \in Answer
      /\ base.status = s.net.status /\ base.head = s.net.head /\ base.body = s.net.body
      /\ base.seen = s.net.seen /\ base.seenType = s.net.seenType /\ base.sent = s.net.sent
      /\ ~dev \/ s.iw.decided \/ s.net.type # "none" => base.type = s.net.type
      /\ dev /\ ~(s.iw.decided \/ s.net.type # "none") => base.type = LooksLike(b)
  BY <1>0, <1>3, Parts
<1>5. /\ t.net = IF dev /\ t.iw.html THEN base ELSE NetWrite(base, b)
      /\ dev => (t.iw.html <=> IF s.iw.decided THEN s.iw.html ELSE base.type = "html")
      /\ s.iw.html => t.iw.html
      /\ t.iw.html => dev
  BY <1>0, <1>1, Parts DEF Facts, Bodies, BytesWritten
<1> HIDE DEF t, guessed, base
<1>6. Written(s.plain, b, NetWrite(s.plain, b))
  BY <1>0, Parts, NetWriteEffect
<1>7. /\ t.plain.type = s.plain.type /\ t.plain.body = s.plain.body \o b
      /\ t.plain.seen = s.plain.seen /\ t.plain.seenType = s.plain.seenType
      /\ t.plain.sent = s.plain.sent
      /\ t.plain.status # 0
      /\ s.plain.status # 0 => t.plain.status = s.plain.status /\ t.plain.head = s.plain.head
      /\ s.plain.status = 0 => t.plain.status = 200 /\ t.plain.head = s.plain.type
  BY <1>1, <1>6 DEF BytesWritten, Written
<1>8. /\ t.net.type = base.type /\ t.net.seen = s.net.seen /\ t.net.seenType = s.net.seenType
      /\ t.net.sent = s.net.sent
      /\ s.net.status # 0 => t.net.status = s.net.status /\ t.net.head = s.net.head
      /\ t.iw.html => t.net.body = s.net.body /\ t.net.status = s.net.status /\ t.net.head = s.net.head
      /\ ~t.iw.html => t.net.body = s.net.body \o b
      /\ ~t.iw.html /\ s.net.status = 0 => t.net.status = 200 /\ t.net.head = base.type
  <2>1. CASE t.iw.html
    BY <1>4, <1>5, <2>1
  <2>2. CASE ~t.iw.html
    <3>1. t.net = NetWrite(base, b)
      BY <1>5, <2>2
    <3>2. Written(base, b, NetWrite(base, b))
      BY <1>4, NetWriteEffect
    <3> QED
      BY <1>4, <2>2, <3>1, <3>2 DEF Written
  <2> QED
    BY <2>1, <2>2
<1>9. /\ t.iw.status = s.iw.status
      /\ t.iw.decided <=> dev
      /\ t.iw.html /\ ~s.iw.decided => base.type = "html"
      /\ s.iw.decided => (t.iw.html <=> s.iw.html)
      /\ t.iw.buf = IF t.iw.html THEN s.iw.buf \o b ELSE s.iw.buf
  BY <1>0, <1>1, <1>5, Parts DEF Facts, Bodies, BytesWritten
<1>10. Quiet(t.net) /\ Quiet(t.plain)
  <2>1. /\ s.plain.body \o b = <<>> => s.plain.body = <<>>
        /\ s.net.body \o b = <<>> => s.net.body = <<>>
    <3>1. s.plain.body \in Seq(Chunk) /\ s.net.body \in Seq(Chunk)
      BY <1>0, Parts DEF Answer
    <3> QED
      BY <3>1
  <2>2. Quiet(t.plain)
    BY <1>7, <2>1 DEF Facts, Quiet
  <2>3. Quiet(t.net)
    BY <1>8, <2>1 DEF Facts, Quiet
  <2> QED
    BY <2>2, <2>3
<1>11. Bodies(t)
  <2>1. CASE t.iw.html
    <3>1. s.iw.html \/ (~s.iw.decided /\ dev)
      BY <1>5, <1>9, <2>1
    <3>2. s.iw.buf = s.plain.body /\ s.net.body = <<>>
      BY <3>1 DEF Facts, Bodies
    <3>3. t.net.type # "none"
      BY <1>4, <1>8, <1>9, <2>1, <3>1 DEF Facts, Bodies
    <3>4. ~(page /\ dev) => t.net.sent = t.plain.sent
      BY <1>7, <1>8 DEF Facts, Bodies
    <3> QED
      BY <1>5, <1>7, <1>8, <1>9, <2>1, <3>2, <3>3, <3>4 DEF Bodies
  <2>2. CASE ~t.iw.html
    <3>1. /\ s.iw.buf = <<>> /\ s.net.body = s.plain.body
          /\ ~(page /\ dev) => s.net.seen = s.plain.seen /\ s.net.sent = s.plain.sent
      BY <1>5, <2>2 DEF Facts, Bodies
    <3>2. t.iw.buf = <<>>
      BY <1>9, <2>2, <3>1
    <3>3. t.net.body = t.plain.body
      BY <1>7, <1>8, <2>2, <3>1
    <3> QED
      BY <1>7, <1>8, <1>9, <2>2, <3>1, <3>2, <3>3 DEF Bodies
  <2> QED
    BY <2>1, <2>2
<1>12. Untouched(t)
  BY <1>7 DEF Untouched
<1>13. Statuses(t)
  <2>1. t.iw.status = 103 => "earlyHints" \in t.odd
    BY <1>2, <1>9 DEF Facts, Statuses, Calls
  <2> DEFINE broken == {"earlyHints", "secondStatus", "flush"}
  <2> SUFFICES ASSUME Without(t, broken) PROVE Statuses(t)
    BY <2>1 DEF Statuses
  <2>2. Without(s, broken)
    BY <1>2 DEF Without, Calls
  <2>3. CASE s.plain.status # 0
    BY <1>1, <1>5, <1>7, <1>8, <1>9, <2>1, <2>2, <2>3 DEF Facts, Statuses, Due, BytesWritten
  <2>4. CASE s.plain.status = 0
    <3>1. s.net.status = 0 /\ s.iw.status = 0
      BY <2>2, <2>4 DEF Facts, Untouched, Without
    <3> QED
      BY <1>1, <1>7, <1>8, <1>9, <2>1, <2>4, <3>1 DEF Statuses, Due, BytesWritten
  <2> QED
    BY <2>3, <2>4
<1>14. Typed(t)
  <2> SUFFICES ASSUME Without(t, Retyping) PROVE Typed(t)
    BY DEF Typed
  <2>1. /\ Without(s, Retyping)
        /\ s.plain.body = <<>> => LooksLike(b) = "html"
    BY <1>2 DEF Without, Calls, Retyping
  <2>2. LooksHtml(t)
    <3>0. s.plain.body \in Seq(Chunk) /\ (s.plain.body = <<>> => s.plain.body \o b = b)
      BY <1>0, Parts, SMTT(30) DEF Answer
    <3>1. CASE s.plain.body = <<>>
      BY <1>7, <2>1, <3>0, <3>1 DEF LooksHtml
    <3>2. CASE s.plain.body # <<>>
      BY <1>7, <2>1, <3>0, <3>2, LooksLikeJoin DEF Facts, Typed, LooksHtml
    <3> QED
      BY <3>1, <3>2
  <2>3. t.plain.head = t.plain.type
    BY <1>7, <2>1 DEF Facts, Typed
  <2>4. \/ t.net.type = t.plain.type
        \/ t.plain.type = "none" /\ t.net.type = "html" /\ t.iw.html
    <3>1. CASE dev /\ ~(s.iw.decided \/ s.net.type # "none")
      BY <1>4, <1>5, <1>7, <1>8, <2>1, <3>1 DEF Facts, Typed, Guessed, Bodies
    <3>2. CASE ~(dev /\ ~(s.iw.decided \/ s.net.type # "none"))
      BY <1>4, <1>5, <1>7, <1>8, <2>1, <3>2 DEF Facts, Typed, Guessed
    <3> QED
      BY <3>1, <3>2
  <2>5. t.net.status # 0 => t.net.head = t.plain.type \/ Guessed(t, t.net.head)
    BY <1>4, <1>7, <1>8, <2>1, <2>2, <2>4 DEF Facts, Typed, Guessed
  <2>6. dev => Sniffs(t.net) /\ Sniffs(t.plain)
    BY <1>7, <1>8, <2>1 DEF Facts, Typed, Sniffs, Quiet
  <2>7. dev => Headless(t)
    BY <1>8, <1>9, <2>1 DEF Facts, Typed, Headless
  <2>8. ~dev => t.net.seenType = t.plain.seenType
    BY <1>7, <1>8, <2>1 DEF Facts, Typed
  <2> QED
    BY <1>5, <1>7, <2>2, <2>3, <2>4, <2>5, <2>6, <2>7, <2>8 DEF Typed, Guessed
<1>15. Held(t)
  <2> DEFINE broken == {"untypedStatus", "firstWrite", "lateType", "earlyHints"}
  <2> SUFFICES ASSUME Without(t, broken) PROVE Held(t)
    BY DEF Held
  <2>1. /\ Without(s, broken)
        /\ s.plain.body = <<>> => LooksLike(b) = "html"
    BY <1>2 DEF Without, Calls
  <2>2. t.iw.html => t.net.type = "html"
    <3>1. CASE s.iw.decided
      BY <1>4, <1>8, <1>9, <2>1, <3>1 DEF Facts, Held
    <3>2. CASE ~s.iw.decided
      BY <1>8, <1>9, <3>2
    <3> QED
      BY <3>1, <3>2
  <2>3. t.iw.decided /\ ~t.iw.html => t.net.type \in {"text", "stream"}
    <3> SUFFICES ASSUME t.iw.decided, ~t.iw.html PROVE t.net.type \in {"text", "stream"}
      OBVIOUS
    <3>0. dev
      BY <1>9
    <3>1. CASE s.iw.decided
      BY <1>4, <1>8, <1>9, <2>1, <3>1 DEF Facts, Held
    <3>2. CASE ~s.iw.decided
      <4>1. base.type # "html" /\ LooksLike(b) = "html"
        BY <1>5, <2>1, <3>0, <3>2 DEF Facts, Bodies
      <4>2. base.type = s.net.type /\ s.net.type # "none"
        BY <1>4, <3>0, <3>2, <4>1
      <4>3. s.net.type \in Types
        BY <1>0, Parts DEF Answer
      <4> QED
        BY <1>8, <4>1, <4>2, <4>3 DEF Types
    <3> QED
      BY <3>1, <3>2
  <2> QED
    BY <2>2, <2>3 DEF Held
<1> QED
  BY <1>1, <1>10, <1>11, <1>12, <1>13, <1>14, <1>15 DEF Facts, t, BytesWritten

LEMMA FlushFacts ==
  ASSUME page \in BOOLEAN, dev \in BOOLEAN, NEW s, Facts(s)
  PROVE  Facts(Flush(s))
<1> DEFINE t == Flush(s)
<1>0. s \in Response
  BY DEF Facts
<1>1. SentSoFar(s, t)
  BY <1>0, FlushEffect
<1>2. /\ "flush" \in t.odd <=> "flush" \in s.odd \/ (dev /\ (page \/ s.iw.html))
      /\ "untypedFlush" \in t.odd <=> "untypedFlush" \in s.odd \/ (dev /\ Untyped(s.plain))
      /\ \A w \in Calls \ {"flush", "untypedFlush"} : w \in t.odd <=> w \in s.odd
  BY <1>1 DEF SentSoFar, FlushNotes
<1> HIDE DEF t
<1>3. Flushed(s.plain, NetFlush(s.plain)) /\ Flushed(s.net, NetFlush(s.net))
  BY <1>0, Parts, NetFlushEffect
<1>5. /\ t.plain.type = s.plain.type /\ t.plain.body = s.plain.body /\ t.plain.seen = s.plain.body
      /\ t.plain.sent
      /\ t.plain.status # 0
      /\ s.plain.status # 0 => t.plain.status = s.plain.status /\ t.plain.head = s.plain.head
      /\ s.plain.status = 0 => t.plain.status = 200 /\ t.plain.head = s.plain.type
  BY <1>1, <1>3 DEF SentSoFar, Flushed
<1>6. /\ t.net.type = s.net.type /\ t.net.body = s.net.body
      /\ s.net.status # 0 => t.net.status = s.net.status /\ t.net.head = s.net.head
      /\ ~Flushes => t.net = s.net
      /\ Flushes => t.net.seen = s.net.body /\ t.net.status # 0 /\ t.net.sent
      /\ Flushes /\ s.net.status = 0 => t.net.status = 200 /\ t.net.head = s.net.type
  BY <1>1, <1>3 DEF SentSoFar, Flushed
<1>7. Quiet(t.plain)
  BY <1>1, <1>3, <1>5 DEF Facts, Quiet, SentSoFar, Flushed
<1>8. Quiet(t.net)
  <2>1. CASE Flushes
    BY <1>1, <1>3, <1>6, <2>1 DEF Facts, Quiet, SentSoFar, Flushed
  <2>2. CASE ~Flushes
    BY <1>6, <2>2 DEF Facts
  <2> QED
    BY <2>1, <2>2
<1>11. Bodies(t)
  <2>1. t.iw = s.iw
    BY <1>1 DEF SentSoFar
  <2>2. ~(page /\ dev) => t.net.sent /\ t.plain.sent
    BY <1>5, <1>6 DEF Flushes
  <2>3. ~s.iw.html /\ ~(page /\ dev) => t.net.seen = t.plain.seen
    BY <1>5, <1>6 DEF Facts, Bodies, Flushes
  <2>4. t.net.body = s.net.body /\ t.net.type = s.net.type /\ t.plain.body = s.plain.body
    BY <1>5, <1>6
  <2> QED
    BY <2>1, <2>2, <2>3, <2>4 DEF Facts, Bodies
<1>12. Untouched(t)
  BY <1>5 DEF Untouched
<1>13. Statuses(t)
  <2>1. t.iw.status = 103 => "earlyHints" \in t.odd
    BY <1>1, <1>2 DEF Facts, Statuses, Calls, SentSoFar
  <2> DEFINE broken == {"earlyHints", "secondStatus", "flush"}
  <2> SUFFICES ASSUME Without(t, broken) PROVE Statuses(t)
    BY <2>1 DEF Statuses
  <2>2. Without(s, broken) /\ ~(dev /\ (page \/ s.iw.html))
    BY <1>2 DEF Without, Calls
  <2>3. Flushes /\ ~s.iw.html
    BY <2>2 DEF Flushes, Facts, Bodies
  <2>4. CASE s.plain.status # 0
    BY <1>1, <1>5, <1>6, <2>1, <2>2, <2>3, <2>4 DEF Facts, Statuses, Due, SentSoFar
  <2>5. CASE s.plain.status = 0
    <3>1. s.net.status = 0 /\ s.iw.status = 0
      BY <2>2, <2>5 DEF Facts, Untouched, Without
    <3> QED
      BY <1>1, <1>5, <1>6, <2>1, <2>3, <2>5, <3>1 DEF Statuses, Due, SentSoFar
  <2> QED
    BY <2>4, <2>5
<1>14. Typed(t)
  <2> SUFFICES ASSUME Without(t, Retyping) PROVE Typed(t)
    BY DEF Typed
  <2>1. Without(s, Retyping) /\ ~(dev /\ Untyped(s.plain))
    BY <1>2 DEF Without, Calls, Retyping
  <2>2. LooksHtml(t) = LooksHtml(s)
    BY <1>5 DEF LooksHtml
  <2>3. t.plain.body = <<>> \/ LooksHtml(t)
    BY <1>5, <2>1, <2>2 DEF Facts, Typed
  <2>4. t.plain.head = t.plain.type
    BY <1>5, <2>1 DEF Facts, Typed
  <2>5. \/ t.net.type = t.plain.type
        \/ Guessed(t, t.net.type) /\ t.plain.status # 0 /\ t.iw.html
    BY <1>1, <1>5, <1>6, <2>1, <2>2 DEF Facts, Typed, Guessed, SentSoFar
  <2>6. t.net.status # 0 => t.net.head = t.plain.type \/ Guessed(t, t.net.head)
    BY <1>5, <1>6, <2>1, <2>2 DEF Facts, Typed, Guessed
  <2>7. t.iw.html => t.plain.type # "none" \/ LooksHtml(t)
    BY <1>1, <1>5, <2>1, <2>2 DEF Facts, Typed, SentSoFar
  <2>8. dev /\ ~s.plain.sent => t.plain.head # "none" \/ s.plain.body # <<>>
    <3>1. Headed(s.plain, 200, NetHeader(s.plain, 200))
      BY <1>0, Parts, NetHeaderEffect
    <3> QED
      BY <1>5, <2>1, <3>1 DEF Untyped, Headed
  <2>9. dev => Sniffs(t.plain)
    <3> SUFFICES ASSUME dev, t.plain.head = "none" PROVE t.plain.seenType = "html"
      BY DEF Sniffs
    <3>1. CASE s.plain.sent
      BY <1>1, <1>3, <1>5, <2>1, <3>1 DEF Facts, Typed, Sniffs, Quiet, SentSoFar, Flushed
    <3>2. CASE ~s.plain.sent
      BY <1>1, <1>3, <1>5, <2>1, <2>8, <3>2 DEF Facts, Typed, LooksHtml, SentSoFar, Flushed
    <3> QED
      BY <3>1, <3>2
  <2>10. ASSUME dev, Flushes, ~s.net.sent, t.net.head = "none"
         PROVE  s.iw.decided /\ ~s.iw.html /\ s.net.body = s.plain.body /\ s.plain.body # <<>>
    <3>1. ~s.iw.html
      BY <1>6, <2>1, <2>10 DEF Facts, Typed, Headless, Bodies
    <3>2. s.plain.type = "none"
      BY <1>6, <2>1, <2>10, <3>1 DEF Facts, Typed, Guessed
    <3>3. ~s.plain.sent
      BY <2>10 DEF Facts, Bodies, Flushes
    <3>4. s.plain.body # <<>>
      BY <1>5, <2>4, <2>8, <2>10, <3>2, <3>3
    <3> QED
      BY <2>10, <3>1, <3>4 DEF Facts, Bodies
  <2>11. dev => Sniffs(t.net)
    <3> SUFFICES ASSUME dev, t.net.sent, t.net.head = "none" PROVE t.net.seenType = "html"
      BY DEF Sniffs
    <3>1. CASE ~Flushes
      BY <1>6, <2>1, <3>1 DEF Facts, Typed, Sniffs
    <3>2. CASE Flushes /\ s.net.sent
      <4>1. s.net.head = "none"
        BY <1>6, <3>2 DEF Facts, Quiet
      <4> QED
        BY <1>1, <1>3, <2>1, <3>2, <4>1 DEF Facts, Typed, Sniffs, SentSoFar, Flushed
    <3>3. CASE Flushes /\ ~s.net.sent
      <4>1. s.net.body # <<>> /\ LooksLike(s.net.body) = "html"
        BY <2>1, <2>10, <3>3 DEF Facts, Typed, LooksHtml
      <4> QED
        BY <1>1, <1>3, <3>3, <4>1 DEF SentSoFar, Flushed
    <3> QED
      BY <3>1, <3>2, <3>3
  <2>12. dev => Headless(t)
    <3> SUFFICES ASSUME dev, t.net.status # 0, t.net.head = "none"
                 PROVE  s.iw.decided /\ ~s.iw.html
      BY <1>1 DEF Headless, SentSoFar
    <3>1. CASE s.net.status # 0
      BY <1>6, <2>1, <3>1 DEF Facts, Typed, Headless
    <3>2. CASE s.net.status = 0
      <4>1. Flushes /\ ~s.net.sent
        BY <1>6, <3>2 DEF Facts, Quiet
      <4> QED
        BY <2>10, <4>1
    <3> QED
      BY <3>1, <3>2
  <2>13. ~dev => t.net.seenType = t.plain.seenType
    <3> SUFFICES ASSUME ~dev PROVE t.net.seenType = t.plain.seenType
      OBVIOUS
    <3>1. Flushes /\ s.net.sent = s.plain.sent /\ ~s.iw.html /\ s.net.body = s.plain.body
      BY DEF Flushes, Facts, Bodies
    <3>2. CASE s.net.sent
      BY <1>1, <1>3, <2>1, <3>1, <3>2 DEF Facts, Typed, SentSoFar, Flushed
    <3>3. CASE ~s.net.sent
      <4>1. t.net.head = t.plain.head
        BY <1>5, <1>6, <2>4, <2>5, <2>6, <3>1 DEF Guessed
      <4> QED
        BY <1>1, <1>3, <3>1, <3>3, <4>1 DEF SentSoFar, Flushed
    <3> QED
      BY <3>2, <3>3
  <2> QED
    BY <2>3, <2>4, <2>5, <2>6, <2>7, <2>9, <2>11, <2>12, <2>13 DEF Typed
<1>15. Held(t)
  BY <1>1, <1>2, <1>6 DEF Facts, Held, Without, Calls, SentSoFar
<1> QED
  BY <1>1, <1>7, <1>8, <1>11, <1>12, <1>13, <1>14, <1>15 DEF Facts, t, SentSoFar

-----------------------------------------------------------------------------
(* An event stream streams.                                                *)

Streaming(s) ==
  ~(page /\ dev) /\ Without(s, {"lateType"}) =>
    s.plain.status # 0 /\ s.net.type = "stream" /\ ~s.iw.html

LEMMA SetHeaderStreams ==
  ASSUME NEW s, Facts(s), Streaming(s), NEW type \in {"html", "text", "stream"}
  PROVE  Streaming(SetHeader(s, type))
<1> DEFINE t == SetHeader(s, type)
<1>1. TypeSet(s, type, t)
  BY SetHeaderEffect DEF Facts, Types
<1> HIDE DEF t
<1>2. Without(t, {"lateType"}) => Without(s, {"lateType"}) /\ s.plain.status = 0
  BY <1>1 DEF TypeSet, Without
<1> QED
  BY <1>2 DEF Streaming, t

LEMMA WriteHeaderStreams ==
  ASSUME page \in BOOLEAN, NEW s, Facts(s), Streaming(s), NEW code \in Nat \ {0}
  PROVE  Streaming(WriteHeader(s, code))
<1> DEFINE t == WriteHeader(s, code)
<1>0. s \in Response /\ code \in Nat
  BY DEF Facts
<1>1. HeaderWritten(s, code, t)
  BY <1>0, WriteHeaderEffect
<1> HIDE DEF t
<1>2. /\ s.plain.status # 0 => NetHeader(s.plain, code).status = s.plain.status
      /\ NetHeader(s.net, code).type = s.net.type
  BY <1>0, Parts, NetHeaderEffect DEF Headed
<1> SUFFICES ASSUME ~(page /\ dev), Without(t, {"lateType"})
             PROVE  t.plain.status # 0 /\ t.net.type = "stream" /\ ~t.iw.html
  BY DEF Streaming, t
<1>3. s.plain.status # 0 /\ s.net.type = "stream" /\ ~s.iw.html
  BY <1>1 DEF Streaming, Without, HeaderWritten
<1> QED
  BY <1>1, <1>2, <1>3 DEF HeaderWritten

LEMMA WriteStreams ==
  ASSUME page \in BOOLEAN, NEW s, Facts(s), Streaming(s), NEW b \in Seq(Chunk)
  PROVE  Streaming(Write(s, b))
<1> DEFINE t == Write(s, b)
<1>0. s \in Response
  BY DEF Facts
<1>1. BytesWritten(s, b, t)
  BY <1>0, WriteEffect
<1> HIDE DEF t
<1>2. /\ s.plain.status # 0 => NetWrite(s.plain, b).status = s.plain.status
      /\ NetWrite(s.net, b).type = s.net.type
  BY <1>0, Parts, NetWriteEffect DEF Written
<1> SUFFICES ASSUME ~(page /\ dev), Without(t, {"lateType"})
             PROVE  t.plain.status # 0 /\ t.net.type = "stream" /\ ~t.iw.html
  BY DEF Streaming, t
<1>3. s.plain.status # 0 /\ s.net.type = "stream" /\ ~s.iw.html
  BY <1>1 DEF Streaming, Without, BytesWritten
<1>4. Sniffed(s, b) = s.net
  BY <1>3 DEF Sniffed
<1> QED
  BY <1>1, <1>2, <1>3, <1>4 DEF BytesWritten

LEMMA FlushStreams ==
  ASSUME page \in BOOLEAN, NEW s, Facts(s),
         Streaming(s) \/ (s.net.type = "stream" /\ ~s.iw.html)
  PROVE  Streaming(Flush(s))
<1> DEFINE t == Flush(s)
<1>0. s \in Response
  BY DEF Facts
<1>1. SentSoFar(s, t)
  BY <1>0, FlushEffect
<1> HIDE DEF t
<1>2. /\ NetFlush(s.plain).status # 0
      /\ NetFlush(s.net).type = s.net.type
  BY <1>0, Parts, NetFlushEffect DEF Flushed
<1> SUFFICES ASSUME ~(page /\ dev), Without(t, {"lateType"})
             PROVE  t.plain.status # 0 /\ t.net.type = "stream" /\ ~t.iw.html
  BY DEF Streaming, t
<1>3. s.net.type = "stream" /\ ~s.iw.html
  BY <1>1 DEF Streaming, Without, SentSoFar, FlushNotes
<1> QED
  BY <1>1, <1>2, <1>3 DEF SentSoFar

-----------------------------------------------------------------------------
(* What is sent when the handler returns, and the error page.              *)

\* The answer.
Sent(s) ==
  [(IF dev THEN InjectFlush(s) ELSE s) EXCEPT !.net = NetFlush(@), !.plain = NetFlush(@)]

\* The response that f leaves when the handler has returned from r.
Last(r, f) ==
  /\ f.seen = r.body
  /\ f.status = IF r.status # 0 THEN r.status ELSE 200
  /\ f.head = IF r.status # 0 THEN r.head ELSE r.type
  /\ r.sent => f.seenType = r.seenType
  /\ ~r.sent =>
       f.seenType = IF f.head # "none" THEN f.head
                    ELSE IF r.body # <<>> THEN LooksLike(r.body) ELSE "none"

LEMMA LastFlush == ASSUME NEW r \in Answer PROVE Last(r, NetFlush(r))
BY NetFlushEffect DEF Last, Flushed

\* What injectWriter releases at the end, of HTML that it has held.
Released(s, held) ==
  /\ held.body = Append(s.plain.body, Script)
  /\ held.seen = s.net.seen /\ held.seenType = s.net.seenType /\ held.type = s.net.type
  /\ held.sent = s.net.sent /\ held.status # 0
  /\ s.net.status # 0 => held.status = s.net.status /\ held.head = s.net.head
  /\ s.net.status = 0 =>
       /\ held.head = s.net.type
       /\ held.status = IF s.iw.status \in {0, 103} THEN 200 ELSE s.iw.status

LEMMA SentEffect ==
  ASSUME NEW s, Facts(s), Script \in Chunk
  PROVE  LET e == Sent(s)
         IN  /\ e \in Response /\ e.odd = s.odd /\ Last(s.plain, e.plain)
             /\ ~s.iw.html => Last(s.net, e.net)
             /\ s.iw.html => \E held \in Answer : Released(s, held) /\ Last(held, e.net)
<1> DEFINE e       == Sent(s)
           flushed == IF dev THEN InjectFlush(s) ELSE s
           headed  == IF s.iw.status = 0 THEN s.net ELSE NetHeader(s.net, s.iw.status)
           held    == NetWrite(headed, Append(s.iw.buf, Script))
<1>0. s \in Response /\ (s.iw.html => dev)
  BY DEF Facts, Bodies
<1>1. /\ flushed \in Response /\ flushed.plain = s.plain /\ flushed.odd = s.odd
      /\ flushed.net = IF s.iw.html THEN held ELSE s.net
  BY <1>0, InjectFlushEffect
<1>2. e = [gw |-> flushed.gw, iw |-> flushed.iw, net |-> NetFlush(flushed.net),
           plain |-> NetFlush(flushed.plain), odd |-> flushed.odd]
  <2>1. e = [flushed EXCEPT !.net = NetFlush(@), !.plain = NetFlush(@)]
    BY DEF Sent
  <2> HIDE DEF flushed, e
  <2> QED
    BY <1>1, <2>1 DEF Response
<1> HIDE DEF flushed, e
<1>3. e \in Response /\ e.odd = s.odd /\ e.plain = NetFlush(s.plain) /\ e.net = NetFlush(flushed.net)
  <2>1. NetFlush(flushed.net) \in Answer /\ NetFlush(flushed.plain) \in Answer
    BY <1>1, Parts, NetFlushEffect DEF Flushed
  <2> QED
    BY <1>1, <1>2, <2>1, Parts, Whole
<1>4. Last(s.plain, e.plain) /\ Last(flushed.net, e.net)
  BY <1>0, <1>1, <1>3, Parts, LastFlush
<1>5. ~s.iw.html => Last(s.net, e.net)
  BY <1>1, <1>4
<1>6. ASSUME s.iw.html
      PROVE  held \in Answer /\ Released(s, held) /\ Last(held, e.net)
  <2>1. /\ headed \in Answer
        /\ headed.type = s.net.type /\ headed.body = s.net.body /\ headed.seen = s.net.seen
        /\ headed.seenType = s.net.seenType /\ headed.sent = s.net.sent
        /\ s.net.status # 0 \/ s.iw.status \in {0, 103} =>
             headed.status = s.net.status /\ headed.head = s.net.head
        /\ s.net.status = 0 /\ s.iw.status \notin {0, 103} =>
             headed.status = s.iw.status /\ headed.head = s.net.type
    <3>1. s.net \in Answer /\ s.iw.status \in Nat
      BY <1>0, Parts
    <3>2. CASE s.iw.status = 0
      BY <3>1, <3>2
    <3>3. CASE s.iw.status # 0
      BY <3>1, <3>3, NetHeaderEffect DEF Headed
    <3> QED
      BY <3>2, <3>3
  <2> HIDE DEF headed
  <2>2. Append(s.iw.buf, Script) \in Seq(Chunk) /\ <<>> \o Append(s.iw.buf, Script) = Append(s.iw.buf, Script)
    <3>1. s.iw.buf \in Seq(Chunk)
      BY <1>0, Parts
    <3> QED
      BY <3>1
  <2>3. s.iw.buf = s.plain.body /\ s.net.body = <<>>
    BY <1>6 DEF Facts, Bodies
  <2>4. Written(headed, Append(s.iw.buf, Script), held)
    BY <2>1, <2>2, NetWriteEffect
  <2> HIDE DEF held
  <2>5. Last(held, e.net)
    <3>1. flushed.net = held
      BY <1>1, <1>6 DEF held, headed
    <3> QED
      BY <1>4, <3>1
  <2>6. held.body = Append(s.plain.body, Script)
    <3>1. headed.body = <<>>
      BY <2>1, <2>3
    <3>2. held.body = <<>> \o Append(s.iw.buf, Script)
      BY <2>4, <3>1 DEF Written
    <3>3. held.body = Append(s.iw.buf, Script)
      BY <2>2, <3>2
    <3> QED
      BY <2>3, <3>3
  <2>7. /\ held.seen = s.net.seen /\ held.seenType = s.net.seenType /\ held.type = s.net.type
        /\ held.sent = s.net.sent /\ held.status # 0
        /\ s.net.status # 0 => held.status = s.net.status /\ held.head = s.net.head
        /\ s.net.status = 0 =>
             /\ held.head = s.net.type
             /\ held.status = IF s.iw.status \in {0, 103} THEN 200 ELSE s.iw.status
    BY <2>1, <2>4 DEF Written
  <2> QED
    BY <2>4, <2>5, <2>6, <2>7 DEF Written, Released
<1> HIDE DEF held
<1> QED
  BY <1>3, <1>4, <1>5, <1>6 DEF e

LEMMA SentSeen ==
  ASSUME NEW s, Facts(s), Script \in Chunk
  PROVE  LET e == Sent(s)
         IN  /\ e.plain.seen = s.plain.body
             /\ ~s.iw.html => e.net.seen = s.plain.body
             /\ s.iw.html => e.net.seen = Append(s.plain.body, Script)
<1> DEFINE e == Sent(s)
<1>1. /\ Last(s.plain, e.plain)
      /\ ~s.iw.html => Last(s.net, e.net)
      /\ s.iw.html => \E held \in Answer : Released(s, held) /\ Last(held, e.net)
  BY SentEffect
<1> HIDE DEF e
<1>2. e.plain.seen = s.plain.body
  BY <1>1 DEF Last
<1>3. ~s.iw.html => e.net.seen = s.plain.body
  <2>1. ~s.iw.html => s.net.body = s.plain.body
    BY DEF Facts, Bodies
  <2> QED
    BY <1>1, <2>1 DEF Last
<1>4. s.iw.html => e.net.seen = Append(s.plain.body, Script)
  BY <1>1 DEF Last, Released
<1> QED
  BY <1>2, <1>3, <1>4 DEF e

LEMMA SentStatus ==
  ASSUME NEW s, Facts(s), Script \in Chunk, Without(s, {"earlyHints", "secondStatus", "flush"})
  PROVE  Sent(s).net.status = Sent(s).plain.status
<1> DEFINE e == Sent(s)
<1>1. /\ Last(s.plain, e.plain)
      /\ ~s.iw.html => Last(s.net, e.net)
      /\ s.iw.html => \E held \in Answer : Released(s, held) /\ Last(held, e.net)
  BY SentEffect
<1> HIDE DEF e
<1>2. CASE s.plain.status = 0
  <2>1. s.net.status = 0 /\ ~s.iw.html
    BY <1>2 DEF Facts, Untouched, Bodies, Without
  <2> QED
    BY <1>1, <1>2, <2>1 DEF Last, e
<1>3. CASE s.plain.status # 0
  <2>1. /\ s.iw.status # 103
        /\ s.net.status = 0 => s.iw.html
        /\ s.plain.status = Due(s)
    BY <1>3 DEF Facts, Statuses, Without
  <2>2. CASE s.iw.html
    <3>1. PICK held \in Answer : Released(s, held) /\ Last(held, e.net)
      BY <1>1, <2>2
    <3>2. held.status = s.plain.status
      BY <2>1, <3>1 DEF Due, Released
    <3> QED
      BY <1>1, <1>3, <3>1, <3>2 DEF Last, Released, e
  <2>3. CASE ~s.iw.html
    BY <1>1, <1>3, <2>1, <2>3 DEF Last, Due, e
  <2> QED
    BY <2>2, <2>3
<1> QED
  BY <1>2, <1>3

LEMMA SentType ==
  ASSUME NEW s, Facts(s), Script \in Chunk, Without(s, Retyping)
  PROVE  LET e == Sent(s)
         IN  /\ e.net.seenType = e.plain.seenType
             /\ s.iw.html /\ s.net.type = "html" => e.net.seenType = "html"
             /\ dev /\ ~s.iw.html /\ s.net.type \in {"text", "stream"} => e.net.seenType = s.net.type
<1> DEFINE e == Sent(s)
           type == s.plain.type
<1>1. PICK sent \in Answer :
        /\ Last(s.plain, e.plain) /\ Last(sent, e.net)
        /\ sent.sent = s.net.sent /\ sent.seenType = s.net.seenType /\ sent.type = s.net.type
        /\ s.net.status # 0 => sent.status = s.net.status /\ sent.head = s.net.head
        /\ s.net.status = 0 => (IF sent.status # 0 THEN sent.head ELSE sent.type) = s.net.type
        /\ ~s.iw.html => sent = s.net
        /\ s.iw.html => sent.body = Append(s.plain.body, Script)
  <2>1. CASE s.iw.html
    <3>1. PICK held \in Answer : Released(s, held) /\ Last(held, e.net)
      BY <2>1, SentEffect
    <3>2. Last(s.plain, e.plain)
      BY SentEffect
    <3> QED
      BY <2>1, <3>1, <3>2 DEF Released
  <2>2. CASE ~s.iw.html
    BY <2>2, SentEffect, Parts DEF Facts
  <2> QED
    BY <2>1, <2>2
<1> HIDE DEF e
<1>2. /\ s.plain.body = <<>> \/ LooksHtml(s)
      /\ s.plain.status # 0 => s.plain.head = type
      /\ \/ s.net.type = type
         \/ type = "none" /\ s.net.type = "html" /\ LooksHtml(s) /\ s.iw.html
      /\ s.net.status # 0 => s.net.head = type \/ (type = "none" /\ s.net.head = "html" /\ LooksHtml(s))
      /\ s.iw.html => type # "none" \/ LooksHtml(s)
      /\ dev => Sniffs(s.net) /\ Sniffs(s.plain)
  BY DEF Facts, Typed, Guessed
<1>3. s.plain.body \in Seq(Chunk) /\ (LooksHtml(s) => s.plain.body # <<>>)
  BY Parts, NoBytes DEF Facts, Answer, LooksHtml
<1>4. e.plain.head = type
  BY <1>1, <1>2 DEF Last
<1>5. dev => e.plain.seenType = IF type # "none" THEN type
                                ELSE IF s.plain.body = <<>> THEN "none" ELSE "html"
  <2>0. (s.plain.sent => s.plain.status # 0 /\ s.plain.head = type) /\ (type = "none" => s.plain.head = "none")
    BY <1>2 DEF Facts, Quiet
  <2>1. CASE type # "none"
    BY <1>1, <1>4, <2>0, <2>1 DEF Last, Facts, Quiet
  <2>2. CASE type = "none" /\ s.plain.body = <<>>
    BY <1>1, <1>4, <2>0, <2>2 DEF Last, Facts, Quiet
  <2>3. CASE type = "none" /\ s.plain.body # <<>>
    BY <1>1, <1>2, <1>4, <2>0, <2>3 DEF Last, Sniffs, LooksHtml
  <2> QED
    BY <2>1, <2>2, <2>3
<1>6. e.net.head = type \/ (type = "none" /\ e.net.head = "html" /\ LooksHtml(s))
  BY <1>1, <1>2 DEF Last
<1>7. dev /\ e.net.head = "none" => e.net.seenType = IF s.plain.body = <<>> THEN "none" ELSE "html"
  <2> SUFFICES ASSUME dev, e.net.head = "none"
               PROVE  e.net.seenType = IF s.plain.body = <<>> THEN "none" ELSE "html"
    OBVIOUS
  <2>1. s.net.head = "none" /\ type = "none"
    BY <1>1, <1>2, <1>6 DEF Last, Facts, Quiet
  <2>2. CASE s.iw.html
    <3>1. LooksHtml(s) /\ s.plain.body # <<>>
      BY <1>2, <1>3, <2>1, <2>2
    <3>2. sent.body = s.plain.body \o <<Script>> /\ <<Script>> \in Seq(Chunk) /\ sent.body # <<>>
      BY <1>1, <1>3, <2>2
    <3>3. LooksLike(sent.body) = "html"
      BY <1>3, <3>1, <3>2, LooksLikeJoin DEF LooksHtml
    <3> QED
      BY <1>1, <1>2, <2>1, <3>1, <3>2, <3>3 DEF Last, Sniffs
  <2>3. CASE ~s.iw.html
    <3>1. sent = s.net /\ s.net.body = s.plain.body
      BY <1>1, <2>3 DEF Facts, Bodies
    <3>2. CASE s.plain.body = <<>>
      BY <1>1, <2>1, <3>1, <3>2 DEF Last, Facts, Quiet
    <3>3. CASE s.plain.body # <<>>
      BY <1>1, <1>2, <2>1, <3>1, <3>3 DEF Last, Sniffs, LooksHtml
    <3> QED
      BY <3>2, <3>3
  <2> QED
    BY <2>2, <2>3
<1>8. e.net.head # "none" => e.net.seenType = e.net.head
  BY <1>1 DEF Last, Facts, Quiet
<1>9. e.net.seenType = e.plain.seenType
  <2>1. CASE dev
    BY <1>3, <1>5, <1>6, <1>7, <1>8, <2>1
  <2>2. CASE ~dev
    <3>1. /\ sent = s.net /\ s.net.body = s.plain.body /\ s.net.sent = s.plain.sent
          /\ s.net.seenType = s.plain.seenType
      BY <1>1, <2>2 DEF Facts, Bodies, Typed
    <3>2. e.net.head = type
      BY <1>1, <2>2, <3>1 DEF Facts, Typed, Guessed, Last
    <3> QED
      BY <1>1, <1>4, <3>1, <3>2 DEF Last
  <2> QED
    BY <2>1, <2>2
<1>10. s.iw.html /\ s.net.type = "html" => e.net.seenType = "html"
  <2> SUFFICES ASSUME s.iw.html, s.net.type = "html" PROVE e.plain.seenType = "html"
    BY <1>9
  <2> QED
    BY <1>2, <1>3, <1>5 DEF Facts, Bodies
<1>11. dev /\ ~s.iw.html /\ s.net.type \in {"text", "stream"} => e.net.seenType = s.net.type
  BY <1>2, <1>5, <1>9
<1> QED
  BY <1>9, <1>10, <1>11 DEF e

LEMMA SentScript ==
  ASSUME NEW s, Facts(s), Script \in Chunk,
         \A i \in DOMAIN s.plain.body : s.plain.body[i].by # "dev",
         Without(s, {"untypedStatus", "untypedFlush", "firstWrite", "lateType", "earlyHints"})
  PROVE  LET e == Sent(s)
             scripted == \E i \in DOMAIN e.net.seen : e.net.seen[i].by = "dev"
         IN  /\ scripted => dev /\ e.net.seenType = "html"
             /\ dev /\ e.net.seenType = "html" /\ e.plain.seen # <<>> => scripted
<1> DEFINE e == Sent(s)
           scripted == \E i \in DOMAIN e.net.seen : e.net.seen[i].by = "dev"
<1>1. /\ e.plain.seen = s.plain.body
      /\ ~s.iw.html => e.net.seen = s.plain.body
      /\ s.iw.html => e.net.seen = Append(s.plain.body, Script)
  BY SentSeen
<1>2. /\ s.iw.html /\ s.net.type = "html" => e.net.seenType = "html"
      /\ dev /\ ~s.iw.html /\ s.net.type \in {"text", "stream"} => e.net.seenType = s.net.type
  BY SentType DEF Without, Retyping
<1> HIDE DEF e
<1>3. /\ s.iw.html => s.net.type = "html" /\ dev
      /\ s.iw.decided /\ ~s.iw.html => s.net.type \in {"text", "stream"}
      /\ dev /\ ~s.iw.decided => s.plain.body = <<>>
  BY DEF Facts, Held, Bodies, Without
<1>4. scripted => s.iw.html
  BY <1>1
<1>5. s.iw.html => scripted
  <2> SUFFICES ASSUME s.iw.html PROVE scripted
    OBVIOUS
  <2>1. s.plain.body \in Seq(Chunk)
    BY Parts DEF Facts, Answer
  <2> DEFINE i == Len(s.plain.body) + 1
  <2>2. i \in DOMAIN e.net.seen /\ e.net.seen[i] = Script
    BY <1>1, <2>1
  <2>3. Script.by = "dev"
    BY DEF Script
  <2> QED
    BY <2>2, <2>3
<1>6. scripted => dev /\ e.net.seenType = "html"
  BY <1>2, <1>3, <1>4
<1>7. dev /\ e.net.seenType = "html" /\ e.plain.seen # <<>> => scripted
  <2> SUFFICES ASSUME dev, e.net.seenType = "html", e.plain.seen # <<>>, ~s.iw.html PROVE FALSE
    BY <1>5
  <2>1. s.net.type \in {"text", "stream"}
    BY <1>1, <1>3
  <2> QED
    BY <1>2, <2>1
<1> QED
  BY <1>6, <1>7 DEF e

-----------------------------------------------------------------------------

LEMMA HttpErrorFacts ==
  ASSUME page \in BOOLEAN, NEW s, Facts(s), Failure \in Seq(Chunk)
  PROVE  Facts(HttpError(s))
<1> DEFINE typed  == SetHeader(s, "text")
           headed == WriteHeader(typed, 500)
<1>1. Facts(typed)
  BY SetHeaderFacts
<1>2. Facts(headed)
  <2> HIDE DEF typed
  <2> QED
    BY <1>1, WriteHeaderFacts
<1>3. HttpError(s) = Write(headed, Failure)
  BY DEF HttpError
<1> HIDE DEF headed
<1> QED
  BY <1>2, <1>3, WriteFacts

LEMMA HttpErrorOdd ==
  ASSUME page \in BOOLEAN, NEW s, Facts(s), Failure \in Seq(Chunk)
  PROVE  \A w \in s.odd : w \in HttpError(s).odd
<1> PICK code \in Nat : code = 500
  OBVIOUS
<1> DEFINE typed  == SetHeader(s, "text")
           headed == WriteHeader(typed, code)
           t      == Write(headed, Failure)
<1>1. TypeSet(s, "text", typed)
  BY SetHeaderEffect DEF Facts, Types
<1> HIDE DEF typed
<1>2. typed \in Response
  BY <1>1 DEF TypeSet
<1>3. HeaderWritten(typed, code, headed)
  BY <1>2, WriteHeaderEffect
<1> HIDE DEF headed
<1>4. headed \in Response
  BY <1>3 DEF HeaderWritten
<1>5. BytesWritten(headed, Failure, t)
  BY <1>4, WriteEffect
<1>6. HttpError(s) = t
  BY DEF HttpError, t, headed, typed
<1> HIDE DEF t
<1> QED
  BY <1>1, <1>3, <1>5, <1>6 DEF TypeSet, HeaderWritten, BytesWritten

\* What http.Error does to a response on which nothing is committed.
LEMMA HttpErrorAnswers ==
  ASSUME page \in BOOLEAN, NEW s, Facts(s), Failure \in Seq(Chunk),
         s.plain.status = 0, "earlyHints" \notin s.odd
  PROVE  LET t == HttpError(s)
         IN  /\ ~t.iw.html /\ t.net.status = 500 /\ t.net.head = "text"
             /\ t.plain.body = Failure
<1> PICK code \in Nat : code = 500
  OBVIOUS
<1> DEFINE typed  == SetHeader(s, "text")
           headed == WriteHeader(typed, code)
           t      == Write(headed, Failure)
<1>0. /\ s \in Response /\ s.net.status = 0 /\ ~s.gw.committed /\ ~s.iw.decided /\ ~s.iw.html
      /\ s.plain.body = <<>>
  BY DEF Facts, Untouched, Bodies, Quiet
<1>1. /\ typed \in Response /\ typed.gw = s.gw /\ typed.iw = s.iw
      /\ typed.net \in Answer /\ typed.net.type = "text" /\ typed.net.status = 0
      /\ typed.plain \in Answer /\ typed.plain.body = <<>>
  BY <1>0, SetHeaderEffect, ZenonT(30) DEF Types, Retypes, TypeSet
<1> HIDE DEF typed
<1>2. /\ Headed(typed.net, code, NetHeader(typed.net, code))
      /\ Headed(typed.plain, code, NetHeader(typed.plain, code))
  BY <1>1, NetHeaderEffect
<1>3. /\ headed \in Response /\ headed.plain = NetHeader(typed.plain, code)
      /\ ~headed.iw.html /\ headed.net = NetHeader(typed.net, code)
      /\ dev => headed.iw.decided
  <2>1. HeaderWritten(typed, code, headed)
    BY <1>1, WriteHeaderEffect
  <2> HIDE DEF headed
  <2> QED
    BY <1>0, <1>1, <2>1 DEF HeaderWritten
<1>4. headed.plain \in Answer /\ headed.plain.body = <<>>
  BY <1>1, <1>2, <1>3 DEF Headed
<1> DEFINE net == headed.net
<1>5. net \in Answer /\ net.type = "text" /\ net.status = 500 /\ net.head = "text"
  BY <1>1, <1>2, <1>3 DEF Headed
<1> HIDE DEF headed
<1>6. BytesWritten(headed, Failure, t) /\ Sniffed(headed, Failure) = net
  <2>1. BytesWritten(headed, Failure, t)
    BY <1>3, WriteEffect
  <2>2. Sniffed(headed, Failure) = net
    BY <1>5 DEF Sniffed
  <2> QED
    BY <2>1, <2>2
<1> HIDE DEF t, net
<1>7. ~t.iw.html /\ t.net = NetWrite(net, Failure)
  BY <1>3, <1>6 DEF BytesWritten, net
<1>8. /\ t.net.status = 500 /\ t.net.head = "text"
      /\ t.plain.body = Failure
  <2>1. LET w == NetWrite(net, Failure)
        IN  net.status # 0 => w.status = net.status /\ w.head = net.head
    BY <1>5, NetWriteEffect DEF Written
  <2>2. NetWrite(headed.plain, Failure).body = headed.plain.body \o Failure
    BY <1>4, NetWriteEffect DEF Written
  <2>3. <<>> \o Failure = Failure
    OBVIOUS
  <2>4. t.plain.body = Failure
    BY <1>4, <1>6, <2>2, <2>3 DEF BytesWritten
  <2> QED
    BY <1>5, <1>7, <2>1, <2>4
<1>9. HttpError(s) = t
  BY DEF HttpError, t, headed, typed
<1> QED
  BY <1>7, <1>8, <1>9

-----------------------------------------------------------------------------
(* Both together.                                                          *)

\* The answer so far, and an event stream in it.
Sound(s) == Facts(s) /\ (opened => Streaming(s))

LEMMA SetHeaderSound ==
  ASSUME NEW s, Sound(s), NEW type \in {"html", "text", "stream"}
  PROVE  Sound(SetHeader(s, type))
BY SetHeaderFacts, SetHeaderStreams DEF Sound

LEMMA WriteHeaderSound ==
  ASSUME page \in BOOLEAN, NEW s, Sound(s), NEW code \in Nat \ {0}
  PROVE  Sound(WriteHeader(s, code))
BY WriteHeaderFacts, WriteHeaderStreams DEF Sound

LEMMA WriteSound ==
  ASSUME page \in BOOLEAN, NEW s, Sound(s), NEW b \in Seq(Chunk)
  PROVE  Sound(Write(s, b))
BY WriteFacts, WriteStreams DEF Sound

LEMMA FlushSound ==
  ASSUME page \in BOOLEAN, dev \in BOOLEAN, NEW s, Sound(s)
  PROVE  Sound(Flush(s))
<1>1. Facts(s) /\ Facts(Flush(s))
  BY FlushFacts DEF Sound
<1>2. ASSUME opened PROVE Streaming(Flush(s))
  <2>1. Streaming(s) \/ (s.net.type = "stream" /\ ~s.iw.html)
    BY <1>2 DEF Sound
  <2> QED
    BY <1>1, <2>1, FlushStreams
<1> QED
  BY <1>1, <1>2 DEF Sound

LEMMA SendSound ==
  ASSUME page \in BOOLEAN, dev \in BOOLEAN, NEW s, Sound(s), User("text") \in Seq(Chunk)
  PROVE  Sound(Send(s))
<1> DEFINE sent == Write(s, User("text"))
<1>1. Sound(sent)
  BY WriteSound
<1> HIDE DEF sent
<1>2. Sound(Flush(sent))
  BY <1>1, FlushSound
<1> QED
  BY <1>2 DEF Send, sent

\* An event stream that is opened on a fresh response streams.
LEMMA NewSSESound ==
  ASSUME page \in BOOLEAN, dev \in BOOLEAN, NEW s, Sound(s)
  PROVE  /\ Facts(NewSSE(s))
         /\ opened \/ (s.plain.status = 0 /\ ~s.iw.decided) => Streaming(NewSSE(s))
<1> DEFINE typed == SetHeader(s, "stream")
<1>1. Sound(typed)
  BY SetHeaderSound
<1>2. TypeSet(s, "stream", typed)
  BY SetHeaderEffect DEF Sound, Facts, Types
<1> HIDE DEF typed
<1>3. NewSSE(s) = Flush(typed)
  BY DEF NewSSE, typed
<1>4. Facts(Flush(typed))
  BY <1>1, FlushFacts DEF Sound
<1>5. ASSUME opened \/ (s.plain.status = 0 /\ ~s.iw.decided) PROVE Streaming(Flush(typed))
  <2>0. Facts(typed)
    BY <1>1 DEF Sound
  <2>1. CASE opened
    <3>1. Streaming(typed) \/ (typed.net.type = "stream" /\ ~typed.iw.html)
      BY <1>1, <2>1 DEF Sound
    <3> QED
      BY <2>0, <3>1, FlushStreams
  <2>2. CASE s.plain.status = 0 /\ ~s.iw.decided
    <3>1. typed.net.type = "stream" /\ ~typed.iw.html
      BY <1>2, <2>2 DEF TypeSet, Retypes, Sound, Facts, Bodies
    <3>2. Streaming(typed) \/ (typed.net.type = "stream" /\ ~typed.iw.html)
      BY <3>1
    <3> QED
      BY <2>0, <3>2, FlushStreams
  <2> QED
    BY <1>5, <2>1, <2>2
<1> QED
  BY <1>3, <1>4, <1>5

Running == pc \in {"handler", "render"}

\* While the handler runs.
RunInv == Running => Sound(out) /\ ~owed

\* When it has ended.
EndInv == ~Running => AnswerKept /\ FailureShown

\* What the response promises outlives a step that leaves the request as it is.
LEMMA SoundCarries ==
  ASSUME NEW s, Facts(s), opened' => Streaming(s), out' = s, page' = page, dev' = dev
  PROVE  Sound(out)'
<1>1. (opened => Streaming(out))'
  BY DEF Streaming, Without
<1>2. Quiet(out.net)' /\ Quiet(out.plain)' /\ (out \in Response)'
  BY DEF Facts
<1>3. Bodies(out)'
  BY DEF Facts, Bodies
<1>4. Untouched(out)'
  BY DEF Facts, Untouched
<1>5. Statuses(out)'
  BY DEF Facts, Statuses, Due, Without
<1>6. Typed(out)'
  BY DEF Facts, Typed, Without, Sniffs, Guessed, LooksHtml
<1>7. Held(out)'
  BY DEF Facts, Held, Without
<1> QED
  BY <1>1, <1>2, <1>3, <1>4, <1>5, <1>6, <1>7 DEF Sound, Facts

\* The error page stands for the rest of the answer.
LEMMA HttpErrorSound ==
  ASSUME page \in BOOLEAN, NEW s, Sound(s), Failure \in Seq(Chunk)
  PROVE  Sound(HttpError(s))
<1> PICK code \in Nat \ {0} : code = 500
  OBVIOUS
<1> DEFINE typed  == SetHeader(s, "text")
           headed == WriteHeader(typed, code)
<1>1. Sound(typed)
  BY SetHeaderSound
<1>2. Sound(headed)
  <2> HIDE DEF typed
  <2> QED
    BY <1>1, WriteHeaderSound
<1>3. HttpError(s) = Write(headed, Failure)
  BY DEF HttpError
<1> HIDE DEF headed
<1> QED
  BY <1>2, <1>3, WriteSound

\* The answer of a request that ends: what net/http would have sent.
LEMMA Answers ==
  ASSUME NEW s, Sound(s), Script \in Chunk, NEW who \in {"user", "template", "error"},
         WrittenBy(s.plain.body, who), End(s)
  PROVE  AnswerKept'
<1> DEFINE e == Sent(s)
<1>0. Facts(s)
  BY DEF Sound
<1>1. pc' = "ended" /\ out' = e /\ page' = page /\ dev' = dev /\ opened' = opened
  BY DEF End, Sent
<1>2. /\ e.plain.seen = s.plain.body
      /\ ~s.iw.html => e.net.seen = s.plain.body
      /\ s.iw.html => e.net.seen = Append(s.plain.body, Script)
      /\ e.odd = s.odd
  BY <1>0, SentSeen, SentEffect
<1>3. s.odd \cap {"earlyHints", "secondStatus", "flush"} = {} => e.net.status = e.plain.status
  <2> SUFFICES ASSUME s.odd \cap {"earlyHints", "secondStatus", "flush"} = {}
               PROVE  e.net.status = e.plain.status
    OBVIOUS
  <2>1. Without(s, {"earlyHints", "secondStatus", "flush"})
    BY DEF Without
  <2> QED
    BY <1>0, <2>1, SentStatus
<1>4. s.odd \cap Retyping = {} => e.net.seenType = e.plain.seenType
  <2> SUFFICES ASSUME s.odd \cap Retyping = {}
               PROVE  e.net.seenType = e.plain.seenType
    OBVIOUS
  <2>1. Without(s, Retyping)
    BY DEF Without
  <2> QED
    BY <1>0, <2>1, SentType
<1>5. s.odd \cap {"untypedStatus", "untypedFlush", "firstWrite", "lateType", "earlyHints"} = {} =>
        LET scripted == \E i \in DOMAIN e.net.seen : e.net.seen[i].by = "dev"
        IN  /\ scripted => dev /\ e.net.seenType = "html"
            /\ dev /\ e.net.seenType = "html" /\ e.plain.seen # <<>> => scripted
  <2> SUFFICES ASSUME s.odd \cap {"untypedStatus", "untypedFlush", "firstWrite", "lateType", "earlyHints"} = {}
               PROVE LET scripted == \E i \in DOMAIN e.net.seen : e.net.seen[i].by = "dev"
                     IN  /\ scripted => dev /\ e.net.seenType = "html"
                         /\ dev /\ e.net.seenType = "html" /\ e.plain.seen # <<>> => scripted
    OBVIOUS
  <2>1. Without(s, {"untypedStatus", "untypedFlush", "firstWrite", "lateType", "earlyHints"})
    BY DEF Without
  <2>2. \A i \in DOMAIN s.plain.body : s.plain.body[i].by # "dev"
    BY DEF WrittenBy
  <2> QED
    BY <1>0, <2>1, <2>2, SentScript
<1> HIDE DEF e
<1>6. Arrived(out.plain.seen)'
  BY <1>1, <1>2 DEF Arrived
<1>7. ScriptExact'
  BY <1>1, <1>2, <1>5 DEF ScriptExact, HasScript
<1> QED
  BY <1>1, <1>2, <1>3, <1>4, <1>6, <1>7 DEF AnswerKept, Retyping

\* A request that goes on keeps its answer.
LEMMA Keeps ==
  ASSUME Sound(out), Running
  PROVE  AnswerKept
<1>1. opened /\ ~(page /\ dev) /\ "lateType" \notin out.odd => out.net.seen = out.plain.seen
  BY DEF Sound, Streaming, Facts, Bodies, Without
<1> QED
  BY <1>1 DEF AnswerKept, ScriptExact, Running, Arrived

\* A page that fails before anything is committed shows it.
LEMMA Shows ==
  ASSUME page \in BOOLEAN, Sound(out), Fails,
         Failure \in Seq(Chunk), Script \in Chunk
  PROVE  FailureShown'
<1> SUFFICES ASSUME out.plain.status = 0, "earlyHints" \notin out'.odd
             PROVE  out'.net.seen = Failure /\ out'.net.status = 500 /\ out'.net.seenType = "text"
  BY DEF FailureShown, Fails
<1>0. Facts(out)
  BY DEF Sound
<1>1. out' = Sent(Failed(out))
  BY DEF Fails, End, Sent
<1>2. "earlyHints" \notin out.odd
  <2>1. CASE out.gw.committed \/ out.gw.body
    <3>1. out' = Sent(out)
      BY <1>1, <2>1 DEF Failed
    <3>2. Sent(out).odd = out.odd
      BY <1>0, SentEffect
    <3> QED
      BY <3>1, <3>2
  <2>2. CASE ~(out.gw.committed \/ out.gw.body)
    <3> DEFINE t == HttpError(out)
    <3>1. Facts(t) /\ Failed(out) = t
      BY <1>0, <2>2, HttpErrorFacts DEF Failed
    <3>2. \A w \in out.odd : w \in t.odd
      BY <1>0, HttpErrorOdd
    <3> HIDE DEF t
    <3>3. out'.odd = t.odd
      BY <1>1, <3>1, SentEffect
    <3> QED
      BY <3>2, <3>3
  <2> QED
    BY <2>1, <2>2
<1>3. ~out.gw.committed /\ ~out.gw.body
  BY <1>0, <1>2 DEF Facts, Untouched
<1> DEFINE t == HttpError(out)
<1>4. Failed(out) = t /\ Facts(t)
  BY <1>0, <1>3, HttpErrorFacts DEF Failed
<1>5. ~t.iw.html /\ t.net.status = 500 /\ t.net.head = "text" /\ t.plain.body = Failure
  BY <1>0, <1>2, HttpErrorAnswers
<1> HIDE DEF t
<1>6. Last(t.net, Sent(t).net) /\ Sent(t).net.seen = t.plain.body
  BY <1>4, <1>5, SentEffect, SentSeen
<1> QED
  BY <1>1, <1>4, <1>5, <1>6 DEF Last, Facts, Quiet

-----------------------------------------------------------------------------
(* The author of a body.                                                   *)

ShapeInv ==
  /\ pc \in {"handler", "render", "ended", "aborted"} /\ page \in BOOLEAN /\ dev \in BOOLEAN
  /\ out \in Response
  /\ rendered \in Seq(Chunk) /\ WrittenBy(rendered, "template")

\* gastroWriter's flag knows of every byte of a page.
FlagInv ==
  page /\ pc \in {"handler", "render"} => out.gw.body \/ out.plain.body = <<>>

\* Only the frontmatter writes before the template starts, and only a page that
\* has written nothing gets that far.
AuthorInv ==
  /\ pc = "handler" => WrittenBy(out.plain.body, "user")
  /\ pc = "render"  => page /\ WrittenBy(out.plain.body, "template")
  /\ OneAuthor

Authored == ShapeInv /\ FlagInv /\ AuthorInv

\* t has the bytes of s and then these, and of a page the flag says so.
Adds(s, t, bytes) ==
  /\ t \in Response
  /\ t.plain.body = s.plain.body \o bytes
  /\ s.gw.body => t.gw.body
  /\ page => t.gw.body \/ bytes = <<>>

\* t has the bytes of s.
Leaves(s, t) == t \in Response /\ t.plain.body = s.plain.body /\ t.gw.body = s.gw.body

LEMMA SetHeaderLeaves ==
  ASSUME NEW s \in Response, NEW type \in Types
  PROVE  Leaves(s, SetHeader(s, type))
BY SetHeaderEffect DEF Leaves, TypeSet, Retypes

LEMMA WriteHeaderLeaves ==
  ASSUME page \in BOOLEAN, NEW s \in Response, NEW code \in Nat
  PROVE  Leaves(s, WriteHeader(s, code))
BY WriteHeaderEffect, Parts, NetHeaderEffect DEF Leaves, HeaderWritten, Headed

LEMMA WriteAdds ==
  ASSUME page \in BOOLEAN, NEW s \in Response, NEW b \in Seq(Chunk)
  PROVE  Adds(s, Write(s, b), b)
<1> DEFINE t == Write(s, b)
<1>1. BytesWritten(s, b, t)
  BY WriteEffect
<1>2. Written(s.plain, b, NetWrite(s.plain, b))
  BY Parts, NetWriteEffect
<1> HIDE DEF t
<1>3. t.plain.body = s.plain.body \o b
  BY <1>1, <1>2 DEF BytesWritten, Written
<1> QED
  BY <1>1, <1>3 DEF BytesWritten, Adds, t

LEMMA FlushLeaves ==
  ASSUME page \in BOOLEAN, NEW s \in Response
  PROVE  Leaves(s, Flush(s))
<1> DEFINE t == Flush(s)
<1>1. SentSoFar(s, t)
  BY FlushEffect
<1>2. Flushed(s.plain, NetFlush(s.plain))
  BY Parts, NetFlushEffect
<1> HIDE DEF t
<1>3. t.plain.body = s.plain.body
  BY <1>1, <1>2 DEF SentSoFar, Flushed
<1> QED
  BY <1>1, <1>3 DEF SentSoFar, Leaves, t

LEMMA NewSSELeaves ==
  ASSUME page \in BOOLEAN, NEW s \in Response
  PROVE  Leaves(s, NewSSE(s))
<1> DEFINE typed == SetHeader(s, "stream")
<1>1. Leaves(s, typed)
  BY SetHeaderLeaves DEF Types
<1> HIDE DEF typed
<1>2. Leaves(typed, Flush(typed))
  BY <1>1, FlushLeaves DEF Leaves
<1> QED
  BY <1>1, <1>2 DEF NewSSE, Leaves, typed

LEMMA SendAdds ==
  ASSUME page \in BOOLEAN, NEW s \in Response
  PROVE  Adds(s, Send(s), User("text"))
<1> DEFINE sent == Write(s, User("text"))
<1>1. Adds(s, sent, User("text"))
  BY Pieces, WriteAdds DEF Kinds
<1> HIDE DEF sent
<1>2. Leaves(sent, Flush(sent))
  BY <1>1, FlushLeaves DEF Adds
<1> QED
  BY <1>1, <1>2 DEF Send, Adds, Leaves, sent

LEMMA HttpErrorAdds ==
  ASSUME page \in BOOLEAN, NEW s \in Response
  PROVE  Adds(s, HttpError(s), Failure)
<1> DEFINE typed  == SetHeader(s, "text")
           headed == WriteHeader(typed, 500)
<1>1. Leaves(s, typed)
  BY SetHeaderLeaves DEF Types
<1>2. Leaves(typed, headed)
  <2> HIDE DEF typed
  <2> QED
    BY <1>1, WriteHeaderLeaves DEF Leaves
<1>3. Adds(headed, Write(headed, Failure), Failure)
  <2> HIDE DEF headed
  <2> QED
    BY <1>2, Pieces, WriteAdds DEF Leaves
<1>4. HttpError(s) = Write(headed, Failure)
  BY DEF HttpError
<1> HIDE DEF typed, headed
<1> QED
  BY <1>1, <1>2, <1>3, <1>4 DEF Adds, Leaves

LEMMA SentBody ==
  ASSUME NEW s \in Response, Script \in Chunk
  PROVE  Sent(s) \in Response /\ Sent(s).plain.body = s.plain.body
<1> DEFINE flushed == IF dev THEN InjectFlush(s) ELSE s
           net     == NetFlush(flushed.net)
           plain   == NetFlush(flushed.plain)
<1>1. flushed \in Response /\ flushed.plain = s.plain
  BY InjectFlushEffect
<1>2. Sent(s) = [flushed EXCEPT !.net = net, !.plain = plain]
  BY DEF Sent
<1> HIDE DEF flushed
<1>3. net \in Answer /\ plain \in Answer /\ plain.body = s.plain.body
  BY <1>1, NetFlushEffect, Parts DEF Flushed
<1> HIDE DEF net, plain
<1> QED
  BY <1>1, <1>2, <1>3 DEF Response

\* A call of the frontmatter that writes nothing.
LEMMA LeavingCall ==
  ASSUME Authored, NEW s, Leaves(out, s), Call(s)
  PROVE  Authored'
<1>1. /\ out' = s /\ pc = "handler" /\ pc' = pc /\ page' = page /\ dev' = dev
      /\ rendered' = rendered
      /\ s \in Response /\ s.plain.body = out.plain.body /\ s.gw.body = out.gw.body
  BY DEF Call, Leaves
<1>2. ShapeInv'
  BY <1>1 DEF Authored, ShapeInv
<1>3. FlagInv'
  BY <1>1 DEF Authored, FlagInv
<1>4. AuthorInv'
  BY <1>1 DEF Authored, AuthorInv, OneAuthor
<1> QED
  BY <1>2, <1>3, <1>4 DEF Authored

\* A call of the frontmatter that writes.
LEMMA AddingCall ==
  ASSUME Authored, NEW s, NEW b \in Seq(Chunk), WrittenBy(b, "user"), Adds(out, s, b), Call(s)
  PROVE  Authored'
<1>1. /\ out' = s /\ pc = "handler" /\ pc' = pc /\ page' = page /\ dev' = dev
      /\ rendered' = rendered
      /\ s \in Response /\ s.plain.body = out.plain.body \o b
  BY DEF Call, Adds
<1>2. ShapeInv'
  BY <1>1 DEF Authored, ShapeInv
<1>3. out.plain.body \in Seq(Chunk)
  BY Parts DEF Authored, ShapeInv, Answer
<1>4. FlagInv'
  <2>1. CASE b = <<>>
    BY <1>1, <1>3, <2>1 DEF Authored, FlagInv, Adds
  <2>2. CASE b # <<>>
    BY <1>1, <2>2 DEF FlagInv, Adds
  <2> QED
    BY <2>1, <2>2
<1>5. WrittenBy(s.plain.body, "user")
  BY <1>1, <1>3, AuthorsJoin DEF Authored, AuthorInv
<1>6. WrittenBy(out'.plain.body, "user")
  BY <1>1, <1>5
<1>7. OneAuthor'
  BY <1>6, AuthorsAgree DEF OneAuthor
<1>8. AuthorInv'
  BY <1>1, <1>6, <1>7 DEF AuthorInv
<1> QED
  BY <1>2, <1>4, <1>8 DEF Authored

LEMMA CallsPreserve ==
  ASSUME Authored, CallSetHeader \/ CallWriteHeader \/ CallWrite \/ CallFlush \/ CallNewSSE \/ CallSend
  PROVE  Authored'
<1>0. out \in Response /\ page \in BOOLEAN
  BY DEF Authored, ShapeInv
<1>1. CASE CallSetHeader
  <2>1. PICK t \in {"html", "text"} : Call(SetHeader(out, t))
    BY <1>1 DEF CallSetHeader
  <2>2. t \in Types
    BY DEF Types
  <2> QED
    BY <1>0, <2>1, <2>2, SetHeaderLeaves, LeavingCall
<1>2. CASE CallWriteHeader
  BY <1>0, <1>2, WriteHeaderLeaves, LeavingCall DEF CallWriteHeader
<1>3. CASE CallWrite
  <2>1. PICK b \in {User(k) : k \in {"markup", "blank", "text"}} \cup {<<>>} : Call(Write(out, b))
    BY <1>3 DEF CallWrite
  <2>2. b \in Seq(Chunk) /\ WrittenBy(b, "user")
    <3>1. CASE b = <<>>
      BY <3>1 DEF WrittenBy
    <3>2. CASE b # <<>>
      BY <3>2, Pieces DEF Kinds
    <3> QED
      BY <3>1, <3>2
  <2> QED
    BY <1>0, <2>1, <2>2, WriteAdds, AddingCall
<1>4. CASE CallFlush
  BY <1>0, <1>4, FlushLeaves, LeavingCall DEF CallFlush
<1>5. CASE CallNewSSE
  BY <1>0, <1>5, NewSSELeaves, LeavingCall DEF CallNewSSE
<1>6. CASE CallSend
  <2>1. User("text") \in Seq(Chunk) /\ WrittenBy(User("text"), "user")
    BY Pieces DEF Kinds
  <2> QED
    BY <1>0, <1>6, <2>1, SendAdds, AddingCall DEF CallSend
<1> QED
  BY <1>1, <1>2, <1>3, <1>4, <1>5, <1>6

\* The handler returns with a body of one author.
LEMMA Ends ==
  ASSUME Authored, NEW s \in Response, NEW who, WrittenBy(s.plain.body, who), End(s),
         rendered' \in Seq(Chunk), WrittenBy(rendered', "template")
  PROVE  Authored'
<1>1. pc' = "ended" /\ page' = page /\ dev' = dev /\ out' = Sent(s)
  BY DEF End, Sent
<1>2. Sent(s) \in Response /\ Sent(s).plain.body = s.plain.body
  BY Pieces, SentBody
<1>3. WrittenBy(out'.plain.body, who)
  BY <1>1, <1>2
<1>4. OneAuthor'
  BY <1>3, AuthorsAgree DEF OneAuthor
<1>5. ShapeInv'
  BY <1>1, <1>2 DEF Authored, ShapeInv
<1>6. FlagInv' /\ AuthorInv'
  BY <1>1, <1>4 DEF FlagInv, AuthorInv
<1> QED
  BY <1>5, <1>6 DEF Authored

\* An error page is written by a page that has written nothing.
LEMMA FailurePreserves ==
  ASSUME Authored, page, pc \in {"handler", "render"}, Fails, UNCHANGED rendered
  PROVE  Authored'
<1>0. /\ out \in Response /\ page \in BOOLEAN /\ out.plain.body \in Seq(Chunk)
      /\ rendered' \in Seq(Chunk) /\ WrittenBy(rendered', "template")
  BY Parts DEF Authored, ShapeInv, Answer
<1>1. End(Failed(out))
  BY DEF Fails
<1>2. CASE out.gw.committed \/ out.gw.body
  <2>1. Failed(out) = out
    BY <1>2 DEF Failed
  <2>2. WrittenBy(out.plain.body, "user") \/ WrittenBy(out.plain.body, "template")
    BY DEF Authored, AuthorInv
  <2> QED
    BY <1>0, <1>1, <2>1, <2>2, Ends
<1>3. CASE ~(out.gw.committed \/ out.gw.body)
  <2>1. Failed(out) = HttpError(out)
    BY <1>3 DEF Failed
  <2>2. out.plain.body = <<>>
    BY <1>3 DEF Authored, FlagInv
  <2>3. HttpError(out) \in Response /\ HttpError(out).plain.body = Failure
    <3>1. HttpError(out) \in Response /\ HttpError(out).plain.body = out.plain.body \o Failure
      BY <1>0, HttpErrorAdds DEF Adds
    <3>2. <<>> \o Failure = Failure
      BY Pieces
    <3> QED
      BY <2>2, <3>1, <3>2
  <2> QED
    BY <1>0, <1>1, <2>1, <2>3, Pieces, Ends
<1> QED
  BY <1>2, <1>3

LEMMA AuthoredPreserved == Authored /\ [Next]_vars => Authored'
<1> SUFFICES ASSUME Authored, [Next]_vars PROVE Authored'
  OBVIOUS
<1>0. /\ out \in Response /\ page \in BOOLEAN /\ out.plain.body \in Seq(Chunk)
      /\ rendered \in Seq(Chunk) /\ WrittenBy(rendered, "template")
  BY Parts DEF Authored, ShapeInv, Answer
<1>1. CASE Panic
  <2>1. CASE page
    BY <1>1, <2>1, FailurePreserves DEF Panic
  <2>2. CASE ~page
    BY <1>1, <2>2 DEF Panic, Authored, ShapeInv, FlagInv, AuthorInv, OneAuthor
  <2> QED
    BY <2>1, <2>2
<1>2. CASE HandlerReturns
  BY <1>0, <1>2, Ends DEF HandlerReturns, Authored, AuthorInv
<1>3. CASE TemplateStarts
  <2>1. out.plain.body = <<>>
    BY <1>3 DEF TemplateStarts, Authored, FlagInv
  <2> QED
    BY <1>3, <2>1 DEF TemplateStarts, Authored, ShapeInv, FlagInv, AuthorInv, OneAuthor, WrittenBy
<1>4. CASE TemplateWrites
  <2>1. PICK kind \in {"markup", "blank", "text"} :
          LET chunk == [by |-> "template", kind |-> kind]
          IN  /\ rendered' = Append(rendered, chunk)
              /\ out' = IF binders THEN out ELSE Write(out, <<chunk>>)
    BY <1>4 DEF TemplateWrites
  <2> DEFINE chunk == [by |-> "template", kind |-> kind]
  <2>2. chunk \in Chunk /\ chunk.by = "template"
    BY DEF Chunk, Kinds
  <2>3. rendered' = Append(rendered, chunk) /\ out' = IF binders THEN out ELSE Write(out, <<chunk>>)
    BY <2>1
  <2> HIDE DEF chunk
  <2>4. <<chunk>> \in Seq(Chunk) /\ WrittenBy(<<chunk>>, "template")
    BY <2>2 DEF WrittenBy
  <2>5. rendered' \in Seq(Chunk) /\ WrittenBy(rendered', "template")
    <3>1. Append(rendered, chunk) = rendered \o <<chunk>>
      BY <1>0, <2>2
    <3>2. WrittenBy(rendered \o <<chunk>>, "template")
      BY <1>0, <2>4, AuthorsJoin
    <3>3. Append(rendered, chunk) \in Seq(Chunk)
      BY <1>0, <2>2
    <3> QED
      BY <2>3, <3>1, <3>2, <3>3
  <2>6. pc = "render" /\ pc' = pc /\ page' = page /\ dev' = dev /\ page
      /\ WrittenBy(out.plain.body, "template")
    BY <1>4 DEF TemplateWrites, Authored, AuthorInv
  <2>7. CASE binders
    BY <2>3, <2>5, <2>6, <2>7 DEF Authored, ShapeInv, FlagInv, AuthorInv, OneAuthor
  <2>8. CASE ~binders
    <3>1. Adds(out, out', <<chunk>>)
      BY <1>0, <2>3, <2>4, <2>8, WriteAdds
    <3>2. WrittenBy(out'.plain.body, "template")
      BY <1>0, <2>4, <2>6, <3>1, AuthorsJoin DEF Adds
    <3>3. out' \in Response /\ out'.gw.body
      BY <2>6, <3>1 DEF Adds
    <3>4. OneAuthor'
      BY <3>2, AuthorsAgree DEF OneAuthor
    <3> QED
      BY <2>5, <2>6, <3>2, <3>3, <3>4 DEF Authored, ShapeInv, FlagInv, AuthorInv
  <2> QED
    BY <2>7, <2>8
<1>5. CASE TemplateEnds
  <2>1. pc = "render" /\ rendered' = rendered /\ WrittenBy(out.plain.body, "template")
    BY <1>5 DEF TemplateEnds, Authored, AuthorInv
  <2>2. Adds(out, Write(out, rendered), rendered)
    BY <1>0, WriteAdds
  <2>3. WrittenBy(Write(out, rendered).plain.body, "template")
    BY <1>0, <2>1, <2>2, AuthorsJoin DEF Adds
  <2>4. CASE binders
    BY <1>0, <1>5, <2>1, <2>2, <2>3, <2>4, Ends DEF TemplateEnds, Adds
  <2>5. CASE ~binders
    BY <1>0, <1>5, <2>1, <2>5, Ends DEF TemplateEnds
  <2> QED
    BY <2>4, <2>5
<1>6. CASE TemplateFails
  BY <1>6, FailurePreserves DEF TemplateFails, Authored, AuthorInv
<1>7. CASE UNCHANGED vars
  BY <1>7 DEF vars, Authored, ShapeInv, FlagInv, AuthorInv, OneAuthor
<1> QED
  BY <1>1, <1>2, <1>3, <1>4, <1>5, <1>6, <1>7, CallsPreserve DEF Next

LEMMA AuthoredInitial == Init => Authored
<1> SUFFICES ASSUME Init PROVE Authored
  OBVIOUS
<1>1. Unsent \in Answer /\ Unsent.body = <<>>
  BY DEF Unsent, Answer, Types, Chunk
<1>2. Fresh \in Holding
  BY DEF Fresh, Holding, Chunk
<1>3. [committed |-> FALSE, body |-> FALSE] \in Flags
  BY DEF Flags
<1>4. out \in Response /\ out.plain.body = <<>>
  BY <1>1, <1>2, <1>3 DEF Init, Response
<1> QED
  BY <1>4 DEF Init, Authored, ShapeInv, FlagInv, AuthorInv, OneAuthor, WrittenBy

-----------------------------------------------------------------------------
(* The steps preserve the rest of the invariant.                           *)

\* All of it.
IInv == Authored /\ RunInv /\ EndInv

\* A request that goes on from a sound answer.
LEMMA Continues ==
  ASSUME NEW s, Facts(s), opened' => Streaming(s), out' = s, page' = page, dev' = dev,
         Running', ~owed'
  PROVE  (RunInv /\ EndInv)'
<1>1. Sound(out)'
  BY SoundCarries
<1> QED
  BY <1>1 DEF RunInv, EndInv

\* A request that ends with what a sound answer sends.
LEMMA Finishes ==
  ASSUME NEW s, Sound(s), NEW who \in {"user", "template", "error"}, WrittenBy(s.plain.body, who),
         End(s), FailureShown'
  PROVE  (RunInv /\ EndInv)'
<1>1. AnswerKept'
  BY Pieces, Answers
<1>2. ~Running'
  BY DEF End, Running
<1> QED
  BY <1>1, <1>2 DEF RunInv, EndInv

LEMMA CallsKeep ==
  ASSUME IInv, CallSetHeader \/ CallWriteHeader \/ CallWrite \/ CallFlush \/ CallNewSSE \/ CallSend
  PROVE  (RunInv /\ EndInv)'
<1>0. pc = "handler" /\ page \in BOOLEAN /\ dev \in BOOLEAN
  BY DEF IInv, Authored, ShapeInv, CallSetHeader, CallWriteHeader, CallWrite, CallFlush,
         CallNewSSE, CallSend, Call
<1>1. Sound(out) /\ ~owed
  BY <1>0 DEF IInv, RunInv, Running
<1>2. ASSUME NEW s, Facts(s), opened' => Streaming(s), Call(s) PROVE (RunInv /\ EndInv)'
  <2>1. out' = s /\ page' = page /\ dev' = dev /\ Running' /\ ~owed'
    BY <1>0, <1>1, <1>2 DEF Call, Running
  <2> QED
    BY <1>2, <2>1, Continues
<1>3. ASSUME NEW s, Sound(s), Call(s), UNCHANGED opened PROVE (RunInv /\ EndInv)'
  BY <1>2, <1>3 DEF Sound
<1>4. CASE CallSetHeader
  <2>1. PICK t \in {"html", "text", "stream"} : Call(SetHeader(out, t)) /\ UNCHANGED opened
    BY <1>4 DEF CallSetHeader
  <2> QED
    BY <1>1, <1>3, <2>1, SetHeaderSound
<1>5. CASE CallWriteHeader
  <2>1. PICK c \in Nat \ {0} : Call(WriteHeader(out, c)) /\ UNCHANGED opened
    BY <1>5 DEF CallWriteHeader
  <2> QED
    BY <1>0, <1>1, <1>3, <2>1, WriteHeaderSound
<1>6. CASE CallWrite
  <2>1. PICK b \in {User(k) : k \in {"markup", "blank", "text"}} \cup {<<>>} :
          Call(Write(out, b)) /\ UNCHANGED opened
    BY <1>6 DEF CallWrite
  <2>2. b \in Seq(Chunk)
    <3>1. CASE b = <<>>
      BY <3>1
    <3>2. CASE b # <<>>
      BY <3>2, Pieces DEF Kinds
    <3> QED
      BY <3>1, <3>2
  <2> QED
    BY <1>0, <1>1, <1>3, <2>1, <2>2, WriteSound
<1>7. CASE CallFlush
  BY <1>0, <1>1, <1>3, <1>7, FlushSound DEF CallFlush
<1>8. CASE CallNewSSE
  <2>1. Call(NewSSE(out))
    BY <1>8 DEF CallNewSSE
  <2>2. opened' => opened \/ (out.plain.status = 0 /\ ~out.iw.decided)
    <3>1. ASSUME out.plain = [Unsent EXCEPT !.type = out.plain.type] PROVE out.plain.status = 0
      BY <3>1 DEF Unsent
    <3> QED
      BY <1>8, <3>1 DEF CallNewSSE
  <2>3. Facts(NewSSE(out)) /\ (opened' => Streaming(NewSSE(out)))
    BY <1>0, <1>1, <2>2, NewSSESound
  <2> QED
    BY <1>2, <2>1, <2>3
<1>9. CASE CallSend
  <2>1. Sound(Send(out))
    BY <1>0, <1>1, Pieces, SendSound DEF Kinds
  <2> QED
    BY <1>3, <1>9, <2>1 DEF CallSend
<1> QED
  BY <1>4, <1>5, <1>6, <1>7, <1>8, <1>9

LEMMA FailureKeeps ==
  ASSUME IInv, page, pc \in {"handler", "render"}, Fails
  PROVE  (RunInv /\ EndInv)'
<1>0. /\ page \in BOOLEAN /\ Sound(out) /\ out \in Response /\ out.plain.body \in Seq(Chunk)
  BY Parts DEF IInv, Authored, ShapeInv, RunInv, Running, Answer
<1>1. End(Failed(out))
  BY DEF Fails
<1>2. FailureShown'
  BY <1>0, Pieces, Shows
<1>3. CASE out.gw.committed \/ out.gw.body
  <2>1. Failed(out) = out
    BY <1>3 DEF Failed
  <2>2. WrittenBy(out.plain.body, "user") \/ WrittenBy(out.plain.body, "template")
    BY DEF IInv, Authored, AuthorInv
  <2> QED
    BY <1>0, <1>1, <1>2, <2>1, <2>2, Finishes
<1>4. CASE ~(out.gw.committed \/ out.gw.body)
  <2> DEFINE t == HttpError(out)
  <2>1. Failed(out) = t
    BY <1>4 DEF Failed
  <2>2. Sound(t)
    BY <1>0, Pieces, HttpErrorSound
  <2>3. t.plain.body = Failure
    <3>1. out.plain.body = <<>> /\ <<>> \o Failure = Failure
      BY <1>4, Pieces DEF IInv, Authored, FlagInv
    <3> QED
      BY <1>0, <3>1, HttpErrorAdds DEF Adds
  <2> HIDE DEF t
  <2> QED
    BY <1>1, <1>2, <2>1, <2>2, <2>3, Pieces, Finishes
<1> QED
  BY <1>3, <1>4

LEMMA Preserved == IInv /\ [Next]_vars => IInv'
<1> SUFFICES ASSUME IInv, [Next]_vars PROVE (RunInv /\ EndInv)'
  BY AuthoredPreserved DEF IInv
<1>0. /\ page \in BOOLEAN /\ rendered \in Seq(Chunk) /\ WrittenBy(rendered, "template")
      /\ pc \in {"handler", "render"} => Sound(out) /\ ~owed
      /\ out \in Response /\ out.plain.body \in Seq(Chunk)
  BY Parts DEF IInv, Authored, ShapeInv, RunInv, Running, Answer
<1>1. CASE Panic
  <2>1. CASE page
    BY <1>1, <2>1, FailureKeeps DEF Panic
  <2>2. CASE ~page
    <3>1. /\ pc = "handler" /\ pc' = "aborted"
          /\ UNCHANGED <<page, dev, binders, calls, out, opened, owed>>
      BY <1>1, <2>2 DEF Panic
    <3>2. AnswerKept
      <4>1. Running /\ Sound(out)
        BY <1>0, <3>1 DEF Running
      <4> QED
        BY <4>1, Keeps
    <3>3. AnswerKept'
      BY <3>1, <3>2 DEF AnswerKept, ScriptExact, Arrived
    <3> QED
      BY <3>1, <3>3 DEF RunInv, EndInv, Running, FailureShown
  <2> QED
    BY <2>1, <2>2
<1>2. CASE HandlerReturns
  <2>1. pc = "handler" /\ Sound(out) /\ ~owed' /\ End(out) /\ WrittenBy(out.plain.body, "user")
    BY <1>0, <1>2 DEF HandlerReturns, IInv, Authored, AuthorInv
  <2>2. FailureShown'
    BY <2>1 DEF FailureShown
  <2> QED
    BY <2>1, <2>2, Finishes
<1>3. CASE TemplateStarts
  <2>1. /\ pc = "handler" /\ Running' /\ out' = out /\ page' = page /\ dev' = dev
        /\ opened' = opened /\ owed' = owed
    BY <1>3 DEF TemplateStarts, Running
  <2> QED
    BY <1>0, <2>1, Continues DEF Sound
<1>4. CASE TemplateWrites
  <2>1. PICK kind \in {"markup", "blank", "text"} :
          out' = IF binders THEN out ELSE Write(out, <<[by |-> "template", kind |-> kind]>>)
    BY <1>4 DEF TemplateWrites
  <2> DEFINE b == <<[by |-> "template", kind |-> kind]>>
  <2>2. b \in Seq(Chunk)
    <3>1. [by |-> "template", kind |-> kind] \in Chunk
      BY DEF Chunk, Kinds
    <3> QED
      BY <3>1
  <2>3. out' = IF binders THEN out ELSE Write(out, b)
    BY <2>1
  <2> HIDE DEF b
  <2>4. /\ pc = "render" /\ Running' /\ page' = page /\ dev' = dev
        /\ opened' = opened /\ owed' = owed
    BY <1>4 DEF TemplateWrites, Running
  <2>5. Sound(out')
    <3>1. CASE binders
      BY <1>0, <2>3, <2>4, <3>1
    <3>2. CASE ~binders
      BY <1>0, <2>2, <2>3, <2>4, <3>2, WriteSound
    <3> QED
      BY <3>1, <3>2
  <2> QED
    BY <1>0, <2>4, <2>5, Continues DEF Sound
<1>5. CASE TemplateEnds
  <2>1. /\ pc = "render" /\ Sound(out) /\ ~owed' /\ WrittenBy(out.plain.body, "template")
        /\ End(IF binders THEN Write(out, rendered) ELSE out)
    BY <1>0, <1>5 DEF TemplateEnds, IInv, Authored, AuthorInv
  <2>2. FailureShown'
    BY <2>1 DEF FailureShown
  <2>3. CASE binders
    <3>1. WrittenBy(Write(out, rendered).plain.body, "template")
      BY <1>0, <2>1, WriteAdds, AuthorsJoin DEF Adds
    <3>2. Sound(Write(out, rendered))
      BY <1>0, <2>1, WriteSound
    <3> QED
      BY <2>1, <2>2, <2>3, <3>1, <3>2, Finishes
  <2>4. CASE ~binders
    BY <2>1, <2>2, <2>4, Finishes
  <2> QED
    BY <2>3, <2>4
<1>6. CASE TemplateFails
  BY <1>6, FailureKeeps DEF TemplateFails, IInv, Authored, AuthorInv
<1>7. CASE UNCHANGED vars
  <2>1. (page = page' /\ dev = dev' /\ pc' = pc /\ out' = out /\ opened' = opened /\ owed' = owed)
    BY <1>7 DEF vars
  <2>2. CASE Running
    <3>1. Running' /\ ~owed' /\ Sound(out)
      BY <2>1, <2>2 DEF IInv, RunInv, Running
    <3> QED
      BY <2>1, <3>1, Continues DEF Sound
  <2>3. CASE ~Running
    BY <2>1, <2>3 DEF IInv, RunInv, EndInv, Running, AnswerKept, ScriptExact, HasScript, Arrived,
       FailureShown
  <2> QED
    BY <2>2, <2>3
<1> QED
  BY <1>1, <1>2, <1>3, <1>4, <1>5, <1>6, <1>7, CallsKeep DEF Next

LEMMA Initial == Init => IInv
<1> SUFFICES ASSUME Init PROVE RunInv /\ EndInv
  BY AuthoredInitial DEF IInv
<1>1. out \in Response /\ Running /\ ~owed /\ ~opened
  BY AuthoredInitial DEF Init, Authored, ShapeInv, Running
<1>2. /\ out.iw.decided = FALSE /\ out.iw.html = FALSE /\ out.iw.status = 0 /\ out.iw.buf = <<>>
      /\ out.net = Unsent /\ out.plain = Unsent /\ out.odd = {}
      /\ out.gw.committed = FALSE /\ out.gw.body = FALSE
  BY DEF Init, Fresh
<1>3. /\ Unsent.type = "none" /\ Unsent.status = 0 /\ Unsent.head = "none"
      /\ Unsent.body = <<>> /\ ~Unsent.sent /\ Unsent.seen = <<>> /\ Unsent.seenType = "none"
  BY DEF Unsent
<1>4. Quiet(out.net) /\ Quiet(out.plain) /\ Bodies(out) /\ Untouched(out)
  BY <1>2, <1>3 DEF Quiet, Bodies, Untouched
<1>5. Statuses(out) /\ Typed(out) /\ Held(out)
  BY <1>2, <1>3 DEF Statuses, Typed, Held, Sniffs, Headless
<1>6. Sound(out)
  BY <1>1, <1>4, <1>5 DEF Sound, Facts
<1> QED
  BY <1>1, <1>6 DEF RunInv, EndInv

LEMMA Inductive == Spec => []IInv
BY Initial, Preserved, PTL DEF Spec

-----------------------------------------------------------------------------
(* The theorems.                                                           *)

\* However many calls a frontmatter makes and however much the template
\* writes, the bytes of one response are the frontmatter's, the template's or
\* the error page's, and never of two of them (page_writer.go, recover.go).
THEOREM OneAuthorHolds == Spec => []OneAuthor
<1>1. IInv => OneAuthor
  BY DEF IInv, Authored, AuthorInv
<1> QED
  BY Inductive, <1>1, PTL

\* Whatever a page or a handler calls, in whichever order and however often,
\* the client gets the status, the type and the bytes that net/http would have
\* sent it for the same calls, the reload script apart, and the script is in
\* HTML and only there; events arrive as they are sent.  Only the calls that
\* AnswerKept names can break it (devreload.go, page_writer.go, sse.go).
THEOREM AnswerKeptHolds == Spec => []AnswerKept
<1>1. IInv => AnswerKept
  <2>1. CASE Running
    BY <2>1, Keeps DEF IInv, RunInv
  <2>2. CASE ~Running
    BY <2>2 DEF IInv, EndInv
  <2> QED
    BY <2>1, <2>2
<1> QED
  BY Inductive, <1>1, PTL

\* A page that fails before anything is committed answers 500 with the error
\* page, in its frontmatter, in its template or in a binder, in either mode and
\* after any calls that commit nothing (recover.go, page_writer.go).
THEOREM FailureShownHolds == Spec => []FailureShown
<1>1. IInv => FailureShown
  BY DEF IInv, EndInv, Running, FailureShown
<1> QED
  BY Inductive, <1>1, PTL
=============================================================================

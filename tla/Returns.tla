------------------------------ MODULE Returns ------------------------------
(***************************************************************************)
(* analysis.FindMissingReturns: a frontmatter that has written the         *)
(* response should return, or it goes on computing variables no template   *)
(* will read.  The check looks for a return later in the block of the      *)
(* write; Continues is where control may really go.                        *)
(*                                                                         *)
(* stmt s is a statement: a call with w as an argument, a method of w, a   *)
(* redirect, or a call that only touches the headers; assigned s is one    *)
(* whose result is kept.                                                   *)
(***************************************************************************)
EXTENDS Hoisting

\* Mutant: only a cookie is a header.
IsSetCookie(s) == s = "http.SetCookie"

IsHeaderMutation(s) == s \in {"w.Header", "http.SetCookie"}

\* Mutant: a redirect is no write of w.
IsWriteOfW(s) == ~IsHeaderMutation(s) /\ s \in {"f(w)", "w.Write", "w.Header", "http.SetCookie"}

\* isWriteSite; a redirect is known by its request, whatever its writer is called.
IsWriteSite(s) ==
  ~IsHeaderMutation(s) /\ s \in {"f(w)", "w.Write", "w.Header", "http.SetCookie", "http.Redirect"}

\* The frontmatter as the body of one function, each declaration a statement.
FunctionBody(fm) ==
  FlattenSeq([i \in DOMAIN fm |->
    IF fm[i].is \in Declared THEN <<<<"stmt", "declaration">>>> \o fm[i].code ELSE fm[i].code])

\* The block or clause token i is directly in, 0 for the function itself.
Parent(code, i) ==
  LET around == {k \in 1 .. i - 1 : /\ code[k][1] \in Blocks
                                    /\ \A m \in k .. i - 1 : Depth(code, m) >= Depth(code, k)}
  IN IF around = {} THEN 0 ELSE Max(around)

Matching(code, k) == Min({m \in k + 1 .. Len(code) : Depth(code, m) < Depth(code, k)})

\* The first return among the statements of block p.
FirstReturn(code, p) ==
  LET returns == {i \in DOMAIN code : code[i][1] = "return" /\ Parent(code, i) = p}
  IN IF returns = {} THEN 0 ELSE Min(returns)

\* A clause of a switch is no block of go/ast: what is in it is not looked at.
FindMissingReturns(fm) ==
  LET code == FunctionBody(fm) IN
  IF ~BodyParses(fm) THEN {}
  ELSE {i \in DOMAIN code : /\ code[i][1] = "stmt" /\ IsWriteSite(code[i][2])
                            /\ \A p \in {Parent(code, i)} \ {0} : code[p][1] # "case"
                            /\ ~(FirstReturn(code, Parent(code, i)) > i)
                            /\ ~(Parent(code, i) = 0 /\ i = Len(code))}

\* The line of the frontmatter each token of the function body is on.
FunctionBodyLines(fm) ==
  FlattenSeq([i \in DOMAIN fm |->
    [k \in 1 .. Len(fm[i].code) + (IF fm[i].is \in Declared THEN 1 ELSE 0) |-> i]])

MissingReturnLines(fm) == {FunctionBodyLines(fm)[i] : i \in FindMissingReturns(fm)}

-----------------------------------------------------------------------------
(* Where control goes.                                                     *)

\* The innermost loop or switch around token i.
Breaks(code, i) ==
  Max({k \in 1 .. i : /\ code[k][1] \in {"loop", "switch"}
                      /\ \A m \in k .. i : Depth(code, m) >= Depth(code, k)})

Successors(code, i) ==
  LET t == code[i][1]
      after(k) == Matching(code, k) + 1
      opener == {k \in 1 .. i - 1 : code[k][1] \in Blocks /\ Matching(code, k) = i}
  IN CASE t \in {"if", "loop"} -> {i + 1, after(i)}
       [] t = "switch" -> {k \in i + 1 .. Len(code) : code[k][1] = "case" /\ Parent(code, k) = i}
                          \cup {after(i)}
       [] t = "fn"     -> {after(i)}
       [] t = "return" -> {}
       [] t = "break"  -> {after(Breaks(code, i))}
       [] t = "end"    -> UNION {CASE code[k][1] = "fn"   -> {}
                                   [] code[k][1] = "loop" -> {k, i + 1}
                                   [] code[k][1] = "case" -> {after(Parent(code, k))}
                                   [] OTHER               -> {i + 1} : k \in opener}
       [] OTHER -> {i + 1}

\* Every place control can reach after token i.
Continues(code, i) ==
  LET reach[n \in 0 .. Len(code)] ==
        IF n = 0 THEN Successors(code, i)
        ELSE LET before == reach[n - 1]
             IN before \cup UNION {Successors(code, k) : k \in before \cap DOMAIN code}
  IN reach[Len(code)]

\* After the write at i another statement may run.
RunsOn(code, i) == \E k \in Continues(code, i) \cap DOMAIN code : code[k][1] # "end"

\* Control may leave the block of the write, or the function, without a return.
FallsOut(code, i) ==
  LET p == Parent(code, i)
  IN \E k \in Continues(code, i) : k >= (IF p = 0 THEN Len(code) + 1 ELSE Matching(code, p))

\* Control may leave a loop before it comes to the return after the write.
BreaksOut(code, i) ==
  \E k \in Continues(code, i) \cap DOMAIN code :
    /\ code[k][1] = "break"
    /\ \E m \in k .. Len(code) : code[m][1] = "return" /\ Parent(code, m) = Parent(code, i)

InCase(code, i) == Parent(code, i) # 0 /\ code[Parent(code, i)][1] = "case"
=============================================================================

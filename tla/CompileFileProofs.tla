-------------------------- MODULE CompileFileProofs --------------------------
(***************************************************************************)
(* For every file: the parser splits it where Go would, what its           *)
(* directives embed is what stands below them; and the props contract, for *)
(* every call and every declaration of Props: the two checks of a literal  *)
(* agree, and props that pass the check are shown.                         *)
(***************************************************************************)
EXTENDS CompileFile, FiniteSetTheorems, SequenceTheorems, WellFoundedInduction, TLAPS

-----------------------------------------------------------------------------
(* Sets of positions.                                                      *)

\* A set of naturals that is not empty has a least member.
LEMMA Smallest ==
  ASSUME NEW S \in SUBSET Nat, S # {}
  PROVE  Min(S) \in S /\ \A k \in S : Min(S) <= k
<1>0. S \subseteq Nat
  OBVIOUS
<1>1. \E x \in S : \A y \in S : ~(<<y, x>> \in OpToRel(<, Nat))
  BY <1>0, NatLessThanWellFounded, WFMin, Zenon
<1>2. \E x \in S : \A y \in S : x <= y
  <2>1. \A x, y \in S : x \in Nat /\ y \in Nat /\ (<<y, x>> \in OpToRel(<, Nat) <=> y < x)
    BY <1>0 DEF OpToRel
  <2>2. \A x, y \in Nat : ~(y < x) => x <= y
    OBVIOUS
  <2> QED
    BY <1>1, <2>1, <2>2, Zenon
<1> QED
  BY <1>2 DEF Min

\* One that is bounded has a greatest.
LEMMA Largest ==
  ASSUME NEW n \in Nat, NEW S \in SUBSET (0 .. n), S # {}
  PROVE  Max(S) \in S /\ \A k \in S : k <= Max(S)
<1> DEFINE T == {n - k : k \in S}
<1>1. T \in SUBSET Nat /\ T # {}
  <2>1. \A k \in S : k \in Nat /\ n - k \in Nat
    OBVIOUS
  <2> QED
    BY <2>1
<1>2. \E x \in T : \A y \in T : x <= y
  <2> HIDE DEF T
  <2> QED
    BY <1>1, Smallest
<1>3. \E k \in S : \A l \in S : k >= l
  <2>1. PICK k \in S : \A l \in S : n - k <= n - l
    BY <1>2
  <2>2. \A l \in S : l \in Int
    OBVIOUS
  <2> QED
    BY <2>1, <2>2
<1> QED
  BY <1>3 DEF Max

\* InOrder lists the members of a set: the rank of a member is a bijection.
LEMMA Listed ==
  ASSUME NEW S \in SUBSET Nat, IsFiniteSet(S)
  PROVE  /\ Cardinality(S) \in Nat
         /\ DOMAIN InOrder(S) = 1 .. Cardinality(S)
         /\ InOrder(S) \in Seq(S)
         /\ {InOrder(S)[k] : k \in DOMAIN InOrder(S)} = S
<1> DEFINE below(i) == {j \in S : j <= i}
           n        == Cardinality(S)
           rank     == [i \in S |-> Cardinality(below(i))]
<1>1. n \in Nat /\ IsFiniteSet(1 .. n) /\ Cardinality(1 .. n) = n
  BY FS_CardinalityType, FS_Interval
<1>2. \A i \in S : IsFiniteSet(below(i)) /\ below(i) # {} /\ Cardinality(below(i)) \in 1 .. n
  <2> TAKE i \in S
  <2>1. below(i) \in SUBSET S /\ i \in below(i)
    BY i <= i
  <2>2. IsFiniteSet(below(i)) /\ Cardinality(below(i)) <= n
    BY <2>1, FS_Subset
  <2>3. Cardinality(below(i)) \in Nat /\ Cardinality(below(i)) # 0
    BY <2>1, <2>2, FS_CardinalityType, FS_EmptySet
  <2> QED
    BY <1>1, <2>1, <2>2, <2>3
<1>3. \A i, j \in S : i < j => Cardinality(below(i)) # Cardinality(below(j))
  <2> TAKE i, j \in S
  <2> HAVE i < j
  <2>0. (\A k \in S : k <= i => k <= j) /\ j <= j /\ ~(j <= i)
    <3>1. i \in Nat /\ j \in Nat /\ \A k \in S : k \in Nat
      OBVIOUS
    <3> QED
      BY <3>1
  <2>1. below(i) \in SUBSET below(j) /\ j \in below(j) /\ j \notin below(i)
    BY <2>0, Zenon
  <2> QED
    BY <1>2, <2>1, FS_Subset
<1>4. rank \in Injection(S, 1 .. n)
  <2>1. rank \in [S -> 1 .. n]
    BY <1>2
  <2>2. \A i, j \in S : rank[i] = rank[j] => i = j
    BY <1>3
  <2> QED
    BY <2>1, <2>2 DEF Injection, IsInjective
<1>5. \A k \in 1 .. n : \E i \in S : rank[i] = k
  <2>1. rank \in Surjection(S, 1 .. n)
    <3> HIDE DEF rank, n
    <3> QED
      BY <1>1, <1>4, FS_Injection DEF n
  <2> QED
    BY <2>1 DEF Surjection
<1>6. \A k \in 1 .. n : InOrder(S)[k] \in S /\ rank[InOrder(S)[k]] = k
  BY <1>5 DEF InOrder
<1>7. \A i \in S : rank[i] \in 1 .. n /\ InOrder(S)[rank[i]] = i
  <2> TAKE i \in S
  <2>1. rank[i] \in 1 .. n
    BY <1>2
  <2>2. \A j \in S : rank[j] = rank[i] => j = i
    BY <1>3
  <2> HIDE DEF rank, n
  <2> QED
    BY <1>6, <2>1, <2>2
<1>8. DOMAIN InOrder(S) = 1 .. n
  BY DEF InOrder
<1> HIDE DEF rank, n
<1>9. InOrder(S) \in Seq(S)
  <2>1. InOrder(S) \in [1 .. n -> S]
    <3>1. \A k \in 1 .. n : (CHOOSE i \in S : Cardinality({j \in S : j <= i}) = k) \in S
      BY <1>6 DEF InOrder, n
    <3> QED
      BY <3>1 DEF InOrder, n
  <2> QED
    BY <1>1, <2>1
<1> QED
  BY <1>1, <1>6, <1>7, <1>8, <1>9 DEF n

-----------------------------------------------------------------------------
(* What the parser makes of the lines of a file.                           *)

\* A list by position is a sequence.
LEMMA ListIsSeq ==
  ASSUME NEW S, NEW n \in Nat, NEW list \in [1 .. n -> S]
  PROVE  list \in Seq(S)
  OBVIOUS

\* A stretch of the lines of a file.
LEMMA SubSeqSeq ==
  ASSUME NEW S, NEW ls \in Seq(S), NEW from \in Nat, NEW to \in Int, to <= Len(ls) + 1,
         NEW sub, sub = SubSeq(ls, from + 1, to - 1)
  PROVE  /\ sub \in Seq(S)
         /\ \A k \in DOMAIN sub :
              from + k \in DOMAIN ls /\ from + k < to /\ sub[k] = ls[from + k]
         /\ \A k \in from + 1 .. to - 1 : k - from \in DOMAIN sub
<1> DEFINE last == to - 1
<1>1. Len(ls) \in Nat /\ DOMAIN ls = 1 .. Len(ls) /\ from + 1 \in Int /\ last \in Int /\ last <= Len(ls)
  OBVIOUS
<1>2. \A i \in from + 1 .. last : ls[i] \in S
  BY <1>1
<1>3. /\ sub \in Seq(S)
      /\ Len(sub) = IF from + 1 <= last THEN last - (from + 1) + 1 ELSE 0
      /\ \A i \in 1 .. last - (from + 1) + 1 : sub[i] = ls[from + 1 + i - 1]
  <2> HIDE DEF last
  <2> QED
    BY <1>1, <1>2, SubSeqProperties DEF last
<1> HIDE DEF last
<1>4. DOMAIN sub = 1 .. Len(sub)
  BY <1>3
<1>5. \A k \in DOMAIN sub : /\ k \in 1 .. last - (from + 1) + 1 /\ from + 1 + k - 1 = from + k
                            /\ from + k \in DOMAIN ls /\ from + k <= last
  <2>1. ASSUME NEW len, len = Len(sub), NEW n, n = Len(ls), NEW k \in 1 .. len
        PROVE  /\ k \in 1 .. last - (from + 1) + 1 /\ from + 1 + k - 1 = from + k
               /\ from + k \in 1 .. n /\ from + k <= last
    BY <1>1, <1>3, <2>1
  <2> QED
    BY <1>1, <1>4, <2>1
<1>6. \A k \in from + 1 .. last : k - from \in DOMAIN sub
  BY <1>1, <1>3, <1>4
<1>7. \A k \in DOMAIN sub : k \in Nat /\ from + k < to
  <2>1. \A k \in DOMAIN sub : k \in Nat /\ from + k \in Int /\ from + k <= last
    BY <1>1, <1>3, <1>4, <1>5
  <2> QED
    BY <2>1 DEF last
<1> QED
  BY <1>3, <1>5, <1>6, <1>7 DEF last

\* splitSections: the frontmatter is a stretch of the file.
LEMMA SplitAtLines ==
  ASSUME NEW ls \in Seq(AnyLine), NEW o \in Nat, NEW c \in Int, c <= Len(ls) + 1
  PROVE  \E s \in {SplitAt(ls, o, c)} :
           /\ s.frontmatter \in Seq(AnyLine) /\ s.fmLine \in Nat
           /\ \A k \in DOMAIN s.frontmatter :
                s.fmLine + k - 1 \in DOMAIN ls /\ s.frontmatter[k] = ls[s.fmLine + k - 1]
<1> DEFINE sub  == SubSeq(ls, o + 1, c - 1)
           rest == SubSeq(ls, c + 1, Len(ls))
           s    == SplitAt(ls, o, c)
<1>1. /\ sub \in Seq(AnyLine)
      /\ \A k \in DOMAIN sub : o + k \in DOMAIN ls /\ sub[k] = ls[o + k]
  BY SubSeqSeq
<1>2. \/ s.frontmatter = <<>> /\ s.fmLine = 0
      \/ s.frontmatter = sub /\ s.fmLine = o + 1
  <2>1. \/ s = Split("empty frontmatter", <<>>, <<>>, 0, 0)
        \/ s = Split("", sub, rest, o + 1, c + 1)
    BY Zenon DEF SplitAt
  <2>2. /\ Split("empty frontmatter", <<>>, <<>>, 0, 0).frontmatter = <<>>
        /\ Split("empty frontmatter", <<>>, <<>>, 0, 0).fmLine = 0
    BY DEF Split
  <2> HIDE DEF s, sub, rest
  <2>3. CASE s = Split("", sub, rest, o + 1, c + 1)
    <3>1. s = [error |-> "", frontmatter |-> sub, body |-> rest, fmLine |-> o + 1, bodyLine |-> c + 1]
      BY <2>3, Zenon DEF Split
    <3> QED
      BY <3>1
  <2>4. CASE s = Split("empty frontmatter", <<>>, <<>>, 0, 0)
    BY <2>2, <2>4
  <2> QED
    BY <2>1, <2>3, <2>4
<1> HIDE DEF s, sub
<1>0. SUFFICES /\ s.frontmatter \in Seq(AnyLine) /\ s.fmLine \in Nat
               /\ \A k \in DOMAIN s.frontmatter :
                    s.fmLine + k - 1 \in DOMAIN ls /\ s.frontmatter[k] = ls[s.fmLine + k - 1]
  BY DEF s
<1>3. CASE s.frontmatter = <<>> /\ s.fmLine = 0
  BY <1>3
<1>4. CASE s.frontmatter = sub /\ s.fmLine = o + 1
  <2>1. \A k \in DOMAIN sub : k \in Nat /\ o + 1 + k - 1 = o + k
    BY <1>1
  <2> QED
    BY <1>1, <1>4, <2>1
<1> QED
  BY <1>2, <1>3, <1>4

LEMMA SplitLines ==
  ASSUME NEW ls \in Seq(AnyLine)
  PROVE  \E s \in {SplitSections(ls)} :
           /\ s.frontmatter \in Seq(AnyLine) /\ s.fmLine \in Nat
           /\ \A k \in DOMAIN s.frontmatter :
                s.fmLine + k - 1 \in DOMAIN ls /\ s.frontmatter[k] = ls[s.fmLine + k - 1]
<1>1. CASE OpenDelim(ls) = {}
  BY <1>1 DEF SplitSections, Split
<1>2. CASE OpenDelim(ls) # {}
  <2> DEFINE o == Min(OpenDelim(ls))
  <2>1. o \in DOMAIN ls /\ o \in Nat /\ Len(ls) \in Nat
    <3>1. OpenDelim(ls) \in SUBSET (DOMAIN ls) /\ OpenDelim(ls) \in SUBSET Nat
      BY DEF OpenDelim
    <3> QED
      BY <1>2, <3>1, Smallest
  <2>2. CASE CloseDelims(ls, o) = {}
    BY <1>2, <2>2 DEF SplitSections, SplitFrom, Split
  <2>3. CASE CloseDelims(ls, o) # {}
    <3> DEFINE c == Min(CloseDelims(ls, o))
    <3>1. SplitSections(ls) = SplitAt(ls, o, c)
      BY <1>2, <2>3 DEF SplitSections, SplitFrom
    <3> HIDE DEF o
    <3>2. CloseDelims(ls, o) \in SUBSET (o + 1 .. Len(ls)) /\ CloseDelims(ls, o) \in SUBSET Nat
      BY <2>1 DEF CloseDelims
    <3>3. c \in CloseDelims(ls, o)
      BY <2>3, <3>2, Smallest
    <3>4. c \in Int /\ c <= Len(ls) + 1
      BY <2>1, <3>2, <3>3
    <3> HIDE DEF c
    <3> QED
      BY <2>1, <3>1, <3>4, SplitAtLines
  <2> QED
    BY <2>2, <2>3
<1> QED
  BY <1>1, <1>2

\* stripImports keeps lines of the frontmatter.
LEMMA Stripped ==
  ASSUME NEW ls \in Seq(AnyLine)
  PROVE  StripImports(ls) \in Seq(DOMAIN ls)
<1> DEFINE kept == InOrder(Kept(ls))
           text == {k \in DOMAIN kept : ls[kept[k]].is # "blank"}
<1>1. kept \in Seq(DOMAIN ls)
  <2>1. Kept(ls) \in SUBSET (DOMAIN ls) /\ DOMAIN ls \in SUBSET Nat /\ IsFiniteSet(DOMAIN ls)
    <3>1. Len(ls) \in Nat /\ DOMAIN ls = 1 .. Len(ls)
      OBVIOUS
    <3>2. IsFiniteSet(1 .. Len(ls))
      BY <3>1, FS_Interval
    <3> QED
      BY <3>1, <3>2 DEF Kept
  <2>2. Kept(ls) \in SUBSET Nat /\ IsFiniteSet(Kept(ls))
    BY <2>1, FS_Subset
  <2>3. kept \in Seq(Kept(ls))
    BY <2>2, Listed
  <2> QED
    BY <2>1, <2>3
<1>2. StripImports(ls) = IF text = {} THEN <<>> ELSE SubSeq(kept, Min(text), Max(text))
  BY DEF StripImports, TrimBlank
<1>3. text # {} => Min(text) \in DOMAIN kept /\ Max(text) \in DOMAIN kept
  <2> SUFFICES ASSUME text # {}
               PROVE  Min(text) \in DOMAIN kept /\ Max(text) \in DOMAIN kept
    OBVIOUS
  <2> HIDE DEF kept
  <2>1. Len(kept) \in Nat /\ text \in SUBSET Nat /\ text \in SUBSET (0 .. Len(kept)) /\ text \in SUBSET (DOMAIN kept)
    BY <1>1
  <2> HIDE DEF text
  <2> QED
    BY <2>1, Smallest, Largest
<1> HIDE DEF kept, text
<1> QED
  <2>1. CASE text = {}
    BY <1>2, <2>1
  <2>2. CASE text # {}
    <3> DEFINE from == Min(text)
               to   == Max(text)
    <3>1. from \in DOMAIN kept /\ to \in DOMAIN kept
      BY <1>3, <2>2
    <3>2. StripImports(ls) = SubSeq(kept, from, to)
      BY <1>2, <2>2
    <3> HIDE DEF from, to
    <3>3. from \in Int /\ to \in Int /\ \A k \in from .. to : kept[k] \in DOMAIN ls
      BY <1>1, <3>1
    <3>4. SubSeq(kept, from, to) \in Seq(DOMAIN ls)
      BY <3>3, SubSeqProperties
    <3> QED
      BY <3>2, <3>4
  <2> QED
    BY <2>1, <2>2

\* Every line of the frontmatter is the line of the file that origin says.
LEMMA ParsedLines ==
  ASSUME NEW ls \in Seq(AnyLine)
  PROVE  \E p \in {Parse(ls)} :
           /\ p.frontmatter \in Seq(AnyLine)
           /\ DOMAIN p.origin = DOMAIN p.frontmatter
           /\ \A k \in DOMAIN p.origin : p.origin[k] \in DOMAIN ls /\ p.frontmatter[k] = ls[p.origin[k]]
<1> DEFINE s    == SplitSections(ls)
           fm   == s.frontmatter
           kept == StripImports(fm)
<1>1. /\ fm \in Seq(AnyLine) /\ s.fmLine \in Nat
      /\ \A k \in DOMAIN fm : s.fmLine + k - 1 \in DOMAIN ls /\ fm[k] = ls[s.fmLine + k - 1]
  BY SplitLines
<1>2. /\ Parse(ls).frontmatter = [k \in DOMAIN kept |-> fm[kept[k]]]
      /\ Parse(ls).origin = [k \in DOMAIN kept |-> s.fmLine + kept[k] - 1]
  BY DEF Parse, ParseSections, Parsed
<1> HIDE DEF fm
<1>3. kept \in Seq(DOMAIN fm)
  BY <1>1, Stripped
<1> HIDE DEF s, kept
<1>4. [k \in DOMAIN kept |-> fm[kept[k]]] \in Seq(AnyLine)
  <2>1. Len(kept) \in Nat /\ DOMAIN kept = 1 .. Len(kept)
    BY <1>3
  <2>2. \A k \in DOMAIN kept : kept[k] \in DOMAIN fm /\ fm[kept[k]] \in AnyLine
    BY <1>1, <1>3
  <2>3. [k \in DOMAIN kept |-> fm[kept[k]]] \in [1 .. Len(kept) -> AnyLine]
    BY <2>1, <2>2
  <2> DEFINE lines == [k \in DOMAIN kept |-> fm[kept[k]]]
             n     == Len(kept)
  <2>4. n \in Nat /\ lines \in [1 .. n -> AnyLine]
    BY <2>1, <2>3
  <2> HIDE DEF lines, n
  <2>5. lines \in Seq(AnyLine)
    BY <2>4, ListIsSeq
  <2> QED
    BY <2>5 DEF lines
<1>5. \A k \in DOMAIN kept : kept[k] \in DOMAIN fm /\ kept[k] \in Nat
  <2>1. \A k \in DOMAIN kept : kept[k] \in DOMAIN fm
    BY <1>3
  <2>2. DOMAIN fm \subseteq Nat
    BY <1>1
  <2> HIDE DEF fm
  <2> QED
    BY <2>1, <2>2
<1>6. \A k \in DOMAIN kept :
        s.fmLine + kept[k] - 1 \in DOMAIN ls /\ fm[kept[k]] = ls[s.fmLine + kept[k] - 1]
  BY <1>1, <1>5
<1> HIDE DEF fm, kept
<1> QED
  BY <1>2, <1>4, <1>6

-----------------------------------------------------------------------------
(* Which variable a directive belongs to.                                  *)

\* The group of a comment: nothing but comments from the comment to its ends.
LEMMA Grouping ==
  ASSUME NEW fm \in Seq(AnyLine), NEW i \in Comments(fm)
  PROVE  /\ Max(Group(fm, i)) \in Comments(fm) /\ Max(Group(fm, i)) \in Nat /\ i <= Max(Group(fm, i))
         /\ i .. Max(Group(fm, i)) \subseteq Comments(fm)
<1> DEFINE G == Group(fm, i)
<1>1. /\ Len(fm) \in Nat /\ DOMAIN fm = 1 .. Len(fm) /\ Comments(fm) \subseteq DOMAIN fm
      /\ i \in Nat
  BY DEF Comments
<1>2. i \in G
  <2>1. (i .. i) \cup (i .. i) = {i}
    BY <1>1
  <2> QED
    BY <2>1 DEF Group, Run
<1>3. G \in SUBSET (0 .. Len(fm)) /\ G # {}
  BY <1>1, <1>2 DEF Group, Run
<1>4. Max(G) \in G /\ \A k \in G : k <= Max(G)
  <2> HIDE DEF G
  <2> QED
    BY <1>1, <1>3, Largest
<1>5. \A j \in G : j \in Comments(fm) /\ (i .. j) \subseteq Comments(fm)
  BY DEF Group, Run
<1> QED
  BY <1>1, <1>2, <1>4, <1>5

\* The variable below a directive: no statement lies between the two.
Below(fm, i) == {d \in VarDecls(fm) : d > i /\ \A j \in i + 1 .. d - 1 : j \notin Statements(fm)}

\* It is the one go/ast attaches the directive to, if it attaches it to one below.
LEMMA Attached ==
  ASSUME NEW fm \in Seq(AnyLine), NEW i \in Directives(fm), NEW d
  PROVE  d \in VarDecls(fm) /\ Owner(fm, i) = d <=> ~Trailing(fm, i) /\ d \in Below(fm, i)
<1> DEFINE S     == Statements(fm)
           last  == Max(Group(fm, i))
           after == {j \in S : j > last}
<1>1. /\ i \in Comments(fm) /\ i \in Nat
      /\ S \subseteq Nat /\ S \cap Comments(fm) = {} /\ VarDecls(fm) \subseteq S
  <2>1. Len(fm) \in Nat /\ DOMAIN fm = 1 .. Len(fm)
    OBVIOUS
  <2> QED
    BY <2>1 DEF Statements, Comments, Directives, VarDecls
<1>2. last \in Nat /\ i <= last /\ i .. last \subseteq Comments(fm)
  BY <1>1, Grouping
<1>3. Owner(fm, i) = IF after = {} \/ Trailing(fm, i) THEN 0 ELSE Min(after)
  BY DEF Owner, OwnerOf, Trailing
<1>4. Below(fm, i) = {e \in VarDecls(fm) : e > i /\ \A j \in i + 1 .. e - 1 : j \notin S}
  BY DEF Below
<1> HIDE DEF S, last
<1>5. \A j \in S : j > i <=> j > last
  BY <1>1, <1>2
<1>6. ASSUME NEW e \in VarDecls(fm)
      PROVE  e \in Below(fm, i) <=> e \in after /\ \A j \in after : e <= j
  <2>1. e \in S /\ e \in Nat
    BY <1>1
  <2>2. e \in Below(fm, i) <=> e > i /\ \A j \in S : j > i => e <= j
    <3>1. (\A j \in i + 1 .. e - 1 : j \notin S) <=> \A j \in S : j > i => e <= j
      BY <1>1, <2>1
    <3> QED
      BY <1>4, <3>1
  <2> QED
    BY <1>5, <2>1, <2>2
<1>7. after # {} => Min(after) \in after /\ \A j \in after : Min(after) <= j
  <2>1. after \in SUBSET Nat
    BY <1>1
  <2> HIDE DEF after
  <2> QED
    BY <2>1, Smallest
<1>8. \A e \in VarDecls(fm) : e # 0 /\ e \in Nat
  BY DEF VarDecls
<1>9. \A e, f \in after : (e <= f /\ f <= e) => e = f
  BY <1>1
<1> HIDE DEF after
<1>10. CASE Trailing(fm, i) \/ after = {}
  BY <1>3, <1>4, <1>6, <1>8, <1>10
<1>11. CASE ~Trailing(fm, i) /\ after # {}
  BY <1>3, <1>4, <1>6, <1>7, <1>9, <1>11
<1> QED
  BY <1>10, <1>11

\* The rewrite of one variable swallows no other.
LEMMA NoneSwallowed ==
  ASSUME NEW fm \in Seq(AnyLine), NEW d \in Candidates(fm), NEW e \in Candidates(fm)
  PROVE  e \notin Swallowed(fm, d)
<1> DEFINE m     == Min(Above(fm, d))
           last  == Max(Group(fm, m))
           after == {j \in Statements(fm) : j > last}
<1>1. Above(fm, d) \in SUBSET Nat /\ Above(fm, d) # {} /\ Above(fm, d) \subseteq Comments(fm)
  <2>1. Comments(fm) \subseteq Nat
    BY DEF Comments
  <2> QED
    BY <2>1 DEF Candidates, Claimed, Above
<1>2. m \in Above(fm, d)
  BY <1>1, Smallest
<1>3. m \in Comments(fm) /\ Owner(fm, m) = d
  BY <1>2 DEF Above
<1> HIDE DEF m
<1>4. last \in Nat
  BY <1>3, Grouping
<1>5. d # 0 /\ d \in Nat /\ e \in Statements(fm) /\ e \in Nat
  BY DEF Candidates, VarDecls, Statements
<1>6. after # {} /\ d = Min(after)
  BY <1>3, <1>5 DEF Owner, OwnerOf
<1>7. \A j \in after : d <= j
  <2>1. after \in SUBSET Nat
    BY DEF Statements
  <2> HIDE DEF after
  <2> QED
    BY <1>6, <2>1, Smallest
<1>8. Swallowed(fm, d) = last + 1 .. d - 1
  BY DEF Swallowed, LeadingDoc, m
<1> HIDE DEF last
<1> QED
  BY <1>4, <1>5, <1>7, <1>8

\* What a pass returns when it has found nothing.
Fine(r) == r.error = ""

\* ProcessEmbedDirectives, of directives that are all in order: it bakes the
\* variables that directives are attached to, and nothing else.
LEMMA BakedOwn ==
  ASSUME NEW fm \in Seq(AnyLine), Parses(fm),
         NEW r, r = ProcessEmbedDirectives(fm), Fine(r)
  PROVE  {r.from[k] : k \in {j \in DOMAIN r.frontmatter : r.frontmatter[j].form = "baked"}} = Candidates(fm)
<1>0. Len(fm) \in Nat /\ DOMAIN fm = 1 .. Len(fm)
  OBVIOUS
<1>1. Candidates(fm) \in SUBSET Nat /\ Candidates(fm) \subseteq DOMAIN fm
  BY <1>0 DEF Candidates, VarDecls
<1> DEFINE D       == Candidates(fm)
           faults  == {d \in D : EmbedFault(fm, d) # ""}
           K       == {i \in DOMAIN fm : \A d \in D : i \notin Swallowed(fm, d)}
           gone    == UNION {LeadingDoc(fm, d) \cap Directives(fm) : d \in D}
           kept    == InOrder(K)
           line(i) == CASE i \in D -> BuildEmbedDecl(fm[i])
                        [] i \in gone -> Bare("blank")
                        [] OTHER      -> fm[i]
           lines   == [k \in DOMAIN kept |-> line(kept[k])]
<1>2. r = RewriteUnlessFaulty(fm, D, faults)
  BY DEF ProcessEmbedDirectives
<1>3. faults = {}
  <2> SUFFICES ASSUME faults # {} PROVE FALSE
    OBVIOUS
  <2>1. Min(faults) \in faults
    <3>1. faults \in SUBSET Nat
      BY <1>1
    <3> HIDE DEF faults
    <3> QED
      BY <3>1, Smallest
  <2>2. EmbedFault(fm, Min(faults)) # ""
    BY <2>1
  <2>3. r.error = EmbedFault(fm, Min(faults))
    <3>1. r = Rewritten(EmbedFault(fm, Min(faults)), <<>>, <<>>, {})
      <4> HIDE DEF faults, D
      <4> QED
        BY <1>2 DEF RewriteUnlessFaulty
    <3> HIDE DEF faults, D
    <3> QED
      BY <3>1 DEF Rewritten
  <2> QED
    BY <2>2, <2>3, Zenon DEF Fine
<1>4. r = RewriteEmbeds(fm, D, kept, gone)
  BY <1>2, <1>3 DEF RewriteUnlessFaulty
<1>5. K \in SUBSET (DOMAIN fm) /\ D \subseteq K
  <2> HIDE DEF D
  <2>1. \A d, e \in D : e \notin Swallowed(fm, d)
    BY NoneSwallowed DEF D
  <2> QED
    BY <1>1, <2>1 DEF D
<1>6. kept \in Seq(K) /\ {kept[k] : k \in DOMAIN kept} = K
  <2>1. IsFiniteSet(DOMAIN fm) /\ DOMAIN fm \in SUBSET Nat
    <3> HIDE DEF kept, lines, gone, K, faults, D
    <3> QED
      BY <1>0, FS_Interval
  <2> HIDE DEF K
  <2>2. K \in SUBSET Nat /\ IsFiniteSet(K)
    BY <1>5, <2>1, FS_Subset
  <2> QED
    BY <2>2, Listed
<1>7a. D \cap gone = {}
  BY DEF Candidates, VarDecls, Directives
<1>7. \A i \in K : line(i).form = "baked" <=> i \in D
  <2> TAKE i \in K
  <2>1. fm[i] \in AnyLine
    <3> HIDE DEF K, D
    <3> QED
      BY <1>0, <1>5
  <2>2. BuildEmbedDecl(fm[i]).form = "baked"
    BY <2>1 DEF BuildEmbedDecl, AnyLine
  <2>3. Bare("blank").form # "baked" /\ fm[i].form # "baked"
    BY <2>1 DEF Bare, Line, AnyLine
  <2> HIDE DEF D, gone
  <2> QED
    BY <1>7a, <2>2, <2>3
<1>8. r.frontmatter = lines /\ r.from = kept
  <2> HIDE DEF D, gone, kept
  <2>1. r = Rewritten("", lines, kept, EmbedDeps(fm))
    BY <1>4, Zenon DEF RewriteEmbeds
  <2> HIDE DEF lines
  <2>2. \E error, deps : r = [error |-> error, frontmatter |-> lines, from |-> kept, deps |-> deps]
    BY <2>1, Zenon DEF Rewritten
  <2> QED
    BY <2>2
<1>9. {kept[k] : k \in {j \in DOMAIN kept : lines[j].form = "baked"}} = D
  <2>1. \A j \in DOMAIN kept : kept[j] \in K /\ lines[j] = line(kept[j])
    BY <1>6
  <2>2. \A j \in DOMAIN kept : lines[j].form = "baked" <=> kept[j] \in D
    <3> HIDE DEF lines, line, kept, K, D
    <3> QED
      BY <1>7, <2>1
  <2> HIDE DEF lines, kept, K, D, line
  <2> QED
    BY <1>5, <1>6, <2>2
<1> HIDE DEF kept, D
<1>10. DOMAIN lines = DOMAIN kept
  OBVIOUS
<1> HIDE DEF lines
<1> QED
  BY <1>8, <1>9, <1>10 DEF D

PassInv ==
  /\ \E part \in Parts : file \in FilesOf(part)
  /\ stage # "parse" => parsed = Parse(file.lines)
  /\ stage = "analyze" => embeds = ProcessEmbedDirectives(parsed.frontmatter) /\ Fine(embeds)

\* What a pass has made of the file stays what it was.
LEMMA NextPass == PassInv /\ [Next]_vars => PassInv'
<1> SUFFICES ASSUME PassInv, [Next]_vars
             PROVE  PassInv'
  OBVIOUS
<1> USE DEF PassInv
<1>1. CASE ParseFile
  BY <1>1 DEF ParseFile, Fail
<1>2. CASE ExpandEmbeds
  BY <1>2 DEF ExpandEmbeds, Fail, Fine
<1>3. CASE Analyze
  BY <1>3 DEF Analyze, Fail
<1>4. CASE Validate \/ Generate
  BY <1>4 DEF Validate, Generate, Fail
<1>5. CASE GoBuild \/ Start
  BY <1>5 DEF GoBuild, Start
<1>6. CASE OpenInEditor \/ \E dev \in BOOLEAN : Render(dev)
  BY <1>6 DEF OpenInEditor, Render
<1>7. CASE UNCHANGED vars
  BY <1>7 DEF vars
<1> QED
  BY <1>1, <1>2, <1>3, <1>4, <1>5, <1>6, <1>7 DEF Next

\* It is right below, or loosely.
LEMMA Adjacent ==
  ASSUME NEW fm \in Seq(AnyLine), NEW i \in Directives(fm), NEW d
  PROVE  ~Trailing(fm, i) /\ d \in Below(fm, i) <=> d \in RightBelow(fm, i) \cup LooselyBelow(fm, i)
<1> DEFINE last == Max(Group(fm, i))
<1>1. /\ i \in Comments(fm) /\ i \in Nat
      /\ VarDecls(fm) \subseteq Nat /\ VarDecls(fm) \subseteq Statements(fm)
      /\ Statements(fm) \cap Comments(fm) = {}
  <2>1. Len(fm) \in Nat /\ DOMAIN fm = 1 .. Len(fm)
    OBVIOUS
  <2> QED
    BY <2>1 DEF Statements, Comments, Directives, VarDecls
<1>2. last \in Nat /\ i <= last /\ i .. last \subseteq Comments(fm)
  BY <1>1, Grouping
<1>3. d \in RightBelow(fm, i) <=> d \in VarDecls(fm) /\ d = last + 1
  BY DEF RightBelow
<1>4. d \in LooselyBelow(fm, i) <=> ~Trailing(fm, i) /\ d > last + 1 /\ d \in Below(fm, i)
  BY <1>1, <1>2 DEF LooselyBelow, Below
<1>5. d \in VarDecls(fm) /\ d = last + 1 => ~Trailing(fm, i)
  BY <1>1 DEF Trailing
<1> HIDE DEF last
<1>6. d \in VarDecls(fm) /\ d = last + 1 => d \in Below(fm, i)
  BY <1>1, <1>2 DEF Below
<1>7. d \in Below(fm, i) => d \in VarDecls(fm) /\ d > last
  <2> SUFFICES ASSUME d \in Below(fm, i) PROVE d > last
    BY DEF Below
  <2>1. d \in VarDecls(fm) /\ d > i
    BY DEF Below
  <2>2. d \notin i .. last
    BY <1>1, <1>2, <2>1
  <2> QED
    BY <1>1, <1>2, <2>1, <2>2
<1> QED
  BY <1>1, <1>2, <1>3, <1>4, <1>5, <1>6, <1>7

\* Into every variable right below a directive something is embedded, and into no
\* other line (ProcessEmbedDirectives, embed.go), whatever comments, blank lines
\* and declarations the frontmatter has; but, against the documents, into one
\* below blank lines too.
THEOREM EmbedsHonouredHolds == Spec => []EmbedsHonoured
<1>1. Init => PassInv
  BY DEF Init, PassInv
<1>2. PassInv => EmbedsHonoured
  <2> SUFFICES ASSUME PassInv, stage = "analyze", Parses(Frontmatter)
               PROVE  Baked = UNION {RightBelow(Frontmatter, i) \cup LooselyBelow(Frontmatter, i) :
                                       i \in Directives(Frontmatter)}
    BY DEF EmbedsHonoured
  <2>1. Frontmatter \in Seq(AnyLine)
    <3>1. file.lines \in Seq(AnyLine)
      BY CompileFileAssumption DEF PassInv, CompileFileAssumption
    <3> QED
      BY <3>1, ParsedLines DEF PassInv, Frontmatter
  <2>2. embeds = ProcessEmbedDirectives(Frontmatter) /\ Fine(embeds)
    BY DEF PassInv, Frontmatter
  <2> DEFINE fm == Frontmatter
  <2> HIDE DEF fm
  <2>3. Baked = Candidates(fm)
    BY <2>1, <2>2, BakedOwn DEF Baked, Code, fm
  <2>4. Candidates(fm) = UNION {RightBelow(fm, i) \cup LooselyBelow(fm, i) : i \in Directives(fm)}
    <3>1. \A d : d \in Candidates(fm) <=> d \in VarDecls(fm) /\ \E i \in Directives(fm) : Owner(fm, i) = d
      BY DEF Candidates, Claimed, Above, Directives, Comments
    <3>2. \A d : \A i \in Directives(fm) :
            d \in VarDecls(fm) /\ Owner(fm, i) = d <=> ~Trailing(fm, i) /\ d \in Below(fm, i)
      BY <2>1, Attached DEF fm
    <3>3. \A d : \A i \in Directives(fm) :
            ~Trailing(fm, i) /\ d \in Below(fm, i) <=> d \in RightBelow(fm, i) \cup LooselyBelow(fm, i)
      BY <2>1, Adjacent DEF fm
    <3>4. \A d : d \in Candidates(fm) <=>
                 \E i \in Directives(fm) : d \in RightBelow(fm, i) \cup LooselyBelow(fm, i)
      BY <3>1, <3>2, <3>3
    <3> QED
      BY <3>4
  <2> QED
    BY <2>3, <2>4 DEF fm
<1> QED
  BY <1>1, <1>2, NextPass, PTL DEF Spec

\* Two functions on positions are equal when each value follows from the one before.
LEMMA Alike ==
  ASSUME NEW n \in Nat, NEW V, NEW f \in [1 .. n + 1 -> V], NEW g \in [1 .. n + 1 -> V],
         f[1] = g[1],
         \A i \in 1 .. n : f[i] = g[i] => f[i + 1] = g[i + 1]
  PROVE  f = g
<1> DEFINE differ == {i \in 1 .. n + 1 : f[i] # g[i]}
           m      == Min(differ)
<1>1. SUFFICES ASSUME differ # {}
               PROVE  FALSE
  <2>1. CASE differ = {}
    <3>1. \A i \in 1 .. n + 1 : f[i] = g[i]
      BY <2>1
    <3> QED
      BY <3>1
  <2> QED
    BY <2>1
<1>2. m \in differ /\ \A i \in differ : m <= i /\ i \in Int
  <2>1. differ \in SUBSET Nat
    OBVIOUS
  <2> HIDE DEF differ
  <2> QED
    BY <1>1, <2>1, Smallest
<1>3. m \in 1 .. n + 1 /\ f[m] # g[m] /\ m - 1 \notin differ
  <2>1. m \in 1 .. n + 1 /\ f[m] # g[m]
    BY <1>2
  <2> HIDE DEF differ, m
  <2> QED
    BY <1>2, <2>1
<1> HIDE DEF m
<1>4. m - 1 \in 1 .. n /\ f[m - 1] = g[m - 1] /\ (m - 1) + 1 = m
  <2>1. m # 1
    BY <1>3
  <2> QED
    BY <1>3, <2>1
<1> QED
  BY <1>3, <1>4

-----------------------------------------------------------------------------
(* Where the parser and Go see a raw string.                               *)

\* A line with an odd number of backticks changes what the next line begins in.
LEMMA Ticks ==
  ASSUME NEW ls \in Seq(AnyLine), NEW i \in DOMAIN ls
  PROVE  InString(ls, i + 1) <=> (InString(ls, i) <=> ~HasUnclosedBacktick(ls[i]))
<1> DEFINE ticks(k) == {j \in 1 .. k - 1 : HasUnclosedBacktick(ls[j])}
<1>0. i \in Nat
  OBVIOUS
<1>2. IsFiniteSet(ticks(i)) /\ Cardinality(ticks(i)) \in Nat /\ i \notin ticks(i)
  <2>1. ticks(i) \in SUBSET (1 .. i - 1) /\ i \notin 1 .. i - 1 /\ i - 1 \in Int
    BY <1>0
  <2>2. IsFiniteSet(1 .. i - 1)
    BY <2>1, FS_Interval
  <2> HIDE DEF ticks
  <2> QED
    BY <2>1, <2>2, FS_Subset, FS_CardinalityType
<1>3. ticks(i + 1) = IF HasUnclosedBacktick(ls[i]) THEN ticks(i) \cup {i} ELSE ticks(i)
  <2>1. \A j : j \in 1 .. i + 1 - 1 <=> j \in 1 .. i - 1 \/ j = i
    BY <1>0
  <2> QED
    BY <2>1
<1>4. Cardinality(ticks(i + 1)) = Cardinality(ticks(i)) + (IF HasUnclosedBacktick(ls[i]) THEN 1 ELSE 0)
  <2>1. CASE HasUnclosedBacktick(ls[i])
    <3>1. Cardinality(ticks(i) \cup {i}) = Cardinality(ticks(i)) + 1
      <4> HIDE DEF ticks
      <4> QED
        BY <1>2, FS_AddElement
    <3> QED
      BY <1>3, <2>1, <3>1
  <2>2. CASE ~HasUnclosedBacktick(ls[i])
    <3> HIDE DEF ticks
    <3> QED
      BY <1>2, <1>3, <2>2
  <2> QED
    BY <2>1, <2>2
<1>5. \A k : InString(ls, k) <=> Cardinality(ticks(k)) % 2 = 1
  BY DEF InString
<1> HIDE DEF ticks
<1>7. \A c \in Nat : (c + 1) % 2 = 1 <=> ~(c % 2 = 1)
  OBVIOUS
<1> QED
  <2>1. CASE HasUnclosedBacktick(ls[i])
    BY <1>2, <1>4, <1>5, <1>7, <2>1
  <2>2. CASE ~HasUnclosedBacktick(ls[i])
    BY <1>2, <1>4, <1>5, <2>2
  <2> QED
    BY <2>1, <2>2

\* The first line begins in none.
LEMMA NoTicks == \A ls : ~InString(ls, 1)
<1> TAKE ls
<1>1. {j \in 1 .. 1 - 1 : HasUnclosedBacktick(ls[j])} = {}
  OBVIOUS
<1>2. Cardinality({}) = 0
  BY FS_EmptySet
<1> QED
  BY <1>1, <1>2 DEF InString

\* Without a backtick in a comment or a literal both see the same.
LEMMA SameStrings ==
  ASSUME NEW ls \in Seq(AnyLine), ~LoneTick(ls)
  PROVE  Raw(ls) = [i \in 1 .. Len(ls) + 1 |-> InString(ls, i)]
<1> DEFINE n       == Len(ls)
           next(f) == [i \in 1 .. n + 1 |->
                         i > 1 /\ IF f[i - 1] THEN ls[i - 1].tick = "none" ELSE ls[i - 1].tick = "raw"]
           inside  == [i \in 1 .. n + 1 |-> InString(ls, i)]
           raw     == Raw(ls)
<1>1. n \in Nat /\ DOMAIN ls = 1 .. n
  OBVIOUS
<1>2. \A i \in 1 .. n : ls[i].tick \in {"none", "raw"}
  <2>1. \A i \in 1 .. n : ls[i] \in AnyLine /\ ls[i].tick # "lone"
    BY <1>1 DEF LoneTick
  <2>2. \A l \in AnyLine : l.tick \in {"none", "raw", "lone"}
    BY DEF AnyLine
  <2> QED
    BY <2>1, <2>2
<1>3. inside = next(inside)
  <2> SUFFICES ASSUME NEW i \in 1 .. n + 1
               PROVE  InString(ls, i) <=> next(inside)[i]
    BY DEF InString
  <2>1. CASE i = 1
    <3>1. ~InString(ls, 1) /\ ~next(inside)[1]
      <4>1. 1 \in 1 .. n + 1 /\ ~(1 > 1)
        BY <1>1
      <4>2. ~InString(ls, 1)
        BY NoTicks
      <4> QED
        BY <4>1, <4>2
    <3> HIDE DEF next, inside
    <3> QED
      BY <2>1, <3>1
  <2>2. CASE i > 1
    <3>1. i - 1 \in 1 .. n /\ i - 1 \in DOMAIN ls /\ (i - 1) + 1 = i /\ i - 1 \in 1 .. n + 1
      BY <1>1, <2>2
    <3>2. InString(ls, i) <=> (InString(ls, i - 1) <=> ~HasUnclosedBacktick(ls[i - 1]))
      BY <3>1, Ticks
    <3>3. inside[i - 1] = InString(ls, i - 1)
      BY <3>1
    <3>4. next(inside)[i] <=> IF inside[i - 1] THEN ls[i - 1].tick = "none" ELSE ls[i - 1].tick = "raw"
      BY <2>2
    <3> HIDE DEF next, inside
    <3> QED
      BY <1>2, <3>1, <3>2, <3>3, <3>4 DEF HasUnclosedBacktick
  <2> QED
    BY <1>1, <2>1, <2>2
<1>4. raw = CHOOSE f : f = next(f)
  BY DEF Raw
<1>5. raw = next(raw)
  <2> HIDE DEF raw, next, inside
  <2> QED
    BY <1>3, <1>4, Zenon
<1>6. \A f : /\ next(f) \in [1 .. n + 1 -> BOOLEAN]
             /\ ~next(f)[1]
             /\ \A i \in 1 .. n :
                  next(f)[i + 1] <=> IF f[i] THEN ls[i].tick = "none" ELSE ls[i].tick = "raw"
  <2> TAKE f
  <2>1. ~next(f)[1]
    <3>1. 1 \in 1 .. n + 1 /\ ~(1 > 1)
      BY <1>1
    <3>2. \A i \in 1 .. n + 1 : next(f)[i] => i > 1
      OBVIOUS
    <3> HIDE DEF next
    <3> QED
      BY <3>1, <3>2
  <2>2. ASSUME NEW i \in 1 .. n
        PROVE  next(f)[i + 1] <=> IF f[i] THEN ls[i].tick = "none" ELSE ls[i].tick = "raw"
    <3>1. i + 1 \in 1 .. n + 1 /\ i + 1 - 1 = i /\ i + 1 > 1
      BY <1>1
    <3>2. \A k \in 1 .. n + 1 :
            next(f)[k] <=> k > 1 /\ IF f[k - 1] THEN ls[k - 1].tick = "none" ELSE ls[k - 1].tick = "raw"
      OBVIOUS
    <3> HIDE DEF next
    <3>3. next(f)[i + 1] <=>
            i + 1 > 1 /\ IF f[i + 1 - 1] THEN ls[i + 1 - 1].tick = "none" ELSE ls[i + 1 - 1].tick = "raw"
      BY <3>1, <3>2
    <3> QED
      BY <3>1, <3>3
  <2>3. next(f) \in [1 .. n + 1 -> BOOLEAN]
    OBVIOUS
  <2> QED
    BY <2>1, <2>2, <2>3
<1> HIDE DEF next, raw, inside
<1>7. raw = inside
  <2>1. raw \in [1 .. n + 1 -> BOOLEAN] /\ inside \in [1 .. n + 1 -> BOOLEAN]
    BY <1>3, <1>5, <1>6
  <2>2. ~raw[1] /\ ~inside[1]
    BY <1>3, <1>5, <1>6
  <2>3. \A i \in 1 .. n : raw[i] = inside[i] => raw[i + 1] = inside[i + 1]
    <3>1. \A i \in 1 .. n : i \in 1 .. n + 1 /\ i + 1 \in 1 .. n + 1
      BY <1>1
    <3>2. \A i \in 1 .. n : raw[i] = inside[i] => (raw[i + 1] <=> inside[i + 1])
      BY <1>3, <1>5, <1>6
    <3> QED
      BY <2>1, <3>1, <3>2
  <2>4. raw[1] = inside[1]
    <3>1. 1 \in 1 .. n + 1
      BY <1>1
    <3> QED
      BY <2>1, <2>2, <3>1
  <2> QED
    BY <1>1, <2>1, <2>3, <2>4, Alike
<1> QED
  BY <1>7 DEF raw, inside

-----------------------------------------------------------------------------
(* Where they see a group of imports.                                      *)

\* Line i of ls begins in a group.
Begins(ls, i) ==
  \E o \in Lines(ls, "open") :
    o < i /\ ~InString(ls, o) /\ \A c \in o + 1 .. i - 1 : ls[c].is # "close"

\* An `import (' that is not in a raw string begins a group, a `)' ends it.
LEMMA Groups ==
  ASSUME NEW ls \in Seq(AnyLine), NEW i \in DOMAIN ls
  PROVE  /\ Begins(ls, i + 1) <=>
              \/ ls[i].is = "open" /\ ~InString(ls, i)
              \/ Begins(ls, i) /\ ls[i].is # "close"
         /\ \A raw : raw = [k \in 1 .. Len(ls) + 1 |-> InString(ls, k)] =>
              (i \in Grouped(ls, raw) <=> Begins(ls, i) /\ ls[i].is # "close")
<1>1. Len(ls) \in Nat /\ DOMAIN ls = 1 .. Len(ls) /\ i \in Nat /\ \A o \in Lines(ls, "open") : o \in Nat
  BY DEF Lines
<1>2. \A o \in Lines(ls, "open") :
        o < i => ((\A c \in o + 1 .. i : ls[c].is # "close") <=>
                    (\A c \in o + 1 .. i - 1 : ls[c].is # "close") /\ ls[i].is # "close")
  <2> TAKE o \in Lines(ls, "open")
  <2> HAVE o < i
  <2>1. \A c : c \in o + 1 .. i <=> c \in o + 1 .. i - 1 \/ c = i
    BY <1>1
  <2> QED
    BY <2>1, Zenon
<1>3. Begins(ls, i + 1) <=>
        \/ ls[i].is = "open" /\ ~InString(ls, i)
        \/ Begins(ls, i) /\ ls[i].is # "close"
  <2>1. ASSUME Begins(ls, i + 1)
        PROVE  \/ ls[i].is = "open" /\ ~InString(ls, i)
               \/ Begins(ls, i) /\ ls[i].is # "close"
    <3>1. PICK o \in Lines(ls, "open") :
            o < i + 1 /\ ~InString(ls, o) /\ \A c \in o + 1 .. i : ls[c].is # "close"
      <4>1. i + 1 - 1 = i
        BY <1>1
      <4> QED
        BY <2>1, <4>1 DEF Begins
    <3>2. CASE o = i
      BY <3>1, <3>2 DEF Lines
    <3>3. CASE o < i
      BY <1>2, <3>1, <3>3 DEF Begins
    <3> QED
      BY <1>1, <3>1, <3>2, <3>3
  <2>2. ASSUME ls[i].is = "open", ~InString(ls, i)
        PROVE  Begins(ls, i + 1)
    <3>1. i \in Lines(ls, "open") /\ i < i + 1 /\ \A c : c \notin i + 1 .. i + 1 - 1
      BY <1>1, <2>2 DEF Lines
    <3> QED
      BY <2>2, <3>1 DEF Begins
  <2>3. ASSUME Begins(ls, i), ls[i].is # "close"
        PROVE  Begins(ls, i + 1)
    <3>1. PICK o \in Lines(ls, "open") :
            o < i /\ ~InString(ls, o) /\ \A c \in o + 1 .. i - 1 : ls[c].is # "close"
      BY <2>3 DEF Begins
    <3>2. o < i + 1 /\ i + 1 - 1 = i
      BY <1>1, <3>1
    <3>3. \A c \in o + 1 .. i : ls[c].is # "close"
      BY <1>2, <2>3, <3>1
    <3> QED
      BY <3>1, <3>2, <3>3 DEF Begins
  <2> QED
    BY <2>1, <2>2, <2>3
<1>4. ASSUME NEW raw, raw = [k \in 1 .. Len(ls) + 1 |-> InString(ls, k)]
      PROVE  i \in Grouped(ls, raw) <=> Begins(ls, i) /\ ls[i].is # "close"
  <2>1. \A o \in Lines(ls, "open") : raw[o] = InString(ls, o)
    <3>1. \A o \in Lines(ls, "open") : o \in 1 .. Len(ls) + 1
      BY <1>1 DEF Lines
    <3> QED
      BY <1>4, <3>1
  <2>2. i \in Grouped(ls, raw) <=>
          \E o \in Lines(ls, "open") :
            o < i /\ ~raw[o] /\ \A c \in o + 1 .. i : ls[c].is # "close"
    BY DEF Grouped
  <2> QED
    BY <1>2, <2>1, <2>2, Zenon DEF Begins
<1> QED
  BY <1>3, <1>4

\* No group begins before the first line.
LEMMA NoGroup == \A ls \in Seq(AnyLine) : ~Begins(ls, 1)
  BY DEF Begins, Lines

\* In lines that Go can read, no line of a group is in a raw string, and so
\* the next `)' closes it for the parser too.
LEMMA Codes ==
  ASSUME NEW ls \in Seq(AnyLine),
         NEW raw, raw = [k \in 1 .. Len(ls) + 1 |-> InString(ls, k)],
         Readable(ls, raw),
         NEW i \in 1 .. Len(ls) + 1
  PROVE  /\ Begins(ls, i) => ~InString(ls, i)
         /\ InGroup(ls, i) <=> Begins(ls, i)
<1>1. Len(ls) \in Nat /\ DOMAIN ls = 1 .. Len(ls) /\ i \in Nat /\ \A o \in Lines(ls, "open") : o \in Nat
  BY DEF Lines
<1>2. ASSUME NEW o \in Lines(ls, "open"), NEW k \in 1 .. Len(ls) + 1,
             o < k, ~InString(ls, o), \A c \in o + 1 .. k - 1 : ls[c].is # "close"
      PROVE  ~InString(ls, k)
  <2> SUFFICES ASSUME InString(ls, k)
               PROVE  FALSE
    OBVIOUS
  <2> DEFINE S == {j \in o .. k : InString(ls, j)}
             m == Min(S)
  <2>1. m \in S /\ \A j \in S : m <= j
    <3>1. S \in SUBSET Nat /\ k \in S
      BY <1>1, <1>2
    <3> HIDE DEF S
    <3> QED
      BY <3>1, Smallest
  <2>2. m \in o .. k /\ InString(ls, m) /\ m # o
    BY <1>2, <2>1
  <2>3. m - 1 \notin S
    <3>1. \A j \in S : j \in Int
      BY <1>1
    <3> HIDE DEF S, m
    <3> QED
      BY <2>1, <3>1
  <2> HIDE DEF m
  <2>4. m - 1 \in o .. k - 1 /\ m - 1 \in DOMAIN ls /\ (m - 1) + 1 = m
    <3>1. o \in DOMAIN ls
      BY DEF Lines
    <3> QED
      BY <1>1, <2>2, <3>1
  <2>5. ~InString(ls, m - 1)
    BY <2>3, <2>4
  <2>6. HasUnclosedBacktick(ls[m - 1])
    BY <2>2, <2>4, <2>5, Ticks
  <2>7. CASE m - 1 = o
    <3>1. \A l \in AnyLine : l.is = "open" => l.tick = "none"
      BY DEF AnyLine
    <3>2. ls[o] \in AnyLine /\ ls[o].is = "open"
      BY <1>1 DEF Lines
    <3> QED
      BY <2>6, <2>7, <3>1, <3>2 DEF HasUnclosedBacktick
  <2>8. CASE m - 1 # o
    <3>1. o < m - 1 /\ \A c \in o + 1 .. m - 1 : ls[c].is # "close"
      <4>1. o < m - 1 /\ \A c \in o + 1 .. m - 1 : c \in o + 1 .. k - 1
        <5>1. o \in Nat /\ k \in Nat /\ m - 1 \in Int
          BY <1>1, <2>4
        <5> QED
          BY <2>4, <2>8, <5>1
      <4> QED
        BY <1>2, <4>1
    <3>2. m - 1 \in Grouped(ls, raw)
      <4>1. raw[o] = InString(ls, o)
        BY <1>1 DEF Lines
      <4> QED
        BY <1>2, <2>4, <3>1, <4>1 DEF Grouped
    <3> QED
      BY <2>6, <3>2 DEF Readable, HasUnclosedBacktick
  <2> QED
    BY <2>7, <2>8
<1>3. Begins(ls, i) => ~InString(ls, i)
  BY <1>2 DEF Begins
<1>4. Begins(ls, i) => InGroup(ls, i)
  <2> SUFFICES ASSUME NEW o \in Lines(ls, "open"),
                      o < i, ~InString(ls, o), \A c \in o + 1 .. i - 1 : ls[c].is # "close"
               PROVE  InGroup(ls, i)
    BY DEF Begins
  <2>1. \A c \in Lines(ls, "close") : c \in Nat /\ ls[c].is = "close"
    BY <1>1 DEF Lines
  <2>2. \A c \in Lines(ls, "close") : ~(o < c /\ c < i)
    BY <1>1, <2>1
  <2> QED
    BY <2>2 DEF InGroup
<1>5. InGroup(ls, i) => Begins(ls, i)
  <2> SUFFICES ASSUME NEW o \in Lines(ls, "open"),
                      o < i, ~InString(ls, o),
                      \A c \in Lines(ls, "close") : o < c /\ c < i => InString(ls, c)
               PROVE  \A c \in o + 1 .. i - 1 : ls[c].is # "close"
    BY DEF Begins, InGroup
  <2> DEFINE S == {c \in o + 1 .. i - 1 : ls[c].is = "close"}
             m == Min(S)
  <2> SUFFICES ASSUME S # {}
               PROVE  FALSE
    OBVIOUS
  <2>1. m \in S /\ \A c \in S : m <= c
    <3>1. S \in SUBSET Nat
      BY <1>1
    <3> HIDE DEF S
    <3> QED
      BY <3>1, Smallest
  <2>2. m \in o + 1 .. i - 1 /\ ls[m].is = "close"
    BY <2>1
  <2>3. \A c \in o + 1 .. m - 1 : ls[c].is # "close"
    <3>1. \A c \in o + 1 .. m - 1 : c \in o + 1 .. i - 1 /\ ~(m <= c)
      <4> HIDE DEF m
      <4> QED
        BY <1>1, <2>2
    <3> HIDE DEF m
    <3> QED
      BY <2>1, <3>1
  <2> HIDE DEF m, S
  <2>4. m \in 1 .. Len(ls) + 1 /\ o < m /\ m < i /\ m \in Lines(ls, "close")
    BY <1>1, <2>2 DEF Lines
  <2> QED
    BY <1>2, <2>3, <2>4
<1> QED
  BY <1>3, <1>4, <1>5

\* What stripImports keeps is what Go has for code.
LEMMA KeptIsCode ==
  ASSUME NEW ls \in Seq(AnyLine),
         NEW raw, raw = [k \in 1 .. Len(ls) + 1 |-> InString(ls, k)],
         Readable(ls, raw)
  PROVE  Kept(ls) = GoCode(ls, raw)
<1> SUFFICES ASSUME NEW i \in DOMAIN ls, ~InString(ls, i), ls[i].is \notin {"open", "import"}
             PROVE  InGroup(ls, i) <=>
                      \/ i \in Grouped(ls, raw)
                      \/ ls[i].is = "close" /\ i - 1 \in Grouped(ls, raw) \cup Lines(ls, "open")
  <2>1. Len(ls) \in Nat /\ DOMAIN ls = 1 .. Len(ls)
    OBVIOUS
  <2>2. \A i \in DOMAIN ls : raw[i] = InString(ls, i)
    BY <2>1
  <2> QED
    BY <2>2 DEF Kept, GoCode
<1>1. Len(ls) \in Nat /\ DOMAIN ls = 1 .. Len(ls) /\ i \in 1 .. Len(ls) + 1 /\ i \in Nat
  OBVIOUS
<1>2. InGroup(ls, i) <=> Begins(ls, i)
  BY <1>1, Codes
<1>3. i \in Grouped(ls, raw) <=> Begins(ls, i) /\ ls[i].is # "close"
  BY Groups
<1>4. ls[i].is = "close" =>
        (Begins(ls, i) <=> i - 1 \in Grouped(ls, raw) \cup Lines(ls, "open"))
  <2> SUFFICES ASSUME ls[i].is = "close"
               PROVE  Begins(ls, i) <=> i - 1 \in Grouped(ls, raw) \cup Lines(ls, "open")
    OBVIOUS
  <2>1. CASE i = 1
    <3>1. ~Begins(ls, 1)
      BY NoGroup
    <3>2. 0 \notin DOMAIN ls
      BY <1>1
    <3> QED
      BY <2>1, <3>1, <3>2 DEF Grouped, Lines
  <2>2. CASE i # 1
    <3>1. i - 1 \in DOMAIN ls /\ (i - 1) + 1 = i
      BY <1>1, <2>2
    <3>2. /\ Begins(ls, i) <=> \/ ls[i - 1].is = "open" /\ ~InString(ls, i - 1)
                               \/ Begins(ls, i - 1) /\ ls[i - 1].is # "close"
          /\ i - 1 \in Grouped(ls, raw) <=> Begins(ls, i - 1) /\ ls[i - 1].is # "close"
      BY <3>1, Groups
    <3>3. ls[i - 1].is = "open" => ~InString(ls, i - 1)
      <4>1. \A l \in AnyLine : l.is = "open" => ~HasUnclosedBacktick(l)
        BY DEF AnyLine, HasUnclosedBacktick
      <4>2. InString(ls, i) <=> (InString(ls, i - 1) <=> ~HasUnclosedBacktick(ls[i - 1]))
        BY <3>1, Ticks
      <4>3. ls[i - 1] \in AnyLine
        BY <3>1
      <4> QED
        BY <4>1, <4>2, <4>3
    <3>4. i - 1 \in Lines(ls, "open") <=> ls[i - 1].is = "open"
      BY <3>1 DEF Lines
    <3> QED
      BY <3>2, <3>3, <3>4
  <2> QED
    BY <2>1, <2>2
<1> QED
  BY <1>2, <1>3, <1>4

\* What extractImports takes a line to begin in is what Go does.
LEMMA InsideOf ==
  ASSUME NEW ls \in Seq(AnyLine),
         NEW raw, raw = [k \in 1 .. Len(ls) + 1 |-> InString(ls, k)],
         Readable(ls, raw)
  PROVE  Inside(ls) = [i \in 1 .. Len(ls) + 1 |->
                         IF InString(ls, i) THEN "string" ELSE IF Begins(ls, i) THEN "group" ELSE "code"]
<1> DEFINE n       == Len(ls)
           step(was, l) == CASE was = "string" -> IF HasUnclosedBacktick(l) THEN "code" ELSE "string"
                             [] was = "group"  -> IF l.is = "close" THEN "code" ELSE "group"
                             [] OTHER          -> IF l.is = "open" THEN "group"
                                                  ELSE IF HasUnclosedBacktick(l) THEN "string" ELSE "code"
           next(f) == [i \in 1 .. n + 1 |-> IF i = 1 THEN "code" ELSE step(f[i - 1], ls[i - 1])]
           begins(i) == IF InString(ls, i) THEN "string" ELSE IF Begins(ls, i) THEN "group" ELSE "code"
           whole   == [i \in 1 .. n + 1 |-> begins(i)]
           at      == Inside(ls)
<1>1. n \in Nat /\ DOMAIN ls = 1 .. n
  OBVIOUS
<1>2. begins(1) = "code"
  BY NoTicks, NoGroup
<1>3. ASSUME NEW i \in 1 .. n
      PROVE  begins(i + 1) = step(begins(i), ls[i])
  <2>1. i \in DOMAIN ls /\ i \in 1 .. n + 1 /\ i + 1 \in 1 .. n + 1
    BY <1>1
  <2>2. InString(ls, i + 1) <=> (InString(ls, i) <=> ~HasUnclosedBacktick(ls[i]))
    BY <2>1, Ticks
  <2>3. /\ Begins(ls, i + 1) <=> \/ ls[i].is = "open" /\ ~InString(ls, i)
                                 \/ Begins(ls, i) /\ ls[i].is # "close"
        /\ i \in Grouped(ls, raw) <=> Begins(ls, i) /\ ls[i].is # "close"
    BY <2>1, Groups
  <2>4. Begins(ls, i) => ~InString(ls, i)
    BY <2>1, Codes
  <2>5. ls[i].is \in {"open", "close"} => ~HasUnclosedBacktick(ls[i])
    <3>1. \A l \in AnyLine : l.is \in {"open", "close"} => ~HasUnclosedBacktick(l)
      BY DEF AnyLine, HasUnclosedBacktick
    <3>2. ls[i] \in AnyLine
      BY <2>1
    <3> QED
      BY <3>1, <3>2
  <2>6. i \in Grouped(ls, raw) => ~HasUnclosedBacktick(ls[i])
    BY DEF Readable, HasUnclosedBacktick
  <2>7. CASE InString(ls, i)
    BY <2>2, <2>3, <2>4, <2>7
  <2>8. CASE Begins(ls, i)
    BY <2>2, <2>3, <2>4, <2>5, <2>6, <2>8
  <2>9. CASE ~InString(ls, i) /\ ~Begins(ls, i)
    BY <2>2, <2>3, <2>5, <2>9
  <2> QED
    BY <2>7, <2>8, <2>9
<1> HIDE DEF begins, step
<1>4. whole = next(whole)
  <2> SUFFICES ASSUME NEW i \in 1 .. n + 1
               PROVE  begins(i) = IF i = 1 THEN "code" ELSE step(whole[i - 1], ls[i - 1])
    OBVIOUS
  <2>1. CASE i = 1
    BY <1>2, <2>1
  <2>2. CASE i # 1
    <3>1. i - 1 \in 1 .. n /\ (i - 1) + 1 = i /\ i - 1 \in 1 .. n + 1
      BY <1>1, <2>2
    <3>2. whole[i - 1] = begins(i - 1)
      BY <3>1
    <3>3. begins(i) = step(begins(i - 1), ls[i - 1])
      <4>1. begins((i - 1) + 1) = step(begins(i - 1), ls[i - 1])
        BY <1>3, <3>1
      <4> QED
        BY <3>1, <4>1
    <3> QED
      BY <2>2, <3>2, <3>3
  <2> QED
    BY <2>1, <2>2
<1>5. at = CHOOSE f : f = next(f)
  BY DEF Inside, step
<1>6. at = next(at)
  <2> HIDE DEF at, next, whole
  <2> QED
    BY <1>4, <1>5, Zenon
<1>7. \A f : /\ next(f) \in [1 .. n + 1 -> {"code", "group", "string"}]
             /\ next(f)[1] = "code"
             /\ \A i \in 1 .. n : next(f)[i + 1] = step(f[i], ls[i])
  <2> TAKE f
  <2>1. 1 \in 1 .. n + 1 /\ \A i \in 1 .. n : i + 1 \in 1 .. n + 1 /\ i + 1 - 1 = i /\ i + 1 # 1
    BY <1>1
  <2> QED
    BY <2>1 DEF step
<1> HIDE DEF next, at, whole
<1>8. at = whole
  <2>1. /\ at \in [1 .. n + 1 -> {"code", "group", "string"}]
        /\ whole \in [1 .. n + 1 -> {"code", "group", "string"}]
        /\ at[1] = whole[1]
    BY <1>4, <1>6, <1>7
  <2>2. \A i \in 1 .. n : at[i] = whole[i] => at[i + 1] = whole[i + 1]
    BY <1>4, <1>6, <1>7
  <2> QED
    BY <1>1, <2>1, <2>2, Alike
<1> QED
  BY <1>8 DEF at, whole, begins

\* The imports that extractImports recognises are Go's, but for an import with a
\* comment behind it.
LEMMA ImportsFound ==
  ASSUME NEW ls \in Seq(AnyLine), NEW raw,
         raw = [i \in 1 .. Len(ls) + 1 |-> InString(ls, i)], Readable(ls, raw)
  PROVE  {i \in ExtractImports(ls) : ParseImportSpec(ls[i]) # "none"} =
           {i \in GoImports(ls, raw) : ls[i].arg # "noted"}
<1> SUFFICES ASSUME NEW i \in DOMAIN ls
             PROVE  i \in ExtractImports(ls) /\ ParseImportSpec(ls[i]) # "none" <=>
                      i \in GoImports(ls, raw) /\ ls[i].arg # "noted"
  BY DEF ExtractImports, GoImports
<1> DEFINE l == ls[i]
<1>1. Len(ls) \in Nat /\ DOMAIN ls = 1 .. Len(ls) /\ i \in 1 .. Len(ls) + 1 /\ l \in AnyLine
  OBVIOUS
<1>2. raw[i] = InString(ls, i)
  BY <1>1
<1>3. Begins(ls, i) => ~InString(ls, i)
  BY <1>1, Codes
<1>4. i \in Grouped(ls, raw) <=> Begins(ls, i) /\ l.is # "close"
  BY Groups
<1>5. i \in Grouped(ls, raw) => l.is \in {"spec", "blank", "note"}
  BY DEF Readable
<1>6. /\ Inside(ls)[i] = "code" <=> ~InString(ls, i) /\ ~Begins(ls, i)
      /\ Inside(ls)[i] = "group" <=> Begins(ls, i)
  BY <1>1, <1>3, InsideOf
<1>7. /\ l.is \in {"import", "spec"} => (ParseImportSpec(l) # "none" <=> l.arg # "noted")
      /\ l.is = "note" => ParseImportSpec(l) = "none"
  <2>1. /\ l.is \in {"import", "spec"} => l.arg \in ImportArgs
        /\ l.is = "note" => l.arg \notin ImportArgs
    BY <1>1 DEF AnyLine
  <2> QED
    BY <2>1 DEF ImportArgs, ParseImportSpec
<1>8. /\ i \in ExtractImports(ls) <=>
           \/ Inside(ls)[i] = "code"  /\ l.is = "import"
           \/ Inside(ls)[i] = "group" /\ l.is \notin {"close", "blank"}
      /\ i \in GoImports(ls, raw) <=>
           ~raw[i] /\ (l.is = "import" \/ (l.is = "spec" /\ i \in Grouped(ls, raw)))
  BY DEF ExtractImports, GoImports
<1> HIDE DEF l
<1>9. CASE l.is = "import"
  BY <1>2, <1>3, <1>4, <1>5, <1>6, <1>7, <1>8, <1>9 DEF l
<1>10. CASE l.is # "import"
  BY <1>2, <1>3, <1>4, <1>5, <1>6, <1>7, <1>8, <1>10 DEF l
<1> QED
  BY <1>9, <1>10

\* The frontmatter ends where Go would end it.
LEMMA SameDelims ==
  ASSUME NEW ls \in Seq(AnyLine), ~LoneTick(ls), NEW o \in Nat
  PROVE  CloseDelims(ls, o) = GoClose(ls, o)
<1> DEFINE rest == SubSeq(ls, o + 1, Len(ls))
<1>1. /\ rest \in Seq(AnyLine)
      /\ \A k \in DOMAIN rest : o + k \in DOMAIN ls /\ rest[k] = ls[o + k]
      /\ \A k \in o + 1 .. Len(ls) : k - o \in DOMAIN rest
  <2>1. Len(ls) + 1 \in Int /\ Len(ls) + 1 <= Len(ls) + 1 /\ Len(ls) + 1 - 1 = Len(ls)
    OBVIOUS
  <2>2. rest = SubSeq(ls, o + 1, Len(ls) + 1 - 1)
    BY <2>1
  <2> HIDE DEF rest
  <2>3. /\ rest \in Seq(AnyLine)
        /\ \A k \in DOMAIN rest : o + k \in DOMAIN ls /\ o + k < Len(ls) + 1 /\ rest[k] = ls[o + k]
        /\ \A k \in o + 1 .. Len(ls) + 1 - 1 : k - o \in DOMAIN rest
    BY <2>1, <2>2, SubSeqSeq
  <2> QED
    BY <2>1, <2>3
<1> HIDE DEF rest
<1>2. ~LoneTick(rest)
  BY <1>1 DEF LoneTick
<1>3. \A i \in o + 1 .. Len(ls) : Raw(rest)[i - o] = InString(rest, i - o)
  <2>1. Raw(rest) = [k \in 1 .. Len(rest) + 1 |-> InString(rest, k)]
    BY <1>1, <1>2, SameStrings
  <2>2. \A k \in DOMAIN rest : k \in 1 .. Len(rest) + 1
    BY <1>1
  <2> QED
    BY <1>1, <2>1, <2>2
<1> QED
  BY <1>3 DEF CloseDelims, GoClose, rest

\* The members of a set in order, as lines of the file.
LEMMA AtLines ==
  ASSUME NEW x, \A k \in DOMAIN x : x[k] \in Int, NEW o \in Int
  PROVE  ToSet([k \in DOMAIN x |-> o + 1 + x[k] - 1]) = {i + o : i \in ToSet(x)}
<1>1. \A k \in DOMAIN x : o + 1 + x[k] - 1 = x[k] + o
  OBVIOUS
<1> QED
  BY <1>1 DEF ToSet

\* Parse, of a frontmatter Go can read: what is kept of it, what is taken for
\* an import, and when it fails.
LEMMA ParsedSections ==
  ASSUME NEW fm \in Seq(AnyLine), ~LoneTick(fm), Readable(fm, Raw(fm)),
         NEW s, s.frontmatter = fm, Fine(s), NEW o \in Nat, s.fmLine = o + 1
  PROVE  \E p \in {ParseSections(s)} :
           /\ ToSet(p.origin) = {i + o : i \in ToSet(TrimBlank(fm, InOrder(GoCode(fm, Raw(fm)))))}
           /\ \/ /\ Fine(p)
                 /\ {i + o : i \in {j \in GoImports(fm, Raw(fm)) : fm[j].arg # "noted"}}
                      = ToSet(p.imports) \cup ToSet(p.uses)
              \/ /\ p.error = "import" /\ ~Fine(p)
                 /\ \E i \in GoImports(fm, Raw(fm)) : ParseImportSpec(fm[i]) = "error"
<1> DEFINE raw      == Raw(fm)
           found    == ExtractImports(fm)
           of(sort) == {i \in found : ParseImportSpec(fm[i]) = sort}
           at(x)    == [k \in DOMAIN x |-> o + 1 + x[k] - 1]
           p        == ParseSections(s)
           kept     == StripImports(fm)
           noted    == {i \in GoImports(fm, raw) : fm[i].arg # "noted"}
<1>1. raw = [i \in 1 .. Len(fm) + 1 |-> InString(fm, i)]
  BY SameStrings
<1>2. {i \in found : ParseImportSpec(fm[i]) # "none"} = noted
  <2> HIDE DEF raw
  <2> QED
    BY <1>1, ImportsFound DEF raw
<1>3. kept = TrimBlank(fm, InOrder(GoCode(fm, raw))) /\ kept \in Seq(DOMAIN fm)
  <2>1. Kept(fm) = GoCode(fm, raw)
    <3> HIDE DEF raw
    <3> QED
      BY <1>1, KeptIsCode DEF raw
  <2>2. kept \in Seq(DOMAIN fm)
    BY Stripped
  <2> QED
    BY <2>1, <2>2 DEF StripImports
<1>4. /\ p.origin = at(kept)
      /\ p.imports = at(InOrder(of("import")))
      /\ p.uses = at(InOrder(of("use")))
  BY DEF ParseSections, Parsed, Named
<1>5. \/ InOrder(of("error")) # <<>> /\ p.error = "import"
      \/ InOrder(of("error")) = <<>> /\ Fine(p)
  <2>1. p.error = IF s.error # "" THEN s.error
                  ELSE IF InOrder(of("error")) # <<>> THEN "import" ELSE ""
    BY Zenon DEF ParseSections, Parsed, Named
  <2> HIDE DEF p, of
  <2> QED
    BY <2>1, Zenon DEF Fine
<1>6. p.error = "import" => ~Fine(p)
  BY Zenon DEF Fine
<1>7. \A sort : /\ IsFiniteSet(of(sort)) /\ of(sort) \in SUBSET Nat
                /\ InOrder(of(sort)) \in Seq(of(sort)) /\ ToSet(InOrder(of(sort))) = of(sort)
  <2> TAKE sort
  <2>1. Len(fm) \in Nat /\ DOMAIN fm = 1 .. Len(fm) /\ of(sort) \in SUBSET (DOMAIN fm)
    BY DEF ExtractImports
  <2>2. IsFiniteSet(1 .. Len(fm))
    BY <2>1, FS_Interval
  <2> HIDE DEF of
  <2>3. IsFiniteSet(of(sort)) /\ of(sort) \in SUBSET Nat
    BY <2>1, <2>2, FS_Subset
  <2> QED
    BY <2>3, Listed DEF ToSet
<1> HIDE DEF p, kept, raw
<1>8. ToSet(p.origin) = {i + o : i \in ToSet(kept)}
  <2>1. o \in Int /\ \A k \in DOMAIN kept : kept[k] \in Int
    BY <1>3
  <2> QED
    BY <1>4, <2>1, AtLines, Zenon
<1>9. ToSet(p.imports) = {i + o : i \in of("import")} /\ ToSet(p.uses) = {i + o : i \in of("use")}
  <2>1. ASSUME NEW sort
        PROVE  ToSet(at(InOrder(of(sort)))) = {i + o : i \in of(sort)}
    <3> DEFINE x == InOrder(of(sort))
    <3>1. x \in Seq(of(sort)) /\ of(sort) \in SUBSET Nat /\ ToSet(x) = of(sort)
      BY <1>7
    <3> HIDE DEF x, of
    <3>2. o \in Int /\ \A k \in DOMAIN x : x[k] \in Int
      BY <3>1
    <3>3. ToSet([k \in DOMAIN x |-> o + 1 + x[k] - 1]) = {i + o : i \in ToSet(x)}
      BY <3>2, AtLines, Zenon
    <3> QED
      BY <3>1, <3>3 DEF x
  <2> HIDE DEF of, at
  <2> QED
    BY <1>4, <2>1
<1>10. InOrder(of("error")) # <<>> <=> of("error") # {}
  <2>1. /\ InOrder(of("error")) \in Seq(of("error"))
        /\ {InOrder(of("error"))[k] : k \in DOMAIN InOrder(of("error"))} = of("error")
    BY <1>7 DEF ToSet
  <2> HIDE DEF of
  <2> QED
    BY <2>1
<1>11. CASE of("error") # {}
  <2>1. \E i \in noted : ParseImportSpec(fm[i]) = "error"
    BY <1>2, <1>11
  <2> QED
    BY <1>3, <1>5, <1>6, <1>8, <1>10, <1>11, <2>1 DEF p, raw
<1>12. CASE of("error") = {}
  <2>1. noted = of("import") \cup of("use")
    <3>1. \A l : ParseImportSpec(l) \in {"import", "use", "error", "none"}
      BY DEF ParseImportSpec
    <3> QED
      BY <1>2, <1>12, <3>1
  <2>2. {i + o : i \in noted} = ToSet(p.imports) \cup ToSet(p.uses)
    <3> HIDE DEF noted, of
    <3> QED
      BY <1>9, <2>1
  <2> QED
    BY <1>3, <1>5, <1>8, <1>10, <1>12, <2>2 DEF p, raw
<1> QED
  BY <1>11, <1>12

\* splitSections, of a file with a frontmatter: it is what lies between Go's
\* delimiters.
LEMMA SplitInner ==
  ASSUME file.lines \in Seq(AnyLine), ~LoneTick(file.lines), Inner # <<>>,
         ~(\A i \in DOMAIN Inner : Inner[i].is = "blank")
  PROVE  /\ Inner \in Seq(AnyLine) /\ ~LoneTick(Inner) /\ Offset \in Nat
         /\ \E s \in {SplitSections(file.lines)} :
              s.frontmatter = Inner /\ Fine(s) /\ s.fmLine = Offset + 1
<1> DEFINE ls == file.lines
           o  == Min(OpenDelim(ls))
           c  == Min(GoClose(ls, o))
<1>1. OpenDelim(ls) # {} /\ GoClose(ls, o) # {} /\ Inner = SubSeq(ls, o + 1, c - 1) /\ Offset = o
  BY DEF Inner, Offset
<1>2. o \in DOMAIN ls /\ o \in Nat /\ Len(ls) \in Nat
  <2>1. OpenDelim(ls) \in SUBSET (DOMAIN ls) /\ OpenDelim(ls) \in SUBSET Nat
    BY DEF OpenDelim
  <2> QED
    BY <1>1, <2>1, Smallest
<1>0. ls \in Seq(AnyLine)
  OBVIOUS
<1> HIDE DEF ls, o
<1>3. CloseDelims(ls, o) = GoClose(ls, o)
  BY <1>2, SameDelims DEF ls
<1>4. c \in Int /\ c <= Len(ls) + 1
  <2>1. GoClose(ls, o) \in SUBSET (o + 1 .. Len(ls)) /\ GoClose(ls, o) \in SUBSET Nat
    BY <1>2 DEF GoClose
  <2>2. c \in GoClose(ls, o)
    BY <1>1, <2>1, Smallest
  <2> HIDE DEF c
  <2> QED
    BY <1>2, <2>1, <2>2
<1>5. SplitSections(ls) = SplitAt(ls, o, c)
  BY <1>1, <1>3 DEF SplitSections, SplitFrom, o
<1> HIDE DEF c
<1>6. /\ Inner \in Seq(AnyLine)
      /\ \A k \in DOMAIN Inner : o + k \in DOMAIN ls /\ o + k < c /\ Inner[k] = ls[o + k]
      /\ \A k \in o + 1 .. c - 1 : k - o \in DOMAIN Inner
  <2> DEFINE sub == Inner
  <2>1. o \in Nat /\ c \in Int /\ c <= Len(ls) + 1 /\ ls \in Seq(AnyLine) /\ sub = SubSeq(ls, o + 1, c - 1)
    BY <1>0, <1>1, <1>2, <1>4
  <2> HIDE DEF sub
  <2>2. /\ sub \in Seq(AnyLine)
        /\ \A k \in DOMAIN sub : o + k \in DOMAIN ls /\ o + k < c /\ sub[k] = ls[o + k]
        /\ \A k \in o + 1 .. c - 1 : k - o \in DOMAIN sub
    BY <2>1, SubSeqSeq
  <2> QED
    BY <2>2 DEF sub
<1> DEFINE inner == Inner
<1> HIDE DEF inner
<1>7. ~(\A i \in o + 1 .. c - 1 : ls[i].is = "blank")
  <2>1. PICK k \in DOMAIN inner : inner[k].is # "blank"
    BY DEF inner
  <2>2. o + k \in o + 1 .. c - 1 /\ ls[o + k].is # "blank"
    <3>1. k \in Nat /\ k >= 1 /\ o + k < c /\ inner[k] = ls[o + k]
      <4>1. k \in DOMAIN inner /\ inner \in Seq(AnyLine)
        BY <1>6, <2>1 DEF inner
      <4>2. k \in Nat /\ k >= 1
        BY <4>1
      <4> QED
        BY <1>6, <4>1, <4>2 DEF inner
    <3> QED
      BY <1>2, <1>4, <2>1, <3>1
  <2> QED
    BY <2>2
<1>8. \E rest : SplitAt(ls, o, c) = Split("", Inner, rest, o + 1, c + 1)
  BY <1>1, <1>7, Zenon DEF SplitAt
<1>9. \A rest : /\ Split("", Inner, rest, o + 1, c + 1).frontmatter = Inner
                /\ Fine(Split("", Inner, rest, o + 1, c + 1))
                /\ Split("", Inner, rest, o + 1, c + 1).fmLine = o + 1
  BY Zenon DEF Split, Fine
<1>10. ~LoneTick(Inner)
  BY <1>6 DEF LoneTick, ls
<1>11. \E s \in {SplitSections(file.lines)} : s.frontmatter = Inner /\ Fine(s) /\ s.fmLine = Offset + 1
  <2>1. /\ SplitAt(ls, o, c).frontmatter = Inner /\ Fine(SplitAt(ls, o, c))
        /\ SplitAt(ls, o, c).fmLine = o + 1
    BY <1>8, <1>9, Zenon
  <2>2. SplitSections(file.lines) = SplitAt(ls, o, c) /\ Offset = o
    BY <1>1, <1>5 DEF ls
  <2> QED
    BY <2>1, <2>2
<1> QED
  BY <1>1, <1>2, <1>6, <1>10, <1>11

\* The parser (splitSections, extractImports, stripImports) splits a file, and
\* takes its imports out, where Go would, whatever raw strings and groups it
\* has: but for a backtick in a comment, and an import with one behind it.
THEOREM SectionsExactHolds == Spec => []SectionsExact
<1>1. Init => PassInv
  BY DEF Init, PassInv
<1>2. PassInv => SectionsExact
  <2> SUFFICES ASSUME PassInv, stage \in {"expand", "failed"}, Inner # <<>>,
                      Readable(Inner, Raw(Inner)),
                      ~(\A i \in DOMAIN Inner : Inner[i].is = "blank"),
                      ~LoneTick(file.lines)
               PROVE  \/ /\ Fine(parsed)
                         /\ ToSet(parsed.origin) =
                              {i + Offset : i \in ToSet(TrimBlank(Inner, InOrder(GoCode(Inner, Raw(Inner)))))}
                         /\ {i + Offset : i \in {j \in GoImports(Inner, Raw(Inner)) : Inner[j].arg # "noted"}}
                              = ToSet(parsed.imports) \cup ToSet(parsed.uses)
                      \/ /\ ~Fine(parsed) /\ parsed.error = "import"
                         /\ \E i \in GoImports(Inner, Raw(Inner)) : ParseImportSpec(Inner[i]) = "error"
    BY Zenon DEF SectionsExact, Fine
  <2>1. file.lines \in Seq(AnyLine)
    BY CompileFileAssumption DEF PassInv, CompileFileAssumption
  <2>2. parsed = ParseSections(SplitSections(file.lines))
    BY DEF PassInv, Parse
  <2>3. /\ Inner \in Seq(AnyLine) /\ ~LoneTick(Inner) /\ Offset \in Nat
        /\ \E s \in {SplitSections(file.lines)} :
             s.frontmatter = Inner /\ Fine(s) /\ s.fmLine = Offset + 1
    BY <2>1, SplitInner, Zenon
  <2> DEFINE s == SplitSections(file.lines)
             inner == Inner
             o == Offset
  <2>4. s.frontmatter = inner /\ Fine(s) /\ s.fmLine = o + 1 /\ inner \in Seq(AnyLine) /\ ~LoneTick(inner)
        /\ o \in Nat /\ Readable(inner, Raw(inner)) /\ parsed = ParseSections(s)
    BY <2>2, <2>3, Zenon
  <2> HIDE DEF s, inner, o
  <2>5. \E p \in {ParseSections(s)} :
           /\ ToSet(p.origin) = {i + o : i \in ToSet(TrimBlank(inner, InOrder(GoCode(inner, Raw(inner)))))}
           /\ \/ /\ Fine(p)
                 /\ {i + o : i \in {j \in GoImports(inner, Raw(inner)) : inner[j].arg # "noted"}}
                      = ToSet(p.imports) \cup ToSet(p.uses)
              \/ /\ p.error = "import" /\ ~Fine(p)
                 /\ \E i \in GoImports(inner, Raw(inner)) : ParseImportSpec(inner[i]) = "error"
    BY <2>4, ParsedSections, ZenonT(30)
  <2> QED
    BY <2>4, <2>5, Zenon DEF inner, o
<1> QED
  BY <1>1, <1>2, NextPass, PTL DEF Spec

-----------------------------------------------------------------------------
(* The two checks of a literal.                                            *)

\* One literal and one field, whatever they are, but for the three kinds of
\* number that LiteralsAgree names.
LEMMA Literals ==
  ASSUME TypecheckProps, NEW v, NEW t,
         ~Computed(v), t \notin Unresolved,
         ~(v.is \in Numbers /\ t = "complex"),
         ~(v.is = "int" /\ t \in Floats /\ ~ExactFloat(v)),
         ~(v.is = "int" /\ ~IsInt(v))
  PROVE  StrictAssignable(v, t) <=> ~LiteralTypeMismatch(v, t)
<1> USE DEF LiteralTypeMismatch, StrictAssignable, LiteralAssignable, Computed, Unresolved, GoType,
            Numbers, Ints, Uints, Floats, Strings, Nilable
<1>0. v.is \in {"text", "numeral", "int", "float64", "bool", "nil"}
  OBVIOUS
<1>1. CASE t = "any"
  BY <1>0, <1>1
<1>2. CASE t # "any" /\ v.is \in {"text", "numeral"}
  BY <1>2
<1>3. CASE t # "any" /\ v.is \in {"bool", "nil"}
  BY <1>3
<1>4. CASE t # "any" /\ v.is \in {"int", "float64"}
  <2>1. CASE t \in Floats \cup {"complex"}
    BY <1>4, <2>1 DEF ConvertsExactly
  <2>2. CASE t \in Ints
    BY <1>4, <2>2 DEF ConvertsExactly, IsInt, Bounds, Width
  <2>3. CASE t \in Uints
    BY <1>4, <2>3 DEF ConvertsExactly, IsUint, Bounds, Width
  <2>4. CASE t \notin Numbers \cup {"complex"}
    BY <1>4, <2>4
  <2> QED
    BY <2>1, <2>2, <2>3, <2>4
<1> QED
  BY <1>0, <1>1, <1>2, <1>3, <1>4

\* With the check turned on, the compiler (literalTypeMismatch, typecheck_props.go)
\* refuses exactly the literals that the renderer (strictAssignable,
\* props_check.go) would refuse.
THEOREM LiteralsAgreeHolds == TypecheckProps /\ Spec => []LiteralsAgree
<1> SUFFICES ASSUME TypecheckProps
             PROVE  Spec => []LiteralsAgree
  OBVIOUS
<1>1. LiteralsAgree
  BY Literals DEF LiteralsAgree
<1> QED
  BY <1>1, PTL

-----------------------------------------------------------------------------
(* How one value is stored in one field.                                   *)

\* A number within the bounds of a width is kept by it.
LEMMA Wraps ==
  ASSUME NEW t, NEW n \in Bounds(t)
  PROVE  Wrap(n, t) = n
<1>1. CASE t \in {"int8", "uint8"}
  BY <1>1 DEF Wrap, Bounds, Width, Uints
<1>2. CASE t \notin {"int8", "uint8"}
  BY <1>2 DEF Wrap, Bounds, Width, Uints
<1> QED
  BY <1>1, <1>2

\* What CheckPropTypes accepts for a field, setField stores in it unchanged,
\* when it has a way to store it.
LEMMA Stored ==
  ASSUME NEW v \in AnyValue, NEW t, StrictAssignable(v, t), ~NoWay(v, t)
  PROVE  SetField(v, t) # Fault /\ SetField(v, t).x = v.x
<1> USE DEF AnyValue, Value, Unset, Fault, SetField
<1>0. v.is \in STRING /\ v.x \in Int /\ v.is # "fault"
  OBVIOUS
<1>1. CASE v.is = "nil"
  BY <1>1 DEF Floats
<1>2. CASE v.is # "nil" /\ (t = "any" \/ GoType(v) = t)
  BY <1>0, <1>2 DEF GoType, Ints, Floats
<1>3. CASE v.is # "nil" /\ t # "any" /\ GoType(v) # t /\ t \in Strings
  BY <1>0, <1>3 DEF Strings, Ints, Floats
<1>4. CASE v.is # "nil" /\ t # "any" /\ GoType(v) # t /\ t \notin Strings
  <2>1. v.is \in Numbers /\ t \in Numbers /\ ConvertsExactly(v, t) /\ v.is # t
    <3>1. GoType(v) # "string"
      BY <1>4 DEF StrictAssignable, GoType, Strings, Numbers, Ints, Uints, Floats
    <3>2. v.is = GoType(v)
      BY <3>1 DEF GoType
    <3> QED
      BY <1>4, <3>1, <3>2 DEF StrictAssignable
  <2>2. CASE t \in Floats
    BY <1>0, <1>4, <2>1, <2>2 DEF NoWay, Numbers, Ints, Uints, Floats, Strings
  <2>3. CASE t \in Ints
    <3>1. v.is \in ({"int", "int64"} \cup Floats) \ {t} /\ v.is # "numeral"
      BY <2>1, <2>3 DEF NoWay, Numbers, Ints, Uints, Floats
    <3>2. Whole(v) /\ Amount(v) \in Bounds(t)
      BY <2>1, <2>3 DEF ConvertsExactly, Floats, Ints
    <3>3. Truncate(v) = Amount(v) /\ 2 * Amount(v) = v.x
      BY <1>0, <3>2 DEF Whole, Amount, Truncate
    <3>4. SetField(v, t) = Value(t, 2 * Wrap(Truncate(v), t))
      BY <1>4, <2>3, <3>1 DEF Ints, Floats, Strings
    <3>5. t # "fault"
      BY <2>3 DEF Ints
    <3> QED
      BY <3>2, <3>3, <3>4, <3>5, Wraps
  <2>4. CASE t \in Uints
    BY <2>1, <2>4 DEF NoWay
  <2> QED
    BY <2>1, <2>2, <2>3, <2>4 DEF Numbers
<1> QED
  BY <1>1, <1>2, <1>3, <1>4

-----------------------------------------------------------------------------
(* How a call is rendered.                                                 *)

\* dict: a key has one of the values it was given, the last.
LEMMA GivenValues ==
  ASSUME NEW call, call.entries \in Seq(STRING \X AnyValue)
  PROVE  \A key \in DOMAIN Dict(call) : Dict(call)[key] \in AnyValue
<1> SUFFICES ASSUME NEW key \in Keys(call)
             PROVE  Dict(call)[key] \in AnyValue
  BY DEF Dict
<1> DEFINE K == {k \in DOMAIN call.entries : call.entries[k][1] = key}
<1>1. Len(call.entries) \in Nat /\ K \in SUBSET (0 .. Len(call.entries)) /\ K # {}
  BY DEF Keys
<1>2. Max(K) \in K
  <2> HIDE DEF K
  <2> QED
    BY <1>1, Largest
<1>3. Dict(call)[key] = call.entries[Max(K)][2]
  BY DEF Dict
<1>4. \A k \in DOMAIN call.entries : call.entries[k][2] \in AnyValue
  OBVIOUS
<1> HIDE DEF K
<1>5. K \subseteq DOMAIN call.entries
  BY DEF K
<1> QED
  BY <1>2, <1>3, <1>4, <1>5

\* MapToStruct, of props that pass CheckPropTypes: no field is at fault.
LEMMA Fields ==
  ASSUME NEW fields, NEW dict, \A key \in DOMAIN dict : dict[key] \in AnyValue,
         CheckPropTypes(fields, dict) = {},
         NEW i \in DOMAIN fields,
         fields[i].name \in DOMAIN dict /\ fields[i].type # "attrs" =>
           ~NoWay(dict[fields[i].name], fields[i].type)
  PROVE  /\ MapToStruct(fields, dict)[i] # Fault
         /\ fields[i].name \in DOMAIN dict /\ fields[i].type # "attrs" =>
              MapToStruct(fields, dict)[i].x = dict[fields[i].name].x
<1>1. CASE fields[i].type = "attrs"
  BY <1>1 DEF MapToStruct, Fault, Unset, Value
<1>2. CASE fields[i].type # "attrs" /\ fields[i].name \in DOMAIN dict
  <2>1. StrictAssignable(dict[fields[i].name], fields[i].type)
    BY <1>2 DEF CheckPropTypes
  <2>2. MapToStruct(fields, dict)[i] = SetField(dict[fields[i].name], fields[i].type)
    BY <1>2 DEF MapToStruct
  <2> QED
    BY <1>2, <2>1, <2>2, Stored
<1>3. CASE fields[i].type # "attrs" /\ fields[i].name \notin DOMAIN dict
  BY <1>3 DEF MapToStruct, Fault, Unset, Value
<1> QED
  BY <1>1, <1>2, <1>3

\* A component rendered with such props shows them, or misses required ones and
\* says so in development.
LEMMA Rendered ==
  ASSUME NEW fields, NEW call, call.entries \in Seq(STRING \X AnyValue), NEW dev \in BOOLEAN,
         CheckPropTypes(fields, Dict(call)) = {},
         \A i \in DOMAIN fields :
           fields[i].name \in DOMAIN Dict(call) /\ fields[i].type # "attrs" =>
             ~NoWay(Dict(call)[fields[i].name], fields[i].type)
  PROVE  \E r \in {RenderComponent(fields, call, dev)} :
            \/ r.result = "violation" /\ dev /\ \E i \in DOMAIN fields : fields[i].required
            \/ /\ r.result = "rendered"
               /\ \A i \in DOMAIN fields :
                    fields[i].name \in DOMAIN Dict(call) /\ fields[i].type # "attrs" =>
                      r.props[i].x = Dict(call)[fields[i].name].x
<1> DEFINE props == MapToStruct(fields, Dict(call))
<1>1. \A i \in DOMAIN fields :
        /\ props[i] # Fault
        /\ fields[i].name \in DOMAIN Dict(call) /\ fields[i].type # "attrs" =>
             props[i].x = Dict(call)[fields[i].name].x
  <2>1. \A key \in DOMAIN Dict(call) : Dict(call)[key] \in AnyValue
    BY GivenValues
  <2> QED
    BY <2>1, Fields
<1>2. DOMAIN props = DOMAIN fields
  BY DEF MapToStruct
<1> HIDE DEF props
<1>3. RenderComponent(fields, call, dev) =
        IF dev /\ HasRequired(fields) /\ CheckRequiredProps(fields, props) # {}
        THEN [result |-> "violation", props |-> <<>>]
        ELSE [result |-> "rendered", props |-> props]
  BY <1>1, <1>2 DEF RenderComponent, props
<1>4. CASE dev /\ HasRequired(fields) /\ CheckRequiredProps(fields, props) # {}
  BY <1>3, <1>4 DEF HasRequired
<1>5. CASE ~(dev /\ HasRequired(fields) /\ CheckRequiredProps(fields, props) # {})
  BY <1>1, <1>3, <1>5
<1> QED
  BY <1>4, <1>5

-----------------------------------------------------------------------------
(* What was rendered last is a rendering of the file's call.               *)

Shown == {"rendered in development", "rendered in production"}

ShownInv ==
  /\ \E part \in Parts : file \in FilesOf(part)
  /\ stage = "rendered in development" =>
       shown = RenderComponent(PropsFields(file.card), file.call, TRUE)
  /\ stage = "rendered in production" =>
       shown = RenderComponent(PropsFields(file.card), file.call, FALSE)

\* Only Render touches what is shown, and nothing follows it.
LEMMA NextShown == ShownInv /\ [Next]_vars => ShownInv'
<1> SUFFICES ASSUME ShownInv, [Next]_vars
             PROVE  ShownInv'
  OBVIOUS
<1> USE DEF ShownInv, Shown
<1>1. CASE ParseFile \/ ExpandEmbeds \/ Analyze
  BY <1>1 DEF ParseFile, ExpandEmbeds, Analyze, Fail
<1>2. CASE Validate \/ Generate
  BY <1>2 DEF Validate, Generate, Fail
<1>3. CASE GoBuild \/ Start
  BY <1>3 DEF GoBuild, Start
<1>4. ASSUME NEW dev \in BOOLEAN, Render(dev)
      PROVE  ShownInv'
  BY <1>4 DEF Render
<1>5. CASE OpenInEditor
  BY <1>5 DEF OpenInEditor
<1>6. CASE UNCHANGED vars
  BY <1>6 DEF vars
<1> QED
  BY <1>1, <1>2, <1>3, <1>4, <1>5, <1>6 DEF Next

\* Whatever the component declares and the call passes, props that pass
\* CheckPropTypes (props_check.go) and have a way into their fields (setField,
\* props.go) are shown as they were given.
THEOREM PropsShownHolds == Spec => []PropsShown
<1>1. Init => ShownInv
  BY DEF Init, ShownInv, Shown
<1>2. ShownInv => PropsShown
  <2> SUFFICES ASSUME ShownInv, stage \in Shown,
                      CheckPropTypes(PropsFields(file.card), Given) = {},
                      \A i \in {j \in DOMAIN PropsFields(file.card) :
                                  /\ PropsFields(file.card)[j].name \in DOMAIN Given
                                  /\ PropsFields(file.card)[j].type # "attrs"} :
                        ~NoWay(Given[PropsFields(file.card)[i].name], PropsFields(file.card)[i].type)
               PROVE  \/ /\ shown.result = "violation" /\ stage = "rendered in development"
                         /\ \E i \in DOMAIN PropsFields(file.card) : PropsFields(file.card)[i].required
                      \/ /\ shown.result = "rendered"
                         /\ \A i \in {j \in DOMAIN PropsFields(file.card) :
                                        /\ PropsFields(file.card)[j].name \in DOMAIN Given
                                        /\ PropsFields(file.card)[j].type # "attrs"} :
                              shown.props[i].x = Given[PropsFields(file.card)[i].name].x
    BY DEF PropsShown, Shown
  <2> DEFINE fields == PropsFields(file.card)
             call   == file.call
  <2>1. call.entries \in Seq(STRING \X AnyValue)
    BY CompileFileAssumption DEF ShownInv, CompileFileAssumption
  <2>2. PICK dev \in BOOLEAN : /\ shown = RenderComponent(fields, call, dev)
                               /\ dev <=> stage = "rendered in development"
    BY DEF ShownInv, Shown
  <2>3. \A i \in DOMAIN fields :
          fields[i].name \in DOMAIN Dict(call) /\ fields[i].type # "attrs" =>
            ~NoWay(Dict(call)[fields[i].name], fields[i].type)
    BY DEF Given
  <2>4. CheckPropTypes(fields, Dict(call)) = {}
    BY DEF Given
  <2>5. \E r \in {RenderComponent(fields, call, dev)} :
          \/ r.result = "violation" /\ dev /\ \E i \in DOMAIN fields : fields[i].required
          \/ /\ r.result = "rendered"
             /\ \A i \in DOMAIN fields :
                  fields[i].name \in DOMAIN Dict(call) /\ fields[i].type # "attrs" =>
                    r.props[i].x = Dict(call)[fields[i].name].x
    <3> HIDE DEF fields, call
    <3> QED
      BY <2>1, <2>3, <2>4, Rendered, ZenonT(30)
  <2> QED
    BY <2>2, <2>5 DEF Given
<1> QED
  BY <1>1, <1>2, NextShown, PTL DEF Spec
=============================================================================

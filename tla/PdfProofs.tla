------------------------------ MODULE PdfProofs ------------------------------
(***************************************************************************)
(* What extract_pdf of pdf_extraction.py promises of every document,       *)
(* whatever its readers answer, and whenever one of them fails.            *)
(***************************************************************************)
EXTENDS PdfExtraction, TLAPS, FiniteSetTheorems, SequenceTheorems, WellFoundedInduction

(***************************************************************************)
(* Recursive functions on 0..n.                                            *)
(***************************************************************************)

LEMMA Least ==
    ASSUME NEW T, T \subseteq Nat, T # {}
    PROVE  \E x \in T : \A y \in T : x <= y
<1>1. IsWellFoundedOn(OpToRel(<, Nat), Nat) BY NatLessThanWellFounded
<1>2. PICK x \in T : \A y \in T : ~(<<y, x>> \in OpToRel(<, Nat)) BY <1>1, WFMin
<1>3. ASSUME NEW y \in T PROVE x <= y
  <2>1. ~(y < x) BY <1>2 DEF OpToRel
  <2> QED BY <2>1
<1> QED BY <1>3

LEMMA UpTo ==
    ASSUME NEW n \in Nat, NEW A, 0 \in A, \A k \in 1..n : k - 1 \in A => k \in A
    PROVE  0..n \subseteq A
<1> DEFINE T == (0..n) \ A
<1> SUFFICES ASSUME T # {} PROVE FALSE OBVIOUS
<1>1. PICK k \in T : \A j \in T : k <= j
  <2>1. T \subseteq Nat OBVIOUS
  <2> HIDE DEF T
  <2> QED BY <2>1, Least
<1>2. k \in 1..n /\ k - 1 \in 0..n OBVIOUS
<1>3. k - 1 \in T BY <1>2
<1> QED BY <1>1, <1>2, <1>3

\* A function may be given by its first value and by a step from each to the next.
Iterates(n, X, x, step) ==
    \E f \in [0..n -> X] : f[0] = x /\ \A k \in 1..n : f[k] = step[<<k, f[k - 1]>>]
LEMMA Iterated ==
    ASSUME NEW n \in Nat, NEW X, NEW x \in X, NEW step \in [(1..n) \X X -> X]
    PROVE  Iterates(n, X, x, step)
<1> DEFINE Good(m, f) == f[0] = x /\ \A k \in 1..m : f[k] = step[<<k, f[k - 1]>>]
           A == {m \in 0..n : \E f \in [0..m -> X] : Good(m, f)}
<1>1. 0 \in A
  <2> DEFINE f == [k \in 0..0 |-> x]
  <2>1. f \in [0..0 -> X] /\ f[0] = x /\ 1..0 = {} OBVIOUS
  <2> HIDE DEF f
  <2>2. Good(0, f) BY <2>1
  <2> QED BY <2>1, <2>2
<1>2. ASSUME NEW m \in 1..n, m - 1 \in A PROVE m \in A
  <2>1. PICK f \in [0..(m - 1) -> X] : Good(m - 1, f) BY <1>2
  <2> DEFINE g == [k \in 0..m |-> IF k = m THEN step[<<m, f[m - 1]>>] ELSE f[k]]
  <2>2. f[m - 1] \in X OBVIOUS
  <2>3. step[<<m, f[m - 1]>>] \in X BY <2>2
  <2>4. g \in [0..m -> X] BY <2>3
  <2>5. g[0] = x BY <2>1
  <2>6. ASSUME NEW k \in 1..m PROVE g[k] = step[<<k, g[k - 1]>>]
    <3>1. CASE k = m
      <4>1. m \in 0..m /\ m - 1 \in 0..m /\ m - 1 # m OBVIOUS
      <4>2. g[m] = step[<<m, f[m - 1]>>] /\ g[m - 1] = f[m - 1] BY <4>1
      <4> HIDE DEF g
      <4> QED BY <3>1, <4>2
    <3>2. CASE k # m
      <4>1. k \in 1..(m - 1) BY <3>2
      <4>2. f[k] = step[<<k, f[k - 1]>>] BY <2>1, <4>1
      <4>3. g[k] = f[k] /\ g[k - 1] = f[k - 1] BY <4>1
      <4> QED BY <4>2, <4>3
    <3> QED BY <3>1, <3>2
  <2> HIDE DEF g
  <2> QED BY <2>4, <2>5, <2>6
<1> HIDE DEF A
<1>3. 0..n \subseteq A BY <1>1, <1>2, UpTo
<1>4. n \in A BY <1>3
<1> QED BY <1>4 DEF A, Iterates

(***************************************************************************)
(* Sequences of rows.                                                      *)
(***************************************************************************)

LEMMA ElementsOf ==
    ASSUME NEW R, NEW s \in Seq(R)
    PROVE  /\ Elements(s) \subseteq R
           /\ Elements(s) = {s[i] : i \in 1..Len(s)}
           /\ Elements(s) = {} <=> s = <<>>
BY EmptySeq DEF Elements

LEMMA ElementsOfConcat ==
    ASSUME NEW R, NEW s \in Seq(R), NEW t \in Seq(R)
    PROVE  s \o t \in Seq(R) /\ Elements(s \o t) = Elements(s) \cup Elements(t)
<1>1. /\ s \o t \in Seq(R) /\ Len(s \o t) = Len(s) + Len(t)
      /\ \A i \in 1..(Len(s) + Len(t)) :
            (s \o t)[i] = IF i <= Len(s) THEN s[i] ELSE t[i - Len(s)]
  BY ConcatProperties
<1>2. /\ Elements(s \o t) = {(s \o t)[i] : i \in 1..(Len(s) + Len(t))}
      /\ Elements(s) = {s[i] : i \in 1..Len(s)} /\ Elements(t) = {t[i] : i \in 1..Len(t)}
  <2>1. Elements(s \o t) = {(s \o t)[i] : i \in 1..Len(s \o t)} BY <1>1, ElementsOf
  <2>2. /\ Elements(s) = {s[i] : i \in 1..Len(s)}
        /\ Elements(t) = {t[i] : i \in 1..Len(t)} BY ElementsOf
  <2> QED BY <1>1, <2>1, <2>2, Zenon
<1>3. Len(s) \in Nat /\ Len(t) \in Nat OBVIOUS
<1>4. ASSUME NEW x \in Elements(s \o t) PROVE x \in Elements(s) \cup Elements(t)
  <2>1. PICK i \in 1..(Len(s) + Len(t)) : x = (s \o t)[i] BY <1>2
  <2>2. CASE i <= Len(s)
    <3>1. i \in 1..Len(s) /\ x = s[i] BY <1>1, <1>3, <2>1, <2>2
    <3> QED BY <1>2, <3>1
  <2>3. CASE ~(i <= Len(s))
    <3>1. i - Len(s) \in 1..Len(t) /\ x = t[i - Len(s)] BY <1>1, <1>3, <2>1, <2>3
    <3> QED BY <1>2, <3>1
  <2> QED BY <2>2, <2>3
<1>5. ASSUME NEW x \in Elements(s) PROVE x \in Elements(s \o t)
  <2>1. PICK i \in 1..Len(s) : x = s[i] BY <1>2
  <2>2. i \in 1..(Len(s) + Len(t)) /\ x = (s \o t)[i] BY <1>1, <1>3, <2>1
  <2> QED BY <1>2, <2>2
<1>6. ASSUME NEW x \in Elements(t) PROVE x \in Elements(s \o t)
  <2>1. PICK i \in 1..Len(t) : x = t[i] BY <1>2
  <2>2. i + Len(s) \in 1..(Len(s) + Len(t)) /\ x = (s \o t)[i + Len(s)]
    BY <1>1, <1>3, <2>1
  <2> QED BY <1>2, <2>2
<1> QED BY <1>1, <1>4, <1>5, <1>6

\* The elements at indices in S are in the sequence that At makes of them.
LEMMA AtFacts ==
    ASSUME NEW R, NEW s \in Seq(R), NEW S
    PROVE  /\ At(s, S) \in Seq(R)
           /\ Elements(At(s, S)) = {s[i] : i \in (1..Len(s)) \cap S}
<1> DEFINE N == Len(s)
           Body(f, n) == IF n = 0 THEN <<>>
                         ELSE IF n \in S THEN Append(f[n - 1], s[n]) ELSE f[n - 1]
           step == [p \in (1..N) \X Seq(R) |->
                        IF p[1] \in S THEN Append(p[2], s[p[1]]) ELSE p[2]]
           upto == CHOOSE f : f = [n \in 0..N |-> Body(f, n)]
<1>1. N \in Nat /\ \A n \in 1..N : s[n] \in R OBVIOUS
<1>2. step \in [(1..N) \X Seq(R) -> Seq(R)] BY <1>1
<1>3. PICK f \in [0..N -> Seq(R)] :
        f[0] = <<>> /\ \A n \in 1..N : f[n] = step[<<n, f[n - 1]>>]
  <2>1. <<>> \in Seq(R) OBVIOUS
  <2> DEFINE X == Seq(R)
  <2>2. step \in [(1..N) \X X -> X] /\ <<>> \in X BY <1>2, <2>1
  <2> HIDE DEF step, N, X
  <2>3. Iterates(N, X, <<>>, step) BY <1>1, <2>2, Iterated
  <2> QED BY <2>3 DEF X, Iterates
<1>4. f = [n \in 0..N |-> Body(f, n)]
  <2>1. ASSUME NEW n \in 0..N PROVE f[n] = Body(f, n)
    <3>1. CASE n = 0 BY <1>3, <3>1
    <3>2. CASE n # 0
      <4>1. n \in 1..N /\ n - 1 \in 0..N BY <1>1, <3>2
      <4>2. f[n - 1] \in Seq(R) BY <4>1
      <4>3. f[n] = step[<<n, f[n - 1]>>] BY <1>3, <4>1
      <4>4. <<n, f[n - 1]>> \in (1..N) \X Seq(R) BY <4>1, <4>2
      <4>5. step[<<n, f[n - 1]>>] = IF n \in S THEN Append(f[n - 1], s[n]) ELSE f[n - 1]
        BY <4>4
      <4> QED BY <3>2, <4>3, <4>5
    <3> QED BY <3>1, <3>2
  <2> HIDE DEF Body, N
  <2> QED BY <2>1
<1>5. upto = [n \in 0..N |-> Body(upto, n)]
  <2> HIDE DEF Body, N
  <2> QED BY <1>4
<1>6. At(s, S) = upto[N] BY Zenon DEF At
<1> HIDE DEF upto
<1> DEFINE Right(n) == /\ upto[n] \in Seq(R)
                       /\ Elements(upto[n]) = {s[i] : i \in (1..n) \cap S}
           A == {n \in 0..N : Right(n)}
<1>7. 0 \in A
  <2>1. upto[0] = <<>> BY <1>1, <1>5
  <2>2. Elements(<<>>) = {} /\ <<>> \in Seq(R) BY DEF Elements
  <2>3. {s[i] : i \in (1..0) \cap S} = {} OBVIOUS
  <2>4. Right(0)
    <3> HIDE DEF upto, N
    <3>1. Elements(upto[0]) = {} /\ upto[0] \in Seq(R) BY <2>1, <2>2, Zenon
    <3> QED BY <2>3, <3>1, Zenon
  <2> QED BY <1>1, <2>4
<1>8. ASSUME NEW n \in 1..N, n - 1 \in A PROVE n \in A
  <2>1. /\ upto[n - 1] \in Seq(R)
        /\ Elements(upto[n - 1]) = {s[i] : i \in (1..(n - 1)) \cap S} BY <1>8
  <2>2. upto[n] = IF n \in S THEN Append(upto[n - 1], s[n]) ELSE upto[n - 1]
    <3>1. n \in 0..N /\ n # 0 BY <1>1
    <3>2. upto[n] = Body(upto, n)
      <4> HIDE DEF Body, N
      <4> QED BY <1>5, <3>1
    <3> QED BY <3>1, <3>2
  <2>3. CASE n \in S
    <3>1. s[n] \in R BY <1>1
    <3>2. upto[n] = upto[n - 1] \o <<s[n]>> BY <2>1, <2>2, <2>3, <3>1, AppendIsConcat
    <3>3. <<s[n]>> \in Seq(R) /\ Elements(<<s[n]>>) = {s[n]} BY <3>1 DEF Elements
    <3>4. upto[n] \in Seq(R) /\ Elements(upto[n]) = Elements(upto[n - 1]) \cup {s[n]}
      <4> DEFINE t == <<s[n]>>
      <4>0. t \in Seq(R) BY <3>3
      <4> HIDE DEF t
      <4>1. /\ upto[n - 1] \o t \in Seq(R)
            /\ Elements(upto[n - 1] \o t) = Elements(upto[n - 1]) \cup Elements(t)
        BY <2>1, <4>0, ElementsOfConcat
      <4>2. upto[n] = upto[n - 1] \o t BY <3>2 DEF t
      <4> QED BY <3>3, <4>1, <4>2, Zenon DEF t
    <3>5. (1..n) \cap S = ((1..(n - 1)) \cap S) \cup {n} BY <1>1, <2>3
    <3> QED BY <2>1, <3>4, <3>5
  <2>4. CASE n \notin S
    <3>1. (1..n) \cap S = (1..(n - 1)) \cap S BY <1>1, <2>4
    <3> QED BY <2>1, <2>2, <2>4, <3>1
  <2> QED BY <2>3, <2>4
<1>9. N \in A
  <2> HIDE DEF A, N
  <2>1. 0..N \subseteq A BY <1>1, <1>7, <1>8, UpTo
  <2> QED BY <1>1, <2>1
<1> QED BY <1>6, <1>9

\* The readers' rows, and what reconciling makes of them.
RawRows ==
    (UNION {Elements(a.rows) \cup Elements(a.rejected) : a \in LayoutAnswers \cup CoordinateAnswers})
    \cup (UNION {Elements(a.rows) \cup Elements(a.quarantined) : a \in GridAnswers})
Places == {r.mark : r \in RawRows}
Entry == {r[f] : r \in RawRows, f \in RowFields}
Values == Entry \cup (SUBSET Places) \cup {"prior"}
Row == {r \in [RowFields -> Values] : r.marks \subseteq Places}

LEMMA MarksAre ==
    ASSUME NEW s PROVE MarksOf(s) = Marks(Elements(s))
BY DEF MarksOf, Marks, Elements

LEMMA MarksUnion ==
    ASSUME NEW S, NEW T
    PROVE  Marks(S \cup T) = Marks(S) \cup Marks(T)
BY DEF Marks

LEMMA Sorted ==
    ASSUME NEW R, NEW s \in Seq(R), NEW code
    PROVE  /\ Coded(s, code) \in Seq(R) /\ NotCoded(s, code) \in Seq(R)
           /\ Elements(Coded(s, code)) = {r \in Elements(s) : r.code = code}
           /\ Elements(NotCoded(s, code)) = {r \in Elements(s) : r.code # code}
<1> DEFINE S == {i \in DOMAIN s : s[i].code = code}
           T == {i \in DOMAIN s : s[i].code # code}
<1>1. DOMAIN s = 1..Len(s) /\ Elements(s) = {s[i] : i \in 1..Len(s)} BY ElementsOf
<1>2. /\ At(s, S) \in Seq(R) /\ Elements(At(s, S)) = {s[i] : i \in (1..Len(s)) \cap S}
      /\ At(s, T) \in Seq(R) /\ Elements(At(s, T)) = {s[i] : i \in (1..Len(s)) \cap T}
  <2> HIDE DEF S, T
  <2> QED BY AtFacts
<1>3. {s[i] : i \in (1..Len(s)) \cap S} = {r \in Elements(s) : r.code = code} BY <1>1
<1>4. {s[i] : i \in (1..Len(s)) \cap T} = {r \in Elements(s) : r.code # code} BY <1>1
<1>5. Coded(s, code) = At(s, S) /\ NotCoded(s, code) = At(s, T) BY Zenon DEF Coded, NotCoded
<1> HIDE DEF S, T
<1> QED BY <1>2, <1>3, <1>4, <1>5

LEMMA OnFacts ==
    ASSUME NEW R, NEW s \in Seq(R), NEW pages
    PROVE  /\ On(s, pages) \in Seq(R)
           /\ Elements(On(s, pages)) = {r \in Elements(s) : PageOf(r) \in pages}
<1> DEFINE S == {i \in DOMAIN s : PageOf(s[i]) \in pages}
<1>1. DOMAIN s = 1..Len(s) /\ Elements(s) = {s[i] : i \in 1..Len(s)} BY ElementsOf
<1>2. At(s, S) \in Seq(R) /\ Elements(At(s, S)) = {s[i] : i \in (1..Len(s)) \cap S}
  <2> HIDE DEF S
  <2> QED BY AtFacts
<1>3. {s[i] : i \in (1..Len(s)) \cap S} = {r \in Elements(s) : PageOf(r) \in pages} BY <1>1
<1>4. On(s, pages) = At(s, S) BY Zenon DEF On
<1> HIDE DEF S
<1> QED BY <1>2, <1>3, <1>4

LEMMA MergedIsRow ==
    ASSUME NEW a \in Row, NEW b \in Row
    PROVE  /\ Merged(a, b) \in Row
           /\ Merged(a, b).marks = a.marks \cup b.marks
           /\ \A f \in Fields : Merged(a, b)[f] = IF a[f] = None THEN b[f] ELSE a[f]
<1>1. DOMAIN a = RowFields /\ "marks" \in RowFields BY DEF Row, RowFields
<1>2. a.marks \cup b.marks \subseteq Places BY DEF Row
<1>3. a.marks \cup b.marks \in Values BY <1>2 DEF Values
<1>4. Merged(a, b) \in [RowFields -> Values] BY <1>1, <1>3 DEF Row, Merged
<1>5. Merged(a, b).marks = a.marks \cup b.marks BY <1>1 DEF Merged
<1>6. \A f \in Fields : f \in RowFields /\ f # "marks" BY DEF Fields, RowFields
<1>7. \A f \in Fields : Merged(a, b)[f] = IF a[f] = None THEN b[f] ELSE a[f]
  BY <1>1, <1>6 DEF Merged
<1> QED BY <1>2, <1>4, <1>5, <1>7 DEF Row

(***************************************************************************)
(* Matching.                                                               *)
(***************************************************************************)

\* A row is matched with at most one row, which nobody has.
AtMostOne(S) == S = {} \/ \E x \in S : S = {x}

LEMMA PartnerIsOne ==
    ASSUME NEW left, NEW R, NEW right \in Seq(R), NEW i, NEW free \in SUBSET (1..Len(right))
    PROVE  LET p == Partner(left, right, i, free) IN p \subseteq free /\ AtMostOne(p)
<1> DEFINE steps == Ladder(left, right, i, free)
           hits == {k \in DOMAIN steps : steps[k] # {}}
           Right(S) == S \subseteq free /\ AtMostOne(S)
<1>1. ASSUME NEW S \in SUBSET (1..Len(right)), Cardinality(S) = 1 PROVE \E x \in S : S = {x}
  <2>1. IsFiniteSet(1..Len(right)) BY FS_Interval
  <2>2. IsFiniteSet(S) BY <2>1, FS_Subset
  <2> QED BY <1>1, <2>2, FS_Singleton
<1>2. Right({}) BY DEF AtMostOne
<1>3. /\ DOMAIN steps = 1..4
      /\ Right(steps[1]) /\ Right(steps[2]) /\ Right(steps[3]) /\ Right(steps[4])
  <2> DEFINE row == left[i]
             Open(S) == {j \in S \cap free : Compatible(row, right[j])}
             drawn == {k \in DOMAIN right :
                         Physical(row) # None /\ Physical(right[k]) = Physical(row)}
             same == {k \in DOMAIN right : Identity(right[k]) = Identity(row)}
             placed == {k \in DOMAIN right :
                         /\ row.address # None /\ right[k].address = row.address
                         /\ PageOf(right[k]) = PageOf(row)}
             named == {k \in DOMAIN right : row.name # None /\ right[k].name = row.name
                                             /\ PageOf(right[k]) = PageOf(row)}
             One(S) == Cardinality(S) = 1
             drawnLeft == {k \in DOMAIN left :
                         Physical(row) # None /\ Physical(left[k]) = Physical(row)}
             placedLeft == {k \in DOMAIN left :
                         /\ row.address # None /\ left[k].address = row.address
                         /\ PageOf(left[k]) = PageOf(row)}
             namedLeft == {k \in DOMAIN left : row.name # None /\ left[k].name = row.name
                                             /\ PageOf(left[k]) = PageOf(row)}
             Alone(S) == One({k \in S : Compatible(row, left[k])})
             Only(S) == IF One(S) THEN S ELSE {}
             s1 == IF One(drawnLeft) /\ One(drawn) THEN Open(drawn) ELSE {}
             s2 == Only(Open(same))
             s3 == IF Alone(placedLeft) THEN Only(Open(placed)) ELSE {}
             s4 == IF Alone(namedLeft) THEN Only(Open(named)) ELSE {}
  <2>0. steps = <<s1, s2, s3, s4>> BY Zenon DEF Ladder
  <2>1. /\ DOMAIN steps = 1..4
        /\ steps[1] = {} \/ (Cardinality(drawn) = 1 /\ steps[1] = Open(drawn))
        /\ steps[2] = {} \/ (Cardinality(Open(same)) = 1 /\ steps[2] = Open(same))
        /\ steps[3] = {} \/ (Cardinality(Open(placed)) = 1 /\ steps[3] = Open(placed))
        /\ steps[4] = {} \/ (Cardinality(Open(named)) = 1 /\ steps[4] = Open(named))
    <3> HIDE DEF drawn, same, placed, named, Open, drawnLeft, Alone
    <3>1. /\ s1 = {} \/ (Cardinality(drawn) = 1 /\ s1 = Open(drawn))
          /\ s2 = {} \/ (Cardinality(Open(same)) = 1 /\ s2 = Open(same))
          /\ s3 = {} \/ (Cardinality(Open(placed)) = 1 /\ s3 = Open(placed))
          /\ s4 = {} \/ (Cardinality(Open(named)) = 1 /\ s4 = Open(named))
      OBVIOUS
    <3> HIDE DEF steps, s1, s2, s3, s4
    <3>2. DOMAIN steps = 1..4 /\ steps[1] = s1 /\ steps[2] = s2 /\ steps[3] = s3 /\ steps[4] = s4
      BY <2>0
    <3> QED BY <3>1, <3>2
  <2>2. drawn \subseteq 1..Len(right) OBVIOUS
  <2>3. \A S : Open(S) \subseteq S /\ Open(S) \subseteq free OBVIOUS
  <2> HIDE DEF steps, drawn, same, placed, named, Open, One
  <2>4. Right(steps[1])
    <3>1. ASSUME Cardinality(drawn) = 1 PROVE Right(Open(drawn))
      <4>1. PICK x \in drawn : drawn = {x} BY <1>1, <2>2, <3>1
      <4>2. Open(drawn) \subseteq {x} BY <2>3, <4>1
      <4> QED BY <2>3, <4>2 DEF AtMostOne
    <3> QED BY <1>2, <2>1, <3>1
  <2>5. ASSUME NEW S, Cardinality(Open(S)) = 1 PROVE Right(Open(S))
    <3>1. Open(S) \in SUBSET (1..Len(right)) BY <2>3
    <3>2. \E x \in Open(S) : Open(S) = {x} BY <1>1, <2>5, <3>1
    <3> QED BY <2>3, <3>2 DEF AtMostOne
  <2> HIDE DEF Right
  <2> QED BY <1>2, <2>1, <2>4, <2>5
<1> HIDE DEF steps
<1>4. CASE hits = {}
  <2>1. Partner(left, right, i, free) = {} BY <1>4 DEF Partner, FirstHit, steps
  <2> QED BY <1>2, <2>1
<1>5. CASE hits # {}
  <2> DEFINE k == CHOOSE x \in hits : \A j \in hits : x <= j
  <2>1. hits \subseteq 1..4 BY <1>3
  <2>2. \E x \in hits : \A j \in hits : x <= j
    <3>1. hits \subseteq Nat BY <2>1
    <3> HIDE DEF hits
    <3> QED BY <1>5, <3>1, Least
  <2>3. k \in hits
    <3> HIDE DEF hits
    <3> QED BY <2>2
  <2> HIDE DEF k
  <2>4. Right(steps[k])
    <3>1. k \in 1..4 BY <2>1, <2>3
    <3>2. k = 1 \/ k = 2 \/ k = 3 \/ k = 4 BY <3>1
    <3> QED BY <1>3, <3>2
  <2>5. Partner(left, right, i, free) = steps[k] BY <1>5, Zenon DEF Partner, FirstHit, steps, k
  <2> QED BY <2>4, <2>5
<1> QED BY <1>4, <1>5

\* Each row on the right is still free or the partner of one row on the left.
LEMMA MatchingFacts ==
    ASSUME NEW L, NEW left \in Seq(L), NEW R, NEW right \in Seq(R)
    PROVE  LET m == Matching(left, right) IN
           /\ m.free \subseteq 1..Len(right)
           /\ \A i \in 1..Len(left) : m.of[i] \subseteq 1..Len(right) /\ AtMostOne(m.of[i])
           /\ \A j \in 1..Len(right) : j \in m.free \/ \E i \in 1..Len(left) : j \in m.of[i]
<1> DEFINE N == Len(left)
           D == 1..Len(right)
           Next1(m, n) == Choice(left, right, n, m)
           start == [free |-> D, of |-> <<>>]
           Body(f, n) == IF n = 0 THEN [free |-> DOMAIN right, of |-> <<>>]
                         ELSE Choice(left, right, n, f[n - 1])
           X == [free : SUBSET D, of : Seq(SUBSET D)]
           step == [p \in (1..N) \X X |-> Next1(p[2], p[1])]
           after == CHOOSE f : f = [n \in 0..N |-> Body(f, n)]
<1>1. N \in Nat /\ DOMAIN right = D OBVIOUS
<1>2. start \in X OBVIOUS
<1>3. ASSUME NEW m \in X, NEW n
      PROVE  LET p == Partner(left, right, n, m.free) IN
             /\ p \subseteq m.free /\ AtMostOne(p)
             /\ Next1(m, n) \in X
             /\ Next1(m, n).free = m.free \ p
             /\ Next1(m, n).of = Append(m.of, p)
  <2> DEFINE p == Partner(left, right, n, m.free)
  <2>1. p \subseteq m.free /\ AtMostOne(p) BY PartnerIsOne
  <2> HIDE DEF p
  <2>2. Next1(m, n) = [free |-> m.free \ p, of |-> Append(m.of, p)] BY DEF p, Choice
  <2>3. Append(m.of, p) \in Seq(SUBSET D) BY <2>1
  <2> HIDE DEF Next1
  <2>4. Next1(m, n) \in X BY <2>1, <2>2, <2>3
  <2> QED BY <2>1, <2>2, <2>4 DEF p
<1>4. step \in [(1..N) \X X -> X]
  <2>1. \A m \in X : \A n : Next1(m, n) \in X BY <1>3
  <2> HIDE DEF Next1, X
  <2> QED BY <2>1
<1>5. PICK f \in [0..N -> X] : f[0] = start /\ \A n \in 1..N : f[n] = step[<<n, f[n - 1]>>]
  <2> HIDE DEF X, step, start, N
  <2>1. Iterates(N, X, start, step) BY <1>1, <1>2, <1>4, Iterated
  <2> QED BY <2>1 DEF Iterates
<1>6. f = [n \in 0..N |-> Body(f, n)]
  <2>1. ASSUME NEW n \in 0..N PROVE f[n] = Body(f, n)
    <3>1. CASE n = 0 BY <1>5, <3>1
    <3>2. CASE n # 0
      <4>1. n \in 1..N /\ n - 1 \in 0..N BY <1>1, <3>2
      <4>2. f[n] = step[<<n, f[n - 1]>>] /\ f[n - 1] \in X
        <5> HIDE DEF step, X, N
        <5> QED BY <1>5, <4>1
      <4>3. f[n] = Next1(f[n - 1], n)
        <5> HIDE DEF Next1, X, N
        <5> QED BY <4>1, <4>2
      <4> QED BY <3>2, <4>3, Zenon
    <3> QED BY <3>1, <3>2
  <2> HIDE DEF Body, N, X
  <2> QED BY <2>1
<1>7. after = [n \in 0..N |-> Body(after, n)]
  <2> HIDE DEF Body, N
  <2> QED BY <1>6
<1>8. Matching(left, right) = after[N] BY Zenon DEF Matching
<1> HIDE DEF after
<1> DEFINE Right(n) ==
             /\ after[n] \in X /\ Len(after[n].of) = n
             /\ \A i \in 1..n : AtMostOne(after[n].of[i])
             /\ \A j \in D : j \in after[n].free \/ \E i \in 1..n : j \in after[n].of[i]
           A == {n \in 0..N : Right(n)}
<1>9. 0 \in A
  <2>1. after[0] = start BY <1>1, <1>7
  <2>2. start.free = D /\ Len(start.of) = 0 OBVIOUS
  <2> HIDE DEF start, X, D
  <2> QED BY <1>1, <1>2, <2>1, <2>2
<1>10. ASSUME NEW n \in 1..N, n - 1 \in A PROVE n \in A
  <2> DEFINE m == after[n - 1]
             p == Partner(left, right, n, m.free)
  <2>1. /\ m \in X /\ Len(m.of) = n - 1
        /\ \A i \in 1..(n - 1) : AtMostOne(m.of[i])
        /\ \A j \in D : j \in m.free \/ \E i \in 1..(n - 1) : j \in m.of[i]
    BY <1>10
  <2>2. after[n] = Next1(m, n)
    <3>1. n \in 0..N /\ n # 0 BY <1>1
    <3>2. after[n] = Body(after, n)
      <4> HIDE DEF Body, N
      <4> QED BY <1>7, <3>1
    <3> QED BY <3>1, <3>2
  <2>3. /\ p \subseteq m.free /\ AtMostOne(p) /\ after[n] \in X
        /\ after[n].free = m.free \ p /\ after[n].of = Append(m.of, p)
    <3> HIDE DEF Next1, X, m
    <3>1. /\ p \subseteq m.free /\ AtMostOne(p) /\ Next1(m, n) \in X
          /\ Next1(m, n).free = m.free \ p /\ Next1(m, n).of = Append(m.of, p)
      BY <1>3, <2>1, Zenon
    <3> QED BY <2>2, <3>1, Zenon
  <2>4. m.of \in Seq(SUBSET D) /\ m.free \subseteq D BY <2>1
  <2> HIDE DEF m, p
  <2>5. p \in SUBSET D BY <2>3, <2>4
  <2>6. /\ Len(after[n].of) = n /\ after[n].of[n] = p
        /\ \A i \in 1..(n - 1) : after[n].of[i] = m.of[i]
    <3>1. /\ Len(Append(m.of, p)) = n
          /\ \A i \in 1..(n - 1) : Append(m.of, p)[i] = m.of[i]
          /\ Append(m.of, p)[n] = p
      BY <1>1, <2>1, <2>4, <2>5, AppendProperties
    <3> QED BY <2>3, <3>1
  <2>7. ASSUME NEW i \in 1..n PROVE AtMostOne(after[n].of[i])
    <3>1. i = n \/ i \in 1..(n - 1) BY <1>1
    <3> QED BY <2>1, <2>3, <2>6, <3>1
  <2>8. ASSUME NEW j \in D
        PROVE  j \in after[n].free \/ \E i \in 1..n : j \in after[n].of[i]
    <3>1. CASE j \in p
      <4>1. n \in 1..n /\ j \in after[n].of[n] BY <1>1, <2>6, <3>1
      <4> QED BY <4>1
    <3>2. CASE j \notin p /\ j \in m.free BY <2>3, <3>2
    <3>3. CASE \E i \in 1..(n - 1) : j \in m.of[i]
      <4>1. PICK i \in 1..(n - 1) : j \in m.of[i] BY <3>3
      <4>2. i \in 1..n /\ j \in after[n].of[i] BY <1>1, <2>6, <4>1
      <4> QED BY <4>2
    <3> QED BY <2>1, <3>1, <3>2, <3>3
  <2> HIDE DEF X, D
  <2>9. Right(n) BY <2>3, <2>6, <2>7, <2>8
  <2>10. n \in 0..N BY <1>1
  <2> QED BY <2>9, <2>10
<1>11. Right(N)
  <2>1. N \in A
    <3> HIDE DEF A, N
    <3>1. 0..N \subseteq A BY <1>1, <1>9, <1>10, UpTo
    <3> QED BY <1>1, <3>1
  <2> QED BY <2>1
<1> HIDE DEF N, D
<1>12. after[N].free \subseteq D /\ \A i \in 1..N : after[N].of[i] \subseteq D
  <2>1. after[N].of \in Seq(SUBSET D) /\ after[N].free \subseteq D BY <1>11
  <2>2. \A i \in 1..N : after[N].of[i] \in SUBSET D BY <1>1, <1>11, <2>1, ElementOfSeq
  <2> QED BY <2>1, <2>2
<1> QED BY <1>8, <1>11, <1>12 DEF N, D

(***************************************************************************)
(* Reconciling: no row gets lost, and a record is a row or is made of two  *)
(* that do not conflict.                                                   *)
(***************************************************************************)

MarksIn(s) == Marks(Elements(s))
Joined(r, left, right) ==
    \/ r \in left \cup right
    \/ \E a \in left, b \in right : ~Conflicts(a, b) /\ r = Merged(a, b)

LEMMA PairsFacts ==
    ASSUME NEW all \in Seq(Row), NEW right \in Seq(Row), NEW kept \in Nat, NEW of,
           \A i \in 1..Len(all) : of[i] \subseteq 1..Len(right) /\ AtMostOne(of[i])
    PROVE  LET P == Pairs(all, kept, right, of) IN
           /\ DOMAIN P = 1..Len(all)
           /\ RowsOf(P) \in Seq(Row) /\ Len(RowsOf(P)) = Len(all)
           /\ \A i \in 1..Len(all) :
                /\ RowsOf(P)[i].marks = all[i].marks \cup UNION {right[j].marks : j \in of[i]}
                /\ ~P[i].held => i > kept /\ Joined(RowsOf(P)[i], {all[i]}, Elements(right))
<1> DEFINE P == Pairs(all, kept, right, of)
           Other(i) == right[CHOOSE j \in of[i] : TRUE]
           Pair(i, clash, row) == [row |-> row, clash |-> clash, held |-> clash \/ i <= kept]
           Met(i, row) == Pair(i, Conflicts(all[i], row), Merged(all[i], row))
<1>1. P = [i \in DOMAIN all |-> IF of[i] = {} THEN Pair(i, FALSE, all[i]) ELSE Met(i, Other(i))]
  BY Zenon DEF Pairs
<1>2. DOMAIN all = 1..Len(all) /\ Len(all) \in Nat OBVIOUS
<1>3. ASSUME NEW i \in 1..Len(all)
      PROVE  /\ P[i].row \in Row
             /\ P[i].row.marks = all[i].marks \cup UNION {right[j].marks : j \in of[i]}
             /\ ~P[i].held => i > kept /\ Joined(P[i].row, {all[i]}, Elements(right))
  <2>1. all[i] \in Row OBVIOUS
  <2>2. P[i] = IF of[i] = {} THEN Pair(i, FALSE, all[i]) ELSE Met(i, Other(i))
    <3> HIDE DEF P, Pair, Met, Other
    <3> QED BY <1>1, <1>2
  <2>3. CASE of[i] = {}
    <3>1. /\ P[i].row = all[i] /\ P[i].held = (FALSE \/ i <= kept)
      <4> HIDE DEF P
      <4> QED BY <2>2, <2>3
    <3>2. ~P[i].held => i > kept
      <4>1. ~P[i].held => ~(i <= kept) BY <3>1, Zenon
      <4> QED BY <1>2, <4>1
    <3>3. UNION {right[j].marks : j \in of[i]} = {} BY <2>3
    <3> HIDE DEF P
    <3> QED BY <2>1, <3>1, <3>2, <3>3 DEF Joined
  <2>4. CASE of[i] # {}
    <3>1. PICK j \in of[i] : of[i] = {j} BY <2>4 DEF AtMostOne
    <3>2. j \in 1..Len(right) OBVIOUS
    <3>3. Other(i) = right[j] BY <3>1
    <3>4. right[j] \in Row /\ right[j] \in Elements(right) BY <3>2, ElementsOf
    <3>5. /\ P[i].row = Merged(all[i], right[j])
          /\ P[i].held = (Conflicts(all[i], right[j]) \/ i <= kept)
      <4> HIDE DEF P, Other
      <4> QED BY <2>2, <2>4, <3>3
    <3>6. /\ Merged(all[i], right[j]) \in Row
          /\ Merged(all[i], right[j]).marks = all[i].marks \cup right[j].marks
      BY <2>1, <3>4, MergedIsRow
    <3>7. UNION {right[k].marks : k \in of[i]} = right[j].marks BY <3>1
    <3>8. ~P[i].held => i > kept /\ ~Conflicts(all[i], right[j])
      <4>1. ~P[i].held => ~(i <= kept) /\ ~Conflicts(all[i], right[j]) BY <3>5, Zenon
      <4> QED BY <1>2, <4>1
    <3> HIDE DEF P
    <3> QED BY <3>4, <3>5, <3>6, <3>7, <3>8 DEF Joined
  <2> QED BY <2>3, <2>4
<1>4. DOMAIN P = 1..Len(all) BY <1>1, <1>2
<1> HIDE DEF P
<1>5. RowsOf(P) = [i \in 1..Len(all) |-> P[i].row] BY <1>4 DEF RowsOf
<1>6. RowsOf(P) \in Seq(Row) /\ Len(RowsOf(P)) = Len(all)
  <2>1. \A i \in 1..Len(all) : P[i].row \in Row BY <1>3
  <2>2. RowsOf(P) \in [1..Len(all) -> Row] BY <1>5, <2>1
  <2> QED BY <1>2, <2>2
<1>7. \A i \in 1..Len(all) : RowsOf(P)[i] = P[i].row BY <1>5
<1> QED BY <1>3, <1>4, <1>6, <1>7 DEF P

LEMMA HeldFacts ==
    ASSUME NEW rows \in Seq(Row), NEW kept
    PROVE  LET rest == At(rows, DOMAIN rows \ Earlier(rows, kept)) IN
           /\ rest \in Seq(Row) /\ Elements(rest) \subseteq Elements(rows)
           /\ Held(rows, kept) \in Seq(Row)
           /\ MarksIn(rows) \subseteq MarksIn(rest) \cup MarksIn(Held(rows, kept))
<1> DEFINE E == Earlier(rows, kept)
           D == DOMAIN rows \ E
           prior == At(rows, E)
           held == [k \in DOMAIN prior |-> [prior[k] EXCEPT !.code = "prior"]]
<1>1. DOMAIN rows = 1..Len(rows) /\ Elements(rows) = {rows[i] : i \in 1..Len(rows)}
  BY ElementsOf
<1> HIDE DEF E
<1>2. /\ prior \in Seq(Row) /\ Elements(prior) = {rows[i] : i \in (1..Len(rows)) \cap E}
      /\ At(rows, D) \in Seq(Row) /\ Elements(At(rows, D)) = {rows[i] : i \in (1..Len(rows)) \cap D}
  <2> HIDE DEF D
  <2> QED BY AtFacts
<1>3. Elements(rows) = Elements(At(rows, D)) \cup Elements(prior)
  <2>1. (1..Len(rows)) = ((1..Len(rows)) \cap D) \cup ((1..Len(rows)) \cap E) BY <1>1
  <2> HIDE DEF D
  <2> QED BY <1>1, <1>2, <2>1
<1> HIDE DEF D, prior
<1>4. ASSUME NEW r \in Row
      PROVE  [r EXCEPT !.code = "prior"] \in Row /\ [r EXCEPT !.code = "prior"].marks = r.marks
  <2>1. "code" \in RowFields /\ "marks" \in RowFields /\ "prior" \in Values
    BY DEF RowFields, Values
  <2>2. r \in [RowFields -> Values] /\ r.marks \subseteq Places BY DEF Row
  <2>3. [r EXCEPT !.code = "prior"] \in [RowFields -> Values] BY <2>1, <2>2
  <2>4. [r EXCEPT !.code = "prior"].marks = r.marks BY <2>1, <2>2
  <2> QED BY <2>2, <2>3, <2>4 DEF Row
<1>5. /\ DOMAIN prior = 1..Len(prior) /\ Len(prior) \in Nat
      /\ \A k \in 1..Len(prior) : prior[k] \in Row
  BY <1>2
<1>6. held \in Seq(Row)
  <2>1. \A k \in 1..Len(prior) : [prior[k] EXCEPT !.code = "prior"] \in Row BY <1>4, <1>5
  <2> QED BY <1>5, <2>1
<1>7. ASSUME NEW r \in Elements(prior) PROVE r.marks \subseteq Marks(Elements(held))
  <2>0. Elements(prior) = {prior[k] : k \in 1..Len(prior)} BY <1>2, ElementsOf
  <2>1. PICK k \in 1..Len(prior) : r = prior[k] BY <1>7, <2>0
  <2>2. k \in DOMAIN held /\ held[k] = [r EXCEPT !.code = "prior"] BY <1>5, <2>1
  <2>3. held[k].marks = r.marks BY <1>4, <1>5, <2>1, <2>2
  <2> HIDE DEF held
  <2>4. held[k] \in Elements(held) BY <2>2 DEF Elements
  <2> QED BY <2>3, <2>4 DEF Marks
<1>8. Held(rows, kept) = held BY Zenon DEF Held, held, prior, E
<1> HIDE DEF held
<1>9. MarksIn(rows) \subseteq MarksIn(At(rows, D)) \cup Marks(Elements(held))
  BY <1>3, <1>7 DEF Marks, MarksIn
<1> QED BY <1>2, <1>3, <1>6, <1>8, <1>9 DEF D, E, MarksIn

LEMMA ReconciledFacts ==
    ASSUME NEW left \in Seq(Row), NEW right \in Seq(Row), NEW q \in Seq(Row)
    PROVE  LET r == Reconciled(left, right, q) IN
           /\ r = [records |-> r.records, quarantined |-> r.quarantined, conflicts |-> r.conflicts]
           /\ r.records \in Seq(Row) /\ r.quarantined \in Seq(Row)
           /\ MarksIn(left) \cup MarksIn(right) \cup MarksIn(q)
                \subseteq MarksIn(r.records) \cup MarksIn(r.quarantined)
           /\ \A x \in Elements(r.records) : Joined(x, Elements(left), Elements(right))
<1> DEFINE kept == NotCoded(q, "excluded")
           excluded == Coded(q, "excluded")
           all == kept \o left
           m == Matching(all, right)
           pairs == Pairs(all, Len(kept), right, m.of)
           H == {k \in DOMAIN pairs : pairs[k].held}
           O == {k \in DOMAIN pairs : ~pairs[k].held}
           rows == RowsOf(pairs)
           accepted == At(rows, O) \o At(right, m.free)
           rest == At(accepted, DOMAIN accepted \ Earlier(accepted, kept))
           aside == excluded \o At(rows, H) \o Held(accepted, kept)
           clashes == Cardinality({k \in DOMAIN pairs : pairs[k].clash})
<1>1. Reconciled(left, right, q) = [records |-> rest, quarantined |-> aside, conflicts |-> clashes]
  BY Zenon DEF Reconciled, Divided
<1>2. /\ kept \in Seq(Row) /\ excluded \in Seq(Row)
      /\ Elements(q) = Elements(kept) \cup Elements(excluded)
  <2>1. /\ Coded(q, "excluded") \in Seq(Row) /\ NotCoded(q, "excluded") \in Seq(Row)
        /\ Elements(Coded(q, "excluded")) = {r \in Elements(q) : r.code = "excluded"}
        /\ Elements(NotCoded(q, "excluded")) = {r \in Elements(q) : r.code # "excluded"}
    BY Sorted
  <2> QED BY <2>1
<1> HIDE DEF kept, excluded
<1>3. /\ all \in Seq(Row) /\ Elements(all) = Elements(kept) \cup Elements(left)
      /\ Len(all) = Len(kept) + Len(left) /\ Len(kept) \in Nat /\ Len(left) \in Nat
      /\ \A i \in 1..Len(all) : i > Len(kept) => all[i] \in Elements(left)
  <2>1. all \in Seq(Row) /\ Elements(all) = Elements(kept) \cup Elements(left)
    BY <1>2, ElementsOfConcat
  <2>2. Len(kept) \in Nat /\ Len(left) \in Nat BY <1>2
  <2>3. /\ Len(all) = Len(kept) + Len(left)
        /\ \A i \in 1..Len(kept) + Len(left) :
                all[i] = IF i <= Len(kept) THEN kept[i] ELSE left[i - Len(kept)]
    BY <1>2, ConcatProperties
  <2>4. ASSUME NEW i \in 1..Len(all), i > Len(kept) PROVE all[i] \in Elements(left)
    <3>1. i - Len(kept) \in 1..Len(left) BY <2>2, <2>3, <2>4
    <3>2. all[i] = left[i - Len(kept)] BY <2>2, <2>3, <2>4
    <3> QED BY <3>1, <3>2, ElementsOf
  <2> QED BY <2>1, <2>2, <2>3, <2>4
<1> HIDE DEF all
<1>4. /\ m.free \subseteq 1..Len(right)
      /\ \A i \in 1..Len(all) : m.of[i] \subseteq 1..Len(right) /\ AtMostOne(m.of[i])
      /\ \A j \in 1..Len(right) : j \in m.free \/ \E i \in 1..Len(all) : j \in m.of[i]
  BY <1>3, MatchingFacts
<1> HIDE DEF m
<1>5. /\ DOMAIN pairs = 1..Len(all)
      /\ rows \in Seq(Row) /\ Len(rows) = Len(all)
      /\ \A i \in 1..Len(all) :
           /\ rows[i].marks = all[i].marks \cup UNION {right[j].marks : j \in m.of[i]}
           /\ ~pairs[i].held => i > Len(kept) /\ Joined(rows[i], {all[i]}, Elements(right))
  BY <1>3, <1>4, PairsFacts
<1>6. H \cup O = 1..Len(rows) /\ \A i \in O : i \in 1..Len(all) /\ ~pairs[i].held BY <1>5
<1> HIDE DEF pairs, rows, H, O
<1>7. /\ At(rows, O) \in Seq(Row) /\ Elements(At(rows, O)) = {rows[i] : i \in (1..Len(rows)) \cap O}
      /\ At(rows, H) \in Seq(Row)
      /\ Elements(rows) = Elements(At(rows, H)) \cup Elements(At(rows, O))
  <2>0. rows \in Seq(Row) BY <1>5
  <2>1. /\ At(rows, O) \in Seq(Row)
        /\ Elements(At(rows, O)) = {rows[i] : i \in (1..Len(rows)) \cap O}
    BY <2>0, AtFacts
  <2>2. /\ At(rows, H) \in Seq(Row)
        /\ Elements(At(rows, H)) = {rows[i] : i \in (1..Len(rows)) \cap H}
    BY <2>0, AtFacts
  <2>3. Elements(rows) = {rows[i] : i \in 1..Len(rows)} BY <1>5, ElementsOf
  <2>4. Elements(rows) = Elements(At(rows, H)) \cup Elements(At(rows, O)) BY <1>6, <2>1, <2>2, <2>3
  <2> QED BY <2>1, <2>2, <2>4
<1>8. /\ At(right, m.free) \in Seq(Row)
      /\ Elements(At(right, m.free)) = {right[i] : i \in (1..Len(right)) \cap m.free}
  BY AtFacts
<1>9. /\ accepted \in Seq(Row)
      /\ Elements(accepted) = Elements(At(rows, O)) \cup Elements(At(right, m.free))
  BY <1>7, <1>8, ElementsOfConcat
<1>10. ASSUME NEW x \in Elements(accepted) PROVE Joined(x, Elements(left), Elements(right))
  <2>1. CASE x \in Elements(At(rows, O))
    <3>1. PICK i \in O : x = rows[i] BY <1>7, <2>1
    <3>2. i \in 1..Len(all) /\ i > Len(kept) /\ Joined(x, {all[i]}, Elements(right))
      BY <1>5, <1>6, <3>1
    <3>3. all[i] \in Elements(left) BY <1>3, <3>2
    <3> QED BY <3>2, <3>3 DEF Joined
  <2>2. CASE x \in Elements(At(right, m.free))
    <3>1. x \in Elements(right) BY <1>8, <2>2, ElementsOf
    <3> QED BY <3>1 DEF Joined
  <2> QED BY <1>9, <1>10, <2>1, <2>2
<1> HIDE DEF accepted
<1>11. /\ rest \in Seq(Row) /\ Elements(rest) \subseteq Elements(accepted)
       /\ Held(accepted, kept) \in Seq(Row)
       /\ MarksIn(accepted) \subseteq MarksIn(rest) \cup MarksIn(Held(accepted, kept))
  BY <1>9, HeldFacts
<1> HIDE DEF rest
<1>12. /\ aside \in Seq(Row)
       /\ Elements(aside) = Elements(excluded) \cup Elements(At(rows, H))
                                \cup Elements(Held(accepted, kept))
  <2> DEFINE two == excluded \o At(rows, H)
             held == Held(accepted, kept)
  <2>1. two \in Seq(Row) /\ Elements(two) = Elements(excluded) \cup Elements(At(rows, H))
    BY <1>2, <1>7, ElementsOfConcat
  <2>2. aside = two \o held /\ held \in Seq(Row) BY <1>11
  <2> HIDE DEF two, held, aside
  <2>3. aside \in Seq(Row) /\ Elements(aside) = Elements(two) \cup Elements(held)
    BY <2>1, <2>2, ElementsOfConcat
  <2> QED BY <2>1, <2>3 DEF held
<1> HIDE DEF aside, clashes
<1>13. ASSUME NEW x \in Elements(rows) PROVE x.marks \subseteq MarksIn(rest) \cup MarksIn(aside)
  <2>1. MarksIn(Held(accepted, kept)) \subseteq MarksIn(aside) BY <1>12 DEF MarksIn, Marks
  <2>2. CASE x \in Elements(At(rows, H)) BY <1>12, <2>2 DEF MarksIn, Marks
  <2>3. CASE x \in Elements(At(rows, O))
    <3>1. x \in Elements(accepted) BY <1>9, <2>3
    <3>2. x.marks \subseteq MarksIn(accepted) BY <3>1 DEF MarksIn, Marks
    <3> QED BY <1>11, <2>1, <3>2
  <2> QED BY <1>7, <2>2, <2>3
<1>14. MarksIn(left) \cup MarksIn(q) \subseteq MarksIn(rest) \cup MarksIn(aside)
  <2>1. ASSUME NEW x \in Elements(all) PROVE x.marks \subseteq MarksIn(rest) \cup MarksIn(aside)
    <3>1. PICK i \in 1..Len(all) : x = all[i] BY <1>3, <2>1, ElementsOf
    <3>2. rows[i] \in Elements(rows) BY <1>5, ElementsOf
    <3>3. x.marks \subseteq rows[i].marks BY <1>5, <3>1
    <3> QED BY <1>13, <3>2, <3>3
  <2>2. ASSUME NEW x \in Elements(excluded) PROVE x.marks \subseteq MarksIn(aside)
    BY <1>12 DEF MarksIn, Marks
  <2>3. ASSUME NEW x \in Elements(left) \cup Elements(q)
        PROVE  x.marks \subseteq MarksIn(rest) \cup MarksIn(aside)
    <3>1. x \in Elements(all) \/ x \in Elements(excluded) BY <1>2, <1>3
    <3> QED BY <2>1, <2>2, <3>1
  <2> QED BY <2>3 DEF MarksIn, Marks
<1>15. MarksIn(right) \subseteq MarksIn(rest) \cup MarksIn(aside)
  <2>1. ASSUME NEW x \in Elements(right) PROVE x.marks \subseteq MarksIn(rest) \cup MarksIn(aside)
    <3>1. PICK j \in 1..Len(right) : x = right[j] BY <2>1, ElementsOf
    <3>2. CASE j \in m.free
      <4>1. x \in Elements(accepted) BY <1>8, <1>9, <3>1, <3>2
      <4>2. x.marks \subseteq MarksIn(accepted) BY <4>1 DEF MarksIn, Marks
      <4>3. MarksIn(Held(accepted, kept)) \subseteq MarksIn(aside) BY <1>12 DEF MarksIn, Marks
      <4> QED BY <1>11, <4>2, <4>3
    <3>3. CASE j \notin m.free
      <4>1. PICK i \in 1..Len(all) : j \in m.of[i] BY <1>4, <3>3
      <4>2. rows[i] \in Elements(rows) BY <1>5, ElementsOf
      <4>3. x.marks \subseteq rows[i].marks
        <5>1. rows[i].marks = all[i].marks \cup UNION {right[k].marks : k \in m.of[i]} BY <1>5
        <5> QED BY <3>1, <4>1, <5>1
      <4> QED BY <1>13, <4>2, <4>3
    <3> QED BY <3>2, <3>3
  <2> QED BY <2>1 DEF MarksIn, Marks
<1> QED BY <1>1, <1>10, <1>11, <1>12, <1>14, <1>15

(***************************************************************************)
(* The artifact.                                                           *)
(***************************************************************************)

Encloses(e, r, q, s, hs, pages, scanned) ==
    /\ e.records \in Seq(Row) /\ Elements(e.records) \subseteq Elements(r)
    /\ MarksIn(r) \cup MarksIn(q) \cup MarksIn(s)
         \subseteq MarksIn(e.records) \cup MarksIn(e.rejected) \cup MarksIn(e.quarantined)
    /\ hs \subseteq e.holds /\ e.holds \subseteq hs \cup HoldCodes \cup {"coverage"}
    /\ e.detected = pages
    /\ e.complete => scanned /\ e.rejected = <<>> /\ e.quarantined = <<>>

LEMMA EnvelopeFacts ==
    ASSUME NEW r \in Seq(Row), NEW q \in Seq(Row), NEW s \in Seq(Row),
           NEW hs, NEW pages, NEW scanned
    PROVE  Encloses(Envelope(r, q, s, hs, pages, scanned), r, q, s, hs, pages, scanned)
<1> DEFINE excluded == Coded(s, "excluded")
           refused == q \o excluded
           access == Coded(refused, "access")
           pass == IF access = <<>> THEN [records |-> r, quarantined |-> <<>>]
                   ELSE Reconciled(<<>>, r, access)
           good == NotCoded(pass.records, "width")
           wide == Coded(pass.records, "width")
           kept == NotCoded(s, "excluded")
           aside == kept \o pass.quarantined \o wide
           complete == SourceCoverage(good, refused, aside, pages, scanned)
           codes == {aside[i].code : i \in DOMAIN aside}
           said == hs \cup (codes \cap HoldCodes)
                      \cup (IF good # <<>> /\ ~complete THEN {"coverage"} ELSE {})
           e == Envelope(r, q, s, hs, pages, scanned)
<1>1. e = [records |-> good, rejected |-> refused, quarantined |-> aside,
           detected |-> pages, complete |-> complete, holds |-> said]
  BY Zenon DEF Envelope, Sealed
<1>2. complete => scanned /\ refused = <<>> /\ aside = <<>> BY DEF SourceCoverage
<1>3. hs \subseteq said /\ said \subseteq hs \cup HoldCodes \cup {"coverage"}
  <2> HIDE DEF codes, good, complete
  <2> QED OBVIOUS
<1> HIDE DEF complete, said
<1>4. /\ excluded \in Seq(Row) /\ kept \in Seq(Row)
      /\ Elements(s) = Elements(kept) \cup Elements(excluded)
  <2>1. /\ Coded(s, "excluded") \in Seq(Row) /\ NotCoded(s, "excluded") \in Seq(Row)
        /\ Elements(Coded(s, "excluded")) = {x \in Elements(s) : x.code = "excluded"}
        /\ Elements(NotCoded(s, "excluded")) = {x \in Elements(s) : x.code # "excluded"}
    BY Sorted
  <2> QED BY <2>1
<1> HIDE DEF excluded, kept
<1>5. refused \in Seq(Row) /\ Elements(refused) = Elements(q) \cup Elements(excluded)
  BY <1>4, ElementsOfConcat
<1> HIDE DEF refused
<1>6. access \in Seq(Row) BY <1>5, Sorted
<1> HIDE DEF access
<1>7. /\ pass.records \in Seq(Row) /\ pass.quarantined \in Seq(Row)
      /\ Elements(pass.records) \subseteq Elements(r)
      /\ MarksIn(r) \subseteq MarksIn(pass.records) \cup MarksIn(pass.quarantined)
  <2>1. CASE access = <<>>
    <3>1. pass.records = r /\ pass.quarantined = <<>> BY <2>1
    <3>2. <<>> \in Seq(Row) OBVIOUS
    <3> HIDE DEF pass
    <3> QED BY <3>1, <3>2
  <2>2. CASE access # <<>>
    <3>1. pass = Reconciled(<<>>, r, access) BY <2>2
    <3>2. <<>> \in Seq(Row) /\ Elements(<<>>) = {} BY DEF Elements
    <3> HIDE DEF pass
    <3>3. /\ pass.records \in Seq(Row) /\ pass.quarantined \in Seq(Row)
          /\ MarksIn(<<>>) \cup MarksIn(r) \cup MarksIn(access)
                \subseteq MarksIn(pass.records) \cup MarksIn(pass.quarantined)
          /\ \A x \in Elements(pass.records) : Joined(x, Elements(<<>>), Elements(r))
      BY <1>6, <3>1, <3>2, ReconciledFacts
    <3>4. \A x \in Elements(pass.records) : x \in Elements(r) BY <3>2, <3>3 DEF Joined
    <3> QED BY <3>3, <3>4
  <2> QED BY <2>1, <2>2
<1> HIDE DEF pass
<1>8. /\ good \in Seq(Row) /\ wide \in Seq(Row)
      /\ Elements(pass.records) = Elements(good) \cup Elements(wide)
  <2>1. /\ Coded(pass.records, "width") \in Seq(Row) /\ NotCoded(pass.records, "width") \in Seq(Row)
        /\ Elements(Coded(pass.records, "width")) = {x \in Elements(pass.records) : x.code = "width"}
        /\ Elements(NotCoded(pass.records, "width")) = {x \in Elements(pass.records) : x.code # "width"}
    BY <1>7, Sorted
  <2> QED BY <2>1
<1> HIDE DEF good, wide
<1>9. Elements(aside) = Elements(kept) \cup Elements(pass.quarantined) \cup Elements(wide)
  <2> DEFINE two == kept \o pass.quarantined
  <2>1. two \in Seq(Row) /\ Elements(two) = Elements(kept) \cup Elements(pass.quarantined)
    BY <1>4, <1>7, ElementsOfConcat
  <2>2. aside = two \o wide OBVIOUS
  <2> HIDE DEF two, aside
  <2>3. Elements(aside) = Elements(two) \cup Elements(wide) BY <1>8, <2>1, <2>2, ElementsOfConcat
  <2> QED BY <2>1, <2>3
<1> HIDE DEF aside
<1>10. MarksIn(r) \cup MarksIn(q) \cup MarksIn(s)
          \subseteq MarksIn(good) \cup MarksIn(refused) \cup MarksIn(aside)
  <2>1. MarksIn(s) = MarksIn(kept) \cup MarksIn(excluded) BY <1>4, MarksUnion DEF MarksIn
  <2>2. MarksIn(refused) = MarksIn(q) \cup MarksIn(excluded) BY <1>5, MarksUnion DEF MarksIn
  <2>3. MarksIn(pass.records) = MarksIn(good) \cup MarksIn(wide) BY <1>8, MarksUnion DEF MarksIn
  <2>4. MarksIn(aside) = MarksIn(kept) \cup MarksIn(pass.quarantined) \cup MarksIn(wide)
    <3>1. Marks(Elements(kept) \cup Elements(pass.quarantined))
            = MarksIn(kept) \cup MarksIn(pass.quarantined) BY MarksUnion DEF MarksIn
    <3>2. MarksIn(aside) = Marks(Elements(kept) \cup Elements(pass.quarantined)) \cup MarksIn(wide)
      BY <1>9, MarksUnion DEF MarksIn
    <3> QED BY <3>1, <3>2
  <2> QED BY <1>7, <2>1, <2>2, <2>3, <2>4
<1> HIDE DEF e
<1>11. /\ e.records = good /\ e.rejected = refused /\ e.quarantined = aside
       /\ e.detected = pages /\ e.complete = complete /\ e.holds = said
  BY <1>1
<1>12. Elements(good) \subseteq Elements(r) BY <1>7, <1>8
<1>13. Encloses(e, r, q, s, hs, pages, scanned)
  BY <1>2, <1>3, <1>8, <1>10, <1>11, <1>12 DEF Encloses
<1> QED BY <1>13 DEF e

(***************************************************************************)
(* A page with a header or rows of its own is discovered.                  *)
(***************************************************************************)

Shows(p) == document[p] \in {"header", "rows"}

LEMMA DiscoveredFacts ==
    ASSUME document \in Documents, NEW pages \in SUBSET Pages
    PROVE  /\ Discovered(pages) \subseteq pages
           /\ \A p \in pages : Shows(p) => p \in Discovered(pages)
<1> DEFINE N == Len(document)
           Body(f, p) == /\ p \in pages
                         /\ \/ document[p] \in {"header", "rows"}
                            \/ document[p] = "tail" /\ f[p - 1]
           step == [q \in (1..N) \X BOOLEAN |->
                        /\ q[1] \in pages
                        /\ \/ document[q[1]] \in {"header", "rows"}
                           \/ document[q[1]] = "tail" /\ q[2]]
           register == CHOOSE f : f = [p \in Pages \cup {0} |-> Body(f, p)]
<1>1. N \in Nat /\ Pages \cup {0} = 0..N /\ Pages = 1..N
  <2>1. document \in Seq({"header", "rows", "index", "tail", "blank"}) BY ExtractionAssumption
  <2> QED BY <2>1 DEF Pages
<1> HIDE DEF N
<1>2. step \in [(1..N) \X BOOLEAN -> BOOLEAN] OBVIOUS
<1>3. PICK f \in [0..N -> BOOLEAN] : f[0] = FALSE /\ \A p \in 1..N : f[p] = step[<<p, f[p - 1]>>]
  <2> HIDE DEF step
  <2>1. Iterates(N, BOOLEAN, FALSE, step) BY <1>1, <1>2, Iterated
  <2> QED BY <2>1 DEF Iterates
<1>4. f = [p \in Pages \cup {0} |-> Body(f, p)]
  <2>1. ASSUME NEW p \in 0..N PROVE f[p] = Body(f, p)
    <3>1. CASE p = 0
      <4>1. p \notin pages BY <1>1, <3>1
      <4> QED BY <1>3, <3>1, <4>1
    <3>2. CASE p # 0
      <4>1. p \in 1..N /\ p - 1 \in 0..N BY <1>1, <3>2
      <4>2. f[p] = step[<<p, f[p - 1]>>] /\ f[p - 1] \in BOOLEAN
        <5> HIDE DEF step
        <5> QED BY <1>3, <4>1
      <4>3. <<p, f[p - 1]>> \in (1..N) \X BOOLEAN BY <4>1, <4>2
      <4>4. step[<<p, f[p - 1]>>] = Body(f, p) BY <4>3
      <4> QED BY <4>2, <4>4, Zenon
    <3> QED BY <3>1, <3>2
  <2> HIDE DEF Body
  <2> QED BY <1>1, <2>1
<1>5. register = [p \in Pages \cup {0} |-> Body(register, p)]
  <2> HIDE DEF Body
  <2> QED BY <1>4
<1>6. Discovered(pages) = {p \in pages : register[p]} BY Zenon DEF Discovered
<1> HIDE DEF register
<1>7. \A p \in pages : Shows(p) => register[p] BY <1>1, <1>5 DEF Shows
<1> QED BY <1>6, <1>7

(***************************************************************************)
(* What was read.                                                          *)
(***************************************************************************)

\* A set of rows as readers list them, each place once.
Raw(S) == /\ S \subseteq Row
          /\ \A a \in S : a.marks = {a.mark}
          /\ \A a, b \in S : a.mark = b.mark => a = b
\* A record says of a row that went into it nothing but what the row says.
Faithful(r, S) ==
    /\ r.marks \subseteq Marks(S)
    /\ \A a \in S : a.mark \in r.marks => \A f \in Fields : a[f] = None \/ a[f] = r[f]
AllFaithful(s, S) == \A r \in Elements(s) : Faithful(r, S)
Apart(S, T) == \A a \in S, b \in T : a.mark # b.mark

LEMMA RawUnion ==
    ASSUME NEW S, NEW T, Raw(S), Raw(T), Apart(S, T)
    PROVE  Raw(S \cup T)
BY DEF Raw, Apart

LEMMA RawIsFaithful ==
    ASSUME NEW S, Raw(S), NEW r \in S
    PROVE  Faithful(r, S)
BY DEF Raw, Faithful, Marks

LEMMA StillFaithful ==
    ASSUME NEW S, NEW T, Raw(S), Raw(T), Apart(S, T), NEW r, Faithful(r, S)
    PROVE  Faithful(r, S \cup T)
<1>1. Marks(S) \subseteq Marks(S \cup T) BY MarksUnion
<1>2. ASSUME NEW a \in T PROVE a.mark \notin r.marks
  <2> SUFFICES ASSUME a.mark \in Marks(S) PROVE FALSE BY DEF Faithful
  <2>1. PICK b \in S : a.mark \in b.marks BY DEF Marks
  <2>2. a.mark = b.mark BY <2>1 DEF Raw
  <2> QED BY <2>2 DEF Apart
<1> QED BY <1>1, <1>2 DEF Faithful

LEMMA JoinedFaithful ==
    ASSUME NEW S, Raw(S), NEW left \in SUBSET Row, NEW right \in SUBSET Row,
           \A x \in left \cup right : Faithful(x, S), NEW r, Joined(r, left, right)
    PROVE  Faithful(r, S)
<1>1. CASE r \in left \cup right BY <1>1
<1>2. CASE \E a \in left, b \in right : ~Conflicts(a, b) /\ r = Merged(a, b)
  <2>1. PICK x \in left, y \in right : ~Conflicts(x, y) /\ r = Merged(x, y) BY <1>2
  <2>2. x \in Row /\ y \in Row /\ Faithful(x, S) /\ Faithful(y, S) OBVIOUS
  <2>3. /\ r.marks = x.marks \cup y.marks
        /\ \A f \in Fields : r[f] = IF x[f] = None THEN y[f] ELSE x[f]
    BY <2>1, <2>2, MergedIsRow
  <2>4. r.marks \subseteq Marks(S) BY <2>2, <2>3 DEF Faithful
  <2>5. ASSUME NEW a \in S, a.mark \in r.marks, NEW f \in Fields, a[f] # None
        PROVE  a[f] = r[f]
    <3>1. ~Differ(x[f], y[f]) BY <2>1 DEF Conflicts
    <3>2. CASE a.mark \in x.marks
      <4>1. a[f] = x[f] BY <2>2, <2>5, <3>2 DEF Faithful
      <4> QED BY <2>3, <2>5, <4>1
    <3>3. CASE a.mark \in y.marks
      <4>1. a[f] = y[f] BY <2>2, <2>5, <3>3 DEF Faithful
      <4> QED BY <2>3, <2>5, <3>1, <4>1 DEF Differ
    <3> QED BY <2>3, <2>5, <3>2, <3>3
  <2> QED BY <2>4, <2>5 DEF Faithful
<1> QED BY <1>1, <1>2 DEF Joined

\* What a reader lists, in two lists.
Reading(reader, s, t) ==
    /\ s \in Seq(Row) /\ t \in Seq(Row) /\ Raw(Elements(s) \cup Elements(t))
    /\ \A r \in Elements(s) \cup Elements(t) : r.mark[1] = reader

LEMMA ListsIsReading ==
    ASSUME NEW reader, NEW s, NEW t, Lists(reader, s, t),
           Elements(s) \cup Elements(t) \subseteq RawRows
    PROVE  Reading(reader, s, t)
<1>1. ASSUME NEW r \in Elements(s) \cup Elements(t) PROVE r \in Row
  <2>1. r = [f \in RowFields |-> r[f]] /\ r.marks = {r.mark} BY DEF Lists
  <2>2. r \in RawRows OBVIOUS
  <2>3. \A f \in RowFields : r[f] \in Values BY <2>2 DEF Values, Entry
  <2>4. r \in [RowFields -> Values] BY <2>1, <2>3
  <2>5. r.marks \subseteq Places BY <2>1, <2>2 DEF Places
  <2> QED BY <2>4, <2>5 DEF Row
<1>2. s \in Seq(Row) /\ t \in Seq(Row)
  <2>1. s \in Seq(Elements(s)) /\ t \in Seq(Elements(t)) BY DEF Lists
  <2> QED BY <1>1, <2>1, SeqMonotonic
<1>3. Raw(Elements(s) \cup Elements(t)) BY <1>1 DEF Raw, Lists
<1> QED BY <1>2, <1>3 DEF Reading, Lists

LEMMA LayoutReads ==
    ASSUME NEW a \in LayoutAnswers PROVE Reading("strict", a.rows, a.rejected)
<1>1. Elements(a.rows) \cup Elements(a.rejected) \subseteq RawRows BY DEF RawRows
<1> QED BY <1>1, ListsIsReading, ReaderAssumption

LEMMA CoordinateReads ==
    ASSUME NEW a \in CoordinateAnswers PROVE Reading("coordinate", a.rows, a.rejected)
<1>1. Elements(a.rows) \cup Elements(a.rejected) \subseteq RawRows BY DEF RawRows
<1> QED BY <1>1, ListsIsReading, ReaderAssumption

LEMMA OnReading ==
    ASSUME NEW reader, NEW s, NEW t, Reading(reader, s, t), NEW P, NEW Q
    PROVE  /\ Reading(reader, On(s, P), On(t, Q))
           /\ \A r \in Elements(On(s, P)) : PageOf(r) \in P
           /\ \A r \in Elements(On(t, Q)) : PageOf(r) \in Q
<1>1. s \in Seq(Row) /\ t \in Seq(Row) BY DEF Reading
<1>2. /\ On(s, P) \in Seq(Row) /\ Elements(On(s, P)) = {r \in Elements(s) : PageOf(r) \in P}
      /\ On(t, Q) \in Seq(Row) /\ Elements(On(t, Q)) = {r \in Elements(t) : PageOf(r) \in Q}
  BY <1>1, OnFacts
<1> QED BY <1>2 DEF Reading, Raw

\* Of what the layout reader listed, the rows on these pages, and the rejections on
\* these pages and some of those on the pages it was given.
LEMMA RefusedReads ==
    ASSUME NEW a \in LayoutAnswers, NEW pages, NEW given
    PROVE  /\ Reading("strict", On(a.rows, pages), Refused(a, pages, given))
           /\ \A r \in Elements(On(a.rows, pages)) : PageOf(r) \in pages
           /\ \A r \in Elements(Refused(a, pages, given)) : PageOf(r) \in pages \cup given
<1> DEFINE t == a.rejected
           T(r) == IF r.code \in Anywhere THEN pages \cup given ELSE pages
           S == {i \in DOMAIN t : PageOf(t[i]) \in T(t[i])}
<1>1. Reading("strict", a.rows, t) BY LayoutReads
<1>2. t \in Seq(Row) BY <1>1 DEF Reading
<1>3. DOMAIN t = 1..Len(t) /\ Elements(t) = {t[i] : i \in 1..Len(t)} BY <1>2, ElementsOf
<1>4. Refused(a, pages, given) = At(t, S) BY Zenon DEF Refused
<1>5. At(t, S) \in Seq(Row) /\ Elements(At(t, S)) = {t[i] : i \in (1..Len(t)) \cap S}
  <2> HIDE DEF S, t
  <2> QED BY <1>2, AtFacts
<1>6. \A i \in S : PageOf(t[i]) \in pages \cup given OBVIOUS
<1> HIDE DEF S, t
<1>7. \A r \in Elements(At(t, S)) : r \in Elements(t) /\ PageOf(r) \in pages \cup given
  BY <1>3, <1>5, <1>6
<1>8. /\ Reading("strict", On(a.rows, pages), On(t, pages))
      /\ \A r \in Elements(On(a.rows, pages)) : PageOf(r) \in pages
      /\ Elements(On(a.rows, pages)) \subseteq Elements(a.rows)
  <2>1. a.rows \in Seq(Row) BY <1>1 DEF Reading
  <2>2. Elements(On(a.rows, pages)) \subseteq Elements(a.rows) BY <2>1, OnFacts
  <2> QED BY <1>1, <2>2, OnReading
<1>9. Reading("strict", On(a.rows, pages), At(t, S)) BY <1>1, <1>5, <1>7, <1>8 DEF Reading, Raw
<1> QED BY <1>4, <1>7, <1>8, <1>9

\* A coordinate reader that fails leaves some of the rejections it listed.
LEMMA BrokenReads ==
    ASSUME NEW a \in CoordinateAnswers, NEW p
    PROVE  Reading("coordinate", Broken(a, p).rows, Broken(a, p).rejected)
<1> DEFINE part == On(a.rejected, 1..p)
<1>1. Reading("coordinate", On(a.rows, {}), part) BY CoordinateReads, OnReading
<1> HIDE DEF part
<1>2. <<>> \in Seq(Row) /\ Elements(<<>>) = {} BY DEF Elements
<1>3. Reading("coordinate", <<>>, part) BY <1>1, <1>2 DEF Reading, Raw
<1>4. Broken(a, p).rows = <<>> /\ Broken(a, p).rejected = part BY DEF Broken, part
<1> QED BY <1>3, <1>4

\* A row that the grid accepts has no code.
LEMMA GridClean ==
    ASSUME NEW exit, NEW a \in GridAnswers, NEW pages
    PROVE  \A r \in Elements(GridEvidence(exit, a, pages).records) : r.code = None
<1> DEFINE rows == On(a.rows, IF pages = None THEN Pages ELSE pages)
           found_ == GridEvidence(exit, a, pages).records
<1>1. found_ = rows \/ found_ = <<>> BY DEF GridEvidence, Failed
<1>2. a.rows \in Seq(Row)
  <2>1. Elements(a.rows) \cup Elements(a.quarantined) \subseteq RawRows BY DEF RawRows
  <2> QED BY <2>1, ListsIsReading, ReaderAssumption DEF Reading
<1>3. Elements(rows) \subseteq Elements(a.rows) BY <1>2, OnFacts
<1>4. Elements(<<>>) = {} BY DEF Elements
<1> HIDE DEF rows, found_
<1>5. \A r \in Elements(found_) : r.code = None BY <1>1, <1>3, <1>4, GridAssumption
<1> QED BY <1>5 DEF found_

\* What the grid reader is taken to have found.
LEMMA GridReads ==
    ASSUME NEW exit, NEW a \in GridAnswers, NEW pages
    PROVE  LET g == GridEvidence(exit, a, pages) IN
           /\ Reading("grid", g.records, g.quarantined)
           /\ pages # None =>
                \A r \in Elements(g.records) \cup Elements(g.quarantined) : PageOf(r) \in pages
           /\ g.failed # None => g.records = <<>> /\ g.quarantined = <<>>
<1> DEFINE P == IF pages = None THEN Pages ELSE pages
           rows == On(a.rows, P)
           aside == On(a.quarantined, P)
           g == GridEvidence(exit, a, pages)
<1>1. Reading("grid", a.rows, a.quarantined)
  <2>1. Elements(a.rows) \cup Elements(a.quarantined) \subseteq RawRows BY DEF RawRows
  <2> QED BY <2>1, ListsIsReading, ReaderAssumption
<1>2. /\ Reading("grid", rows, aside)
      /\ \A r \in Elements(rows) : PageOf(r) \in P
      /\ \A r \in Elements(aside) : PageOf(r) \in P
  BY <1>1, OnReading
<1>3. \/ g.records = rows /\ g.quarantined = aside
         /\ g.failed = None
      \/ g.records = <<>> /\ g.quarantined = <<>>
  BY DEF GridEvidence, Failed
<1>4. <<>> \in Seq(Row) /\ Elements(<<>>) = {} BY DEF Elements
<1>5. Reading("grid", <<>>, <<>>) BY <1>4 DEF Reading, Raw
<1> HIDE DEF g, rows, aside
<1>6. CASE g.records = rows /\ g.quarantined = aside /\ g.failed = None BY <1>2, <1>6 DEF g
<1>7. CASE g.records = <<>> /\ g.quarantined = <<>> BY <1>4, <1>5, <1>7 DEF g
<1> QED BY <1>3, <1>6, <1>7

(***************************************************************************)
(* The invariant.                                                          *)
(***************************************************************************)

Tally(t) ==
    /\ t = [records |-> t.records, quarantined |-> t.quarantined, conflicts |-> t.conflicts]
    /\ t.records \in Seq(Row) /\ t.quarantined \in Seq(Row)
MarksOfTally(t) == MarksIn(t.records) \cup MarksIn(t.quarantined)

Typed ==
    /\ document \in Documents /\ range \in Ranges /\ first \in Nat
    /\ strict \in Seq(Row) /\ rejected \in Seq(Row) /\ Tally(text) /\ Tally(total)
    /\ Raw(seen)

\* Seen so far: rows of these readers, all of them kept where it says.
ReadBy(readers) == \A a \in seen : a.mark[1] \in readers
Accounted(marks) == Marks(seen) \subseteq marks \cup MarksIn(rejected)
Covers(pages) == \A p \in Asked : Shows(p) => p \in pages

AtStart == /\ seen = {} /\ holds = {} /\ strict = <<>> /\ rejected = <<>>
           /\ first = 0 /\ total = Nothing /\ detected = {}
LayoutKept == Accounted(MarksIn(strict)) /\ AllFaithful(strict, seen)
AfterLayout == ReadBy({"strict"}) /\ LayoutKept
OnePass == holds = {} /\ Covers(found)
AfterCoordinate ==
    /\ ReadBy({"strict", "coordinate"})
    /\ Accounted(MarksOfTally(text)) /\ AllFaithful(text.records, seen)

\* Chunks before this one are in the totals, with all their pages and rows; of this
\* one, the rows of these readers may have been seen.
InChunk(readers) ==
    /\ range = None /\ first > 0 /\ holds \subseteq {"budget"}
    /\ AllFaithful(total.records, seen)
    /\ \A a \in seen : \/ PageOf(a) \in 0..(first - 1)
                       \/ PageOf(a) \in 0..(first + Span - 1) /\ a.mark[1] \in readers
    /\ \A p \in Pages : Shows(p) /\ p < first + (IF readers = {} THEN 0 ELSE Span) =>
            p \in detected
    /\ readers # {} => found # {} /\ found \subseteq Chunk

Course ==
    /\ phase \in {"preflight", "layout"} => AtStart
    /\ phase = "alone" => AfterLayout /\ OnePass /\ found = {} /\ strict = <<>>
    /\ phase = "coordinate" => AfterLayout /\ OnePass
    /\ phase = "grid" => AfterCoordinate /\ OnePass
    /\ phase = "recover" => ReadBy({"strict", "coordinate"}) /\ LayoutKept /\ holds = {"text"}
    /\ phase = "chunk" => InChunk({}) /\ Accounted(MarksOfTally(total))
    /\ phase = "chunk-coordinate" =>
        /\ InChunk({"strict"}) /\ AllFaithful(strict, seen)
        /\ Accounted(MarksOfTally(total) \cup MarksIn(strict))
    /\ phase = "chunk-grid" =>
        /\ InChunk({"strict", "coordinate"}) /\ AllFaithful(text.records, seen)
        /\ Accounted(MarksOfTally(total) \cup MarksOfTally(text))

Phases == {"preflight", "layout", "alone", "coordinate", "grid", "recover", "chunk",
           "chunk-coordinate", "chunk-grid", "done"}
IInv == /\ phase \in Phases /\ Typed /\ Course
        /\ NothingDropped /\ RecordsAgree /\ CompleteIsEarned

(***************************************************************************)
(* More rows are read.                                                     *)
(***************************************************************************)

Extends(S, N, s, t) ==
    /\ Raw(S \cup N) /\ N = Elements(s) \cup Elements(t)
    /\ Marks(S \cup N) = Marks(S) \cup MarksIn(s) \cup MarksIn(t)
    /\ AllFaithful(s, S \cup N)
    /\ \A q : AllFaithful(q, S) => AllFaithful(q, S \cup N)

LEMMA MoreRead ==
    ASSUME NEW S, Raw(S), NEW reader, NEW s, NEW t, Reading(reader, s, t),
           Apart(S, Elements(s \o t))
    PROVE  Extends(S, Elements(s \o t), s, t)
<1> DEFINE N == Elements(s \o t)
<1>1. N = Elements(s) \cup Elements(t) BY ElementsOfConcat DEF Reading
<1>2. Raw(N) BY <1>1 DEF Reading
<1>3. Apart(S, N) OBVIOUS
<1> HIDE DEF N
<1>4. Raw(S \cup N) BY <1>2, <1>3, RawUnion
<1>5. Marks(S \cup N) = Marks(S) \cup Marks(N) BY MarksUnion
<1>6. Marks(N) = MarksIn(s) \cup MarksIn(t) BY <1>1, MarksUnion DEF MarksIn
<1>7. AllFaithful(s, S \cup N)
  <2>1. \A r \in Elements(s) : r \in S \cup N BY <1>1
  <2> QED BY <1>4, <2>1, RawIsFaithful DEF AllFaithful
<1>8. \A q : AllFaithful(q, S) => AllFaithful(q, S \cup N)
  BY <1>2, <1>3, StillFaithful DEF AllFaithful
<1>9. Extends(S, N, s, t) BY <1>1, <1>4, <1>5, <1>6, <1>7, <1>8 DEF Extends
<1> QED BY <1>9 DEF N

LEMMA ReconciledKeeps ==
    ASSUME NEW left \in Seq(Row), NEW right \in Seq(Row), NEW q \in Seq(Row)
    PROVE  LET r == Reconciled(left, right, q) IN
           /\ Tally(r)
           /\ MarksIn(left) \cup MarksIn(right) \cup MarksIn(q) \subseteq MarksOfTally(r)
           /\ \A S : Raw(S) /\ AllFaithful(left, S) /\ AllFaithful(right, S)
                        => AllFaithful(r.records, S)
<1> DEFINE r == Reconciled(left, right, q)
<1>1. /\ r = [records |-> r.records, quarantined |-> r.quarantined, conflicts |-> r.conflicts]
      /\ r.records \in Seq(Row) /\ r.quarantined \in Seq(Row)
      /\ MarksIn(left) \cup MarksIn(right) \cup MarksIn(q)
            \subseteq MarksIn(r.records) \cup MarksIn(r.quarantined)
      /\ \A x \in Elements(r.records) : Joined(x, Elements(left), Elements(right))
  BY ReconciledFacts
<1> HIDE DEF r
<1>2. ASSUME NEW S, Raw(S), AllFaithful(left, S), AllFaithful(right, S),
             NEW x \in Elements(r.records)
      PROVE  Faithful(x, S)
  <2>1. Joined(x, Elements(left), Elements(right)) BY <1>1, <1>2
  <2>2. Elements(left) \subseteq Row /\ Elements(right) \subseteq Row BY ElementsOf
  <2>3. \A y \in Elements(left) \cup Elements(right) : Faithful(y, S) BY <1>2 DEF AllFaithful
  <2> QED BY <1>2, <2>1, <2>2, <2>3, JoinedFaithful
<1>3. \A S : Raw(S) /\ AllFaithful(left, S) /\ AllFaithful(right, S) => AllFaithful(r.records, S)
  BY <1>2 DEF AllFaithful
<1>4. Tally(r) /\ MarksIn(left) \cup MarksIn(right) \cup MarksIn(q) \subseteq MarksOfTally(r)
  BY <1>1 DEF Tally, MarksOfTally
<1> QED BY <1>3, <1>4 DEF r

LEMMA WithGridKeeps ==
    ASSUME Tally(text), NEW g, Reading("grid", g.records, g.quarantined)
    PROVE  LET t == WithGrid(g) IN
           /\ Tally(t)
           /\ MarksOfTally(text) \cup MarksIn(g.records) \cup MarksIn(g.quarantined)
                \subseteq MarksOfTally(t)
           /\ \A S : Raw(S) /\ AllFaithful(text.records, S) /\ AllFaithful(g.records, S)
                        => AllFaithful(t.records, S)
<1> DEFINE all == text.quarantined \o g.quarantined
           r == Reconciled(text.records, g.records, all)
           t == WithGrid(g)
<1>1. /\ all \in Seq(Row)
      /\ Elements(all) = Elements(text.quarantined) \cup Elements(g.quarantined)
  BY ElementsOfConcat DEF Tally, Reading
<1>2. MarksIn(all) = MarksIn(text.quarantined) \cup MarksIn(g.quarantined)
  BY <1>1, MarksUnion DEF MarksIn
<1>3. text.records \in Seq(Row) /\ g.records \in Seq(Row) BY DEF Tally, Reading
<1>4. CASE g.records = <<>>
  <2>1. t = [text EXCEPT !.quarantined = all] BY <1>4 DEF WithGrid
  <2> HIDE DEF t, all
  <2>2. t = [records |-> text.records, quarantined |-> all, conflicts |-> text.conflicts]
    BY <2>1 DEF Tally
  <2>3. t.records = text.records /\ t.quarantined = all /\ t.conflicts = text.conflicts BY <2>2
  <2>4. Tally(t) BY <1>1, <1>3, <2>2, <2>3 DEF Tally
  <2>5. MarksIn(g.records) = {}
    <3>1. Elements(<<>>) = {} BY DEF Elements
    <3> QED BY <1>4, <3>1 DEF MarksIn, Marks
  <2>6. MarksOfTally(text) \cup MarksIn(g.records) \cup MarksIn(g.quarantined) \subseteq MarksOfTally(t)
    BY <1>2, <2>3, <2>5 DEF MarksOfTally
  <2> QED BY <2>3, <2>4, <2>6 DEF t
<1>5. CASE g.records # <<>>
  <2>1. t = [r EXCEPT !.conflicts = @ + text.conflicts] BY <1>5 DEF WithGrid
  <2>2. /\ Tally(r) /\ MarksIn(text.records) \cup MarksIn(g.records) \cup MarksIn(all) \subseteq MarksOfTally(r)
        /\ \A S : Raw(S) /\ AllFaithful(text.records, S) /\ AllFaithful(g.records, S)
                     => AllFaithful(r.records, S)
    <3> HIDE DEF all
    <3> QED BY <1>1, <1>3, ReconciledKeeps
  <2> HIDE DEF t, r, all
  <2>3. t = [records |-> r.records, quarantined |-> r.quarantined, conflicts |-> r.conflicts + text.conflicts]
    BY <2>1, <2>2 DEF Tally
  <2>4. t.records = r.records /\ t.quarantined = r.quarantined
        /\ t.conflicts = r.conflicts + text.conflicts BY <2>3
  <2>5. Tally(t) BY <2>2, <2>3, <2>4 DEF Tally
  <2>6. MarksOfTally(text) \cup MarksIn(g.records) \cup MarksIn(g.quarantined) \subseteq MarksOfTally(t)
    BY <1>2, <2>2, <2>4 DEF MarksOfTally
  <2> QED BY <2>2, <2>4, <2>5, <2>6 DEF t
<1> QED BY <1>4, <1>5

(***************************************************************************)
(* The artifact at the end has the three properties.                       *)
(***************************************************************************)

Good == NothingDropped /\ RecordsAgree /\ CompleteIsEarned

LEMMA NotYet ==
    ASSUME phase' # "done" PROVE Good'
BY DEF Good, NothingDropped, RecordsAgree, CompleteIsEarned, Artifact

\* After the step, every page asked for with a header or rows is among these.
ThenCovers(pages) == \A p \in Asked' : document'[p] \in {"header", "rows"} => p \in pages

LEMMA Judged ==
    ASSUME NEW r \in Seq(Row), NEW q \in Seq(Row), NEW s \in Seq(Row),
           NEW hs, NEW pages, NEW scanned, result' = Envelope(r, q, s, hs, pages, scanned),
           AllFaithful(r, seen'), Raw(seen'),
           ~Replaced' /\ "scan-limit" \notin hs =>
               Marks(seen') \subseteq MarksIn(r) \cup MarksIn(q) \cup MarksIn(s),
           scanned => "budget" \notin hs /\ "scan-limit" \notin hs,
           scanned /\ holds' # {"text"} => ThenCovers(pages)
    PROVE  Good'
<1> DEFINE e == Envelope(r, q, s, hs, pages, scanned)
<1>0. Encloses(e, r, q, s, hs, pages, scanned) BY EnvelopeFacts
<1> HIDE DEF e
<1>1. /\ Elements(e.records) \subseteq Elements(r) /\ e.records \in Seq(Row)
      /\ MarksIn(r) \cup MarksIn(q) \cup MarksIn(s)
            \subseteq MarksIn(e.records) \cup MarksIn(e.rejected) \cup MarksIn(e.quarantined)
      /\ hs \subseteq e.holds /\ e.holds \subseteq hs \cup HoldCodes \cup {"coverage"}
      /\ e.detected = pages
      /\ e.complete => scanned /\ e.rejected = <<>> /\ e.quarantined = <<>>
  BY <1>0 DEF Encloses
<1>2. result' = e BY DEF e
<1>3. /\ MarksOf(e.records) = MarksIn(e.records) /\ MarksOf(e.rejected) = MarksIn(e.rejected)
      /\ MarksOf(e.quarantined) = MarksIn(e.quarantined)
  BY MarksAre DEF MarksIn
<1>4. NothingDropped' BY <1>1, <1>2, <1>3 DEF NothingDropped
<1>5. RecordsAgree'
  <2>1. SUFFICES ASSUME NEW i \in DOMAIN e.records, NEW a \in seen', NEW b \in seen',
                        a.marks \cup b.marks \subseteq e.records[i].marks
                 PROVE  ~Conflicts(a, b)
    BY <1>2 DEF RecordsAgree
  <2>2. e.records[i] \in Elements(r) BY <1>1 DEF Elements
  <2>3. Faithful(e.records[i], seen') BY <2>2 DEF AllFaithful
  <2>4. a.mark \in e.records[i].marks /\ b.mark \in e.records[i].marks BY <2>1 DEF Raw
  <2>5. \A f \in Fields : /\ a[f] = None \/ a[f] = e.records[i][f]
                          /\ b[f] = None \/ b[f] = e.records[i][f]
    BY <2>3, <2>4 DEF Faithful
  <2> QED BY <2>5 DEF Conflicts, Differ
<1>6. CompleteIsEarned'
  <2>1. SUFFICES ASSUME ~Replaced', e.complete
                 PROVE  /\ Marks(seen') \subseteq MarksOf(e.records)
                        /\ "budget" \notin e.holds
                        /\ holds' # {"text"} => ThenCovers(pages)
    BY <1>1, <1>2, Zenon DEF CompleteIsEarned, ThenCovers
  <2>2. MarksIn(<<>>) = {} BY DEF MarksIn, Marks, Elements
  <2>3. Marks(seen') \subseteq MarksIn(r) \cup MarksIn(q) \cup MarksIn(s) BY <1>1, <2>1
  <2>4. Marks(seen') \subseteq MarksIn(e.records) BY <1>1, <2>1, <2>2, <2>3
  <2>5. "budget" \notin e.holds BY <1>1, <2>1 DEF HoldCodes
  <2>6. holds' # {"text"} => ThenCovers(pages) BY <1>1, <2>1
  <2> QED BY <1>3, <2>4, <2>5, <2>6
<1> QED BY <1>4, <1>5, <1>6 DEF Good

(***************************************************************************)
(* The readers of a pass or of a chunk.                                    *)
(***************************************************************************)

Low == CHOOSE p \in found : \A x \in found : p <= x
High == CHOOSE p \in found : \A x \in found : x <= p

LEMMA LowHigh ==
    ASSUME NEW a \in Nat, NEW b \in Int, found # {}, found \subseteq a..b
    PROVE  Low \in found /\ High \in found
<1>1. \E p \in found : \A x \in found : p <= x
  <2>1. found \subseteq Nat OBVIOUS
  <2> QED BY <2>1, Least
<1>2. \E p \in found : \A x \in found : x <= p
  <2> DEFINE T == {b - x : x \in found}
  <2>1. T \subseteq Nat /\ T # {} OBVIOUS
  <2>2. PICK y \in T : \A x \in T : y <= x
    <3> HIDE DEF T
    <3> QED BY <2>1, Least
  <2>3. PICK p \in found : y = b - p OBVIOUS
  <2>4. ASSUME NEW x \in found PROVE x <= p
    <3>1. b - x \in T OBVIOUS
    <3>2. b - p <= b - x
      <4> HIDE DEF T
      <4> QED BY <2>2, <2>3, <3>1
    <3>3. p \in Int /\ x \in Int OBVIOUS
    <3> QED BY <3>2, <3>3
  <2> QED BY <2>4
<1>3. Low \in found BY <1>1, Zenon DEF Low
<1>4. High \in found BY <1>2, Zenon DEF High
<1> QED BY <1>3, <1>4

LEMMA CoordinatesKeep ==
    ASSUME Typed, AllFaithful(strict, seen), NEW marks, Accounted(marks \cup MarksIn(strict)),
           NEW a, Reading("coordinate", a.rows, a.rejected), Coordinates(a),
           \A x \in seen : x.mark[1] # "coordinate" \/ PageOf(x) \notin found \cup (Low..High)
    PROVE  /\ rejected' \in Seq(Row) /\ Tally(text') /\ Raw(seen')
           /\ AllFaithful(text'.records, seen')
           /\ \A s : AllFaithful(s, seen) => AllFaithful(s, seen')
           /\ Marks(seen') \subseteq marks \cup MarksOfTally(text') \cup MarksIn(rejected')
           /\ \A x \in seen' : \/ x \in seen
                               \/ x.mark[1] = "coordinate" /\ PageOf(x) \in found \cup (Low..High)
<1> DEFINE rows == On(a.rows, found)
           refused == On(a.rejected, Low..High)
           N == Elements(rows \o refused)
<1>1. /\ rejected' = rejected \o refused /\ text' = Reconciled(strict, rows, <<>>)
      /\ seen' = seen \cup N
  BY Zenon DEF Coordinates, Between, Low, High
<1>2. /\ Reading("coordinate", rows, refused)
      /\ \A x \in Elements(rows) : PageOf(x) \in found
      /\ \A x \in Elements(refused) : PageOf(x) \in Low..High
  BY OnReading
<1> HIDE DEF rows, refused
<1>3. N = Elements(rows) \cup Elements(refused) BY <1>2, ElementsOfConcat DEF Reading
<1>4. \A x \in N : x.mark[1] = "coordinate" /\ PageOf(x) \in found \cup (Low..High)
  BY <1>2, <1>3 DEF Reading
<1>5. Apart(seen, N)
  <2> HIDE DEF N
  <2> SUFFICES ASSUME NEW x \in seen, NEW y \in N, x.mark = y.mark PROVE FALSE BY DEF Apart
  <2>1. PageOf(x) = PageOf(y) /\ x.mark[1] = y.mark[1] BY DEF PageOf
  <2> QED BY <1>4, <2>1
<1>6. /\ Raw(seen \cup N)
      /\ Marks(seen \cup N) = Marks(seen) \cup MarksIn(rows) \cup MarksIn(refused)
      /\ AllFaithful(rows, seen \cup N)
      /\ \A q : AllFaithful(q, seen) => AllFaithful(q, seen \cup N)
  <2>1. Raw(seen) BY DEF Typed
  <2>2. Extends(seen, N, rows, refused) BY <1>2, <1>5, <2>1, MoreRead
  <2> HIDE DEF N
  <2> QED BY <2>2 DEF Extends
<1> HIDE DEF N
<1>7. rejected' \in Seq(Row) /\ MarksIn(rejected') = MarksIn(rejected) \cup MarksIn(refused)
  <2>1. rejected' \in Seq(Row) /\ Elements(rejected') = Elements(rejected) \cup Elements(refused)
    BY <1>1, <1>2, ElementsOfConcat DEF Typed, Reading
  <2> QED BY <2>1, MarksUnion DEF MarksIn
<1>8. /\ Tally(text') /\ MarksIn(strict) \cup MarksIn(rows) \subseteq MarksOfTally(text')
      /\ AllFaithful(text'.records, seen \cup N)
  <2>1. <<>> \in Seq(Row) /\ strict \in Seq(Row) /\ rows \in Seq(Row) BY <1>2 DEF Typed, Reading
  <2>2. AllFaithful(strict, seen \cup N) BY <1>6
  <2>3. LET t == Reconciled(strict, rows, <<>>) IN
        /\ Tally(t)
        /\ MarksIn(strict) \cup MarksIn(rows) \cup MarksIn(<<>>) \subseteq MarksOfTally(t)
        /\ \A S : Raw(S) /\ AllFaithful(strict, S) /\ AllFaithful(rows, S) => AllFaithful(t.records, S)
    BY <2>1, ReconciledKeeps
  <2> QED BY <1>1, <1>6, <2>2, <2>3
<1> QED BY <1>1, <1>4, <1>6, <1>7, <1>8 DEF Accounted

(***************************************************************************)
(* One pass.                                                               *)
(***************************************************************************)

LEMMA Empty ==
    /\ <<>> \in Seq(Row) /\ Elements(<<>>) = {} /\ MarksIn(<<>>) = {}
    /\ \A S : AllFaithful(<<>>, S)
    /\ Tally(Nothing) /\ Nothing.records = <<>> /\ MarksOfTally(Nothing) = {}
    /\ Raw({}) /\ Marks({}) = {}
<1>1. <<>> \in Seq(Row) /\ Elements(<<>>) = {} BY DEF Elements
<1>2. MarksIn(<<>>) = {} /\ \A S : AllFaithful(<<>>, S) BY <1>1 DEF MarksIn, Marks, AllFaithful
<1>3. Raw({}) /\ Marks({}) = {} BY DEF Raw, Marks
<1>4. Nothing.records = <<>> /\ Nothing.quarantined = <<>> BY DEF Nothing
<1>5. Tally(Nothing) /\ MarksOfTally(Nothing) = {}
  BY <1>1, <1>2, <1>4 DEF Tally, Nothing, MarksOfTally
<1> QED BY <1>1, <1>2, <1>3, <1>4, <1>5

LEMMA PagesAre ==
    ASSUME document \in Documents
    PROVE  Len(document) \in Nat /\ Pages = 1..Len(document)
<1>1. document \in Seq({"header", "rows", "index", "tail", "blank"}) BY ExtractionAssumption
<1> QED BY <1>1 DEF Pages

LEMMA InitIInv == Init => IInv
<1> SUFFICES ASSUME Init PROVE IInv OBVIOUS
<1>1. Typed BY Empty DEF Init, Typed
<1>2. Course BY DEF Init, Course, AtStart
<1>3. NothingDropped /\ RecordsAgree /\ CompleteIsEarned
  BY DEF Init, NothingDropped, RecordsAgree, CompleteIsEarned, Artifact
<1> QED BY <1>1, <1>2, <1>3 DEF IInv, Init, Phases

LEMMA PreflightKeeps == ASSUME IInv, Preflight PROVE IInv'
<1>1. Good' BY NotYet DEF Preflight
<1>2. Typed' BY DEF IInv, Preflight, Typed, Job, Pass, Totals, Tally
<1>3. Course' BY DEF IInv, Preflight, Course, AtStart, Job, Pass, Totals
<1> QED BY <1>1, <1>2, <1>3 DEF IInv, Good, Preflight, Phases

LEMMA TextFailsKeeps == ASSUME IInv, TextFails PROVE IInv'
<1>1. Good' BY NotYet DEF TextFails
<1>2. Typed' BY DEF IInv, TextFails, Typed, Job, Pass, Totals, Tally
<1>3. AtStart BY DEF IInv, Course, TextFails
<1>4. ReadBy({"strict", "coordinate"})' /\ LayoutKept'
  BY <1>3, Empty DEF LayoutKept, AtStart, TextFails, Pass, ReadBy, Accounted
<1>5. Course' BY <1>4 DEF TextFails, Course
<1> QED BY <1>1, <1>2, <1>5 DEF IInv, Good, TextFails, Phases

LEMMA LayoutOverflowsKeeps == ASSUME IInv, LayoutOverflows PROVE IInv'
<1>1. phase' # "done" BY DEF LayoutOverflows
<1>2. Good' BY <1>1, NotYet
<1>3. AtStart BY DEF IInv, Course, LayoutOverflows
<1>4. Typed' BY <1>3 DEF IInv, LayoutOverflows, Typed, Job, Pass, Totals, Tally, AtStart
<1>5. CASE range = None
  <2>1. /\ phase' = "chunk" /\ first' = 1 /\ holds' = holds /\ seen' = seen
        /\ total' = total /\ range' = range /\ rejected' = rejected /\ detected' = detected
        /\ document' = document
    BY <1>5 DEF LayoutOverflows, Job, Totals
  <2>2. InChunk({})'
    <3>1. \A p \in Pages' : ~(p < 1)
      <4>1. document' \in Documents BY <1>4 DEF Typed
      <4>2. Pages = 1..Len(document) BY <2>1, <4>1, PagesAre
      <4> QED BY <2>1, <4>2 DEF Pages
    <3> QED BY <1>3, <1>5, <2>1, <3>1, Empty DEF InChunk, AtStart
  <2>3. Accounted(MarksOfTally(total))' BY <1>3, <2>1, Empty DEF Accounted, AtStart
  <2>4. Course' BY <2>1, <2>2, <2>3 DEF Course
  <2> QED BY <1>2, <1>4, <2>1, <2>4 DEF IInv, Good, Phases
<1>6. CASE range # None
  <2>1. /\ phase' = "recover" /\ holds' = {"text"} /\ seen' = seen /\ strict' = strict
        /\ rejected' = rejected
    BY <1>6 DEF LayoutOverflows, Pass, Totals
  <2>2. ReadBy({"strict", "coordinate"})' /\ LayoutKept'
    BY <1>3, <2>1, Empty DEF LayoutKept, AtStart, ReadBy, Accounted
  <2>3. Course' BY <2>1, <2>2 DEF Course
  <2> QED BY <1>2, <1>4, <2>1, <2>3 DEF IInv, Good, Phases
<1> QED BY <1>5, <1>6

LEMMA LayoutKeeps ==
    ASSUME IInv, NEW a \in LayoutAnswers, Layout(a) PROVE IInv'
<1> DEFINE pages == IF range = None THEN Discovered(Pages) ELSE range
           N == Elements(strict' \o rejected')
<1>1. /\ found' = pages /\ strict' = On(a.rows, pages) /\ rejected' = Refused(a, pages, Asked)
      /\ phase' = IF pages = {} THEN "alone" ELSE "coordinate"
      /\ seen' = N /\ document' = document /\ range' = range /\ first' = first
      /\ text' = text /\ total' = total /\ holds' = holds
  BY DEF Layout, Job
<1>2. AtStart BY DEF IInv, Course, Layout
<1>3. Reading("strict", strict', rejected') /\ \A r \in Elements(strict') : PageOf(r) \in pages
  <2> HIDE DEF pages
  <2> QED BY <1>1, RefusedReads
<1>4. strict' \in Seq(Row) /\ rejected' \in Seq(Row)
      /\ N = Elements(strict') \cup Elements(rejected')
  BY <1>3, ElementsOfConcat DEF Reading
<1> HIDE DEF N
<1>5. Raw(N) /\ \A x \in N : x.mark[1] = "strict" BY <1>3, <1>4 DEF Reading
<1>6. Typed' BY <1>1, <1>4, <1>5 DEF IInv, Typed, Tally
<1>7. Marks(N) = MarksIn(strict') \cup MarksIn(rejected') BY <1>4, MarksUnion DEF MarksIn
<1>8. AfterLayout'
  <2>1. AllFaithful(strict', N) BY <1>4, <1>5, RawIsFaithful DEF AllFaithful
  <2> QED BY <1>1, <1>5, <1>7, <2>1 DEF AfterLayout, LayoutKept, ReadBy, Accounted
<1>9. OnePass'
  <2>1. document \in Documents /\ Pages \subseteq Pages BY DEF IInv, Typed
  <2>2. \A p \in Pages : Shows(p) => p \in Discovered(Pages) BY <2>1, DiscoveredFacts
  <2>3. \A p \in Asked : Shows(p) => p \in pages BY <2>2 DEF Asked
  <2> QED BY <1>1, <1>2, <2>3 DEF OnePass, Covers, AtStart, Asked, Pages, Shows
<1>10. pages = {} => strict' = <<>>
  <2> SUFFICES ASSUME pages = {} PROVE Elements(strict') = {} BY <1>4, ElementsOf
  <2> QED BY <1>3
<1> HIDE DEF pages
<1>11. Course' BY <1>1, <1>8, <1>9, <1>10 DEF Course
<1>12. Good' BY <1>1, NotYet
<1> QED BY <1>1, <1>6, <1>11, <1>12 DEF IInv, Good, Phases

LEMMA CoordinateFailsKeeps ==
    ASSUME IInv, NEW a, Reading("coordinate", a.rows, a.rejected), CoordinateFails(a) PROVE IInv'
<1> DEFINE refused == On(a.rejected, Between(found))
           N == Elements(refused)
<1>1. /\ phase' = "recover" /\ holds' = {"text"} /\ document' = document /\ range' = range
      /\ first' = first /\ strict' = strict /\ text' = text /\ total' = total
      /\ rejected' = rejected \o refused /\ seen' = seen \cup N
  BY DEF CoordinateFails, Job, Pass
<1>2. Typed /\ AfterLayout BY DEF IInv, Course, CoordinateFails
<1>3. Reading("coordinate", On(a.rows, {}), refused) BY OnReading
<1> HIDE DEF refused
<1>4. Reading("coordinate", <<>>, refused) /\ refused \in Seq(Row)
  BY <1>3, Empty DEF Reading, Raw
<1>5. <<>> \o refused = refused BY <1>4
<1>6. Apart(seen, N) BY <1>2, <1>4 DEF Apart, AfterLayout, ReadBy, Reading
<1>7. Extends(seen, N, <<>>, refused) BY <1>2, <1>4, <1>5, <1>6, MoreRead DEF Typed
<1> HIDE DEF N
<1>8. /\ Raw(seen') /\ AllFaithful(strict, seen')
      /\ Marks(seen') = Marks(seen) \cup MarksIn(refused)
      /\ \A x \in N : x.mark[1] = "coordinate"
  BY <1>1, <1>2, <1>4, <1>7, Empty DEF Extends, AfterLayout, LayoutKept, Reading
<1>9. rejected' \in Seq(Row) /\ MarksIn(rejected') = MarksIn(rejected) \cup MarksIn(refused)
  <2>1. rejected' \in Seq(Row) /\ Elements(rejected') = Elements(rejected) \cup Elements(refused)
    BY <1>1, <1>2, <1>4, ElementsOfConcat DEF Typed
  <2> QED BY <2>1, MarksUnion DEF MarksIn
<1>10. Typed' BY <1>1, <1>2, <1>8, <1>9 DEF Typed, Tally
<1>11. ReadBy({"strict", "coordinate"})' BY <1>1, <1>2, <1>8 DEF AfterLayout, ReadBy
<1>12. LayoutKept' BY <1>1, <1>2, <1>8, <1>9 DEF AfterLayout, LayoutKept, Accounted
<1>13. Course' BY <1>1, <1>11, <1>12 DEF Course
<1>14. Good' BY <1>1, NotYet
<1> QED BY <1>1, <1>10, <1>13, <1>14 DEF IInv, Good, Phases

LEMMA CoordinateKeeps ==
    ASSUME IInv, NEW a \in CoordinateAnswers, Coordinate(a) PROVE IInv'
<1>1. /\ phase' = "grid" /\ document' = document /\ range' = range /\ first' = first
      /\ found' = found /\ strict' = strict /\ total' = total /\ holds' = holds
      /\ Coordinates(a)
  BY DEF Coordinate, Job
<1>2. Typed /\ AfterLayout /\ OnePass BY DEF IInv, Course, Coordinate
<1>3. \A x \in seen : x.mark[1] # "coordinate" BY <1>2 DEF AfterLayout, ReadBy
<1>4. /\ rejected' \in Seq(Row) /\ Tally(text') /\ Raw(seen')
      /\ AllFaithful(text'.records, seen')
      /\ Marks(seen') \subseteq {} \cup MarksOfTally(text') \cup MarksIn(rejected')
      /\ \A x \in seen' : \/ x \in seen
                          \/ x.mark[1] = "coordinate" /\ PageOf(x) \in found \cup (Low..High)
  <2>1. Accounted({} \cup MarksIn(strict)) /\ AllFaithful(strict, seen)
    BY <1>2 DEF AfterLayout, LayoutKept, Accounted
  <2> QED BY <1>1, <1>2, <1>3, <2>1, CoordinateReads, CoordinatesKeep
<1>5. Typed' BY <1>1, <1>2, <1>4 DEF Typed, Tally
<1>6. AfterCoordinate'
  BY <1>2, <1>4 DEF AfterCoordinate, AfterLayout, ReadBy, Accounted
<1>7. OnePass' BY <1>1, <1>2 DEF OnePass, Covers, Asked, Pages, Shows
<1>8. Course' BY <1>1, <1>6, <1>7 DEF Course
<1>9. Good' BY <1>1, NotYet
<1> QED BY <1>1, <1>5, <1>8, <1>9 DEF IInv, Good, Phases

(***************************************************************************)
(* The grid, and the end of the pass.                                      *)
(***************************************************************************)

LEMMA FinishKeeps ==
    ASSUME Typed, NEW artifact, Finish(artifact), Raw(seen'), Good' PROVE IInv'
<1>1. Typed' BY DEF Finish, Typed, Job, Pass, Totals, Tally
<1>2. phase' = "done" BY DEF Finish
<1>3. Course' BY <1>2 DEF Course
<1> QED BY <1>1, <1>2, <1>3 DEF IInv, Good, Phases

\* The step adds to what was seen the rows of the grid.
GridAdds(g, pages) ==
    /\ Reading("grid", g.records, g.quarantined)
    /\ g.failed # None => g.records = <<>> /\ g.quarantined = <<>>
    /\ Raw(seen')
    /\ Marks(seen') = Marks(seen) \cup MarksIn(g.records) \cup MarksIn(g.quarantined)
    /\ AllFaithful(g.records, seen')
    /\ \A s : AllFaithful(s, seen) => AllFaithful(s, seen')
    /\ \A x \in seen' : x \in seen \/ (pages # None => PageOf(x) \in pages)

LEMMA GridKeeps ==
    ASSUME Typed, NEW exit, NEW a \in GridAnswers, NEW pages, NEW g,
           g = GridEvidence(exit, a, pages),
           seen' = seen \cup Elements(g.records \o g.quarantined),
           \A x \in seen : x.mark[1] # "grid" \/ (pages # None /\ PageOf(x) \notin pages)
    PROVE  GridAdds(g, pages)
<1> DEFINE N == Elements(g.records \o g.quarantined)
<1>1. /\ Reading("grid", g.records, g.quarantined)
      /\ pages # None =>
            \A r \in Elements(g.records) \cup Elements(g.quarantined) : PageOf(r) \in pages
      /\ g.failed # None => g.records = <<>> /\ g.quarantined = <<>>
  BY GridReads
<1>2. N = Elements(g.records) \cup Elements(g.quarantined)
  BY <1>1, ElementsOfConcat DEF Reading
<1>3. Apart(seen, N)
  <2> HIDE DEF N
  <2> SUFFICES ASSUME NEW x \in seen, NEW y \in N, x.mark = y.mark PROVE FALSE BY DEF Apart
  <2>1. PageOf(x) = PageOf(y) /\ x.mark[1] = y.mark[1] BY DEF PageOf
  <2>2. y.mark[1] = "grid" /\ (pages # None => PageOf(y) \in pages) BY <1>1, <1>2 DEF Reading
  <2> QED BY <2>1, <2>2
<1>4. Extends(seen, N, g.records, g.quarantined)
  <2>1. Raw(seen) BY DEF Typed
  <2> QED BY <1>1, <1>3, <2>1, MoreRead
<1>5. seen' = seen \cup N OBVIOUS
<1> HIDE DEF N
<1>6. /\ Raw(seen') /\ AllFaithful(g.records, seen')
      /\ Marks(seen') = Marks(seen) \cup MarksIn(g.records) \cup MarksIn(g.quarantined)
      /\ \A s : AllFaithful(s, seen) => AllFaithful(s, seen')
  BY <1>4, <1>5 DEF Extends
<1>7. \A x \in seen' : x \in seen \/ (pages # None => PageOf(x) \in pages)
  BY <1>1, <1>2, <1>5
<1> QED BY <1>1, <1>6, <1>7 DEF GridAdds

LEMMA OcrKeeps ==
    ASSUME IInv, NEW a \in LayoutAnswers, NEW supplied, Ocr(a, supplied) PROVE IInv'
<1> DEFINE rows == On(a.rows, supplied)
           refused == On(a.rejected, supplied)
<1>1. Typed BY DEF IInv
<1>2. CASE supplied # range
  <2>1. Finish(None) /\ UNCHANGED seen BY <1>2 DEF Ocr
  <2>2. Raw(seen') BY <1>1, <2>1 DEF Typed
  <2>3. Good' BY <2>1 DEF Finish, Good, NothingDropped, RecordsAgree, CompleteIsEarned, Artifact
  <2> QED BY <1>1, <2>1, <2>2, <2>3, FinishKeeps
<1>3. CASE supplied = range
  <2>1. /\ Finish(Envelope(rows, refused, <<>>, {"ocr"}, range, TRUE))
        /\ seen' = Elements(rows \o refused) /\ range # None
    BY <1>3, Zenon DEF Ocr
  <2>2. Reading("strict", rows, refused) BY LayoutReads, OnReading
  <2> HIDE DEF rows, refused
  <2>3. /\ rows \in Seq(Row) /\ refused \in Seq(Row)
        /\ seen' = Elements(rows) \cup Elements(refused)
    BY <2>1, <2>2, ElementsOfConcat DEF Reading
  <2>4. Raw(seen') BY <2>2, <2>3 DEF Reading
  <2>5. AllFaithful(rows, seen') BY <2>3, <2>4, RawIsFaithful DEF AllFaithful
  <2>6. Marks(seen') = MarksIn(rows) \cup MarksIn(refused) BY <2>3, MarksUnion DEF MarksIn
  <2>7. result' = Envelope(rows, refused, <<>>, {"ocr"}, range, TRUE) BY <2>1 DEF Finish
  <2>8. ThenCovers(range) BY <2>1 DEF ThenCovers, Asked, Finish, Job
  <2>9. Good' BY <2>3, <2>4, <2>5, <2>6, <2>7, <2>8, Empty, Judged
  <2> QED BY <1>1, <2>1, <2>4, <2>9, FinishKeeps
<1> QED BY <1>2, <1>3

LEMMA GridLast ==
    ASSUME IInv, NEW exit \in GridExits, NEW a \in GridAnswers, Grid(exit, a) PROVE IInv'
<1> DEFINE g == GridEvidence(exit, a, found)
           sc == g.failed # "budget"
<1>1. Typed /\ AfterCoordinate /\ OnePass BY DEF IInv, Course, Grid
<1>2. /\ seen' = seen \cup Elements(g.records \o g.quarantined)
      /\ GridForNoText(g) \/ GridForText(g)
  BY Zenon DEF Grid
<1> HIDE DEF g
<1>3. GridAdds(g, found)
  <2>1. \A x \in seen : x.mark[1] # "grid" BY <1>1 DEF AfterCoordinate, ReadBy
  <2>2. g = GridEvidence(exit, a, found) BY DEF g
  <2> QED BY <1>1, <1>2, <2>1, <2>2, GridKeeps
<1>4. Raw(seen') BY <1>3 DEF GridAdds
<1>5. ASSUME NEW artifact, Finish(artifact) PROVE ThenCovers(found)
  BY <1>1, <1>5 DEF OnePass, Covers, Shows, ThenCovers, Asked, Pages, Finish, Job
<1>6. g.records \in Seq(Row) /\ g.quarantined \in Seq(Row) BY <1>3 DEF GridAdds, Reading
<1>7. Marks(seen') = Marks(seen) \cup MarksIn(g.records) \cup MarksIn(g.quarantined)
  BY <1>3 DEF GridAdds
<1>8. Marks(seen) \subseteq MarksOfTally(text) \cup MarksIn(rejected)
  BY <1>1 DEF AfterCoordinate, Accounted
<1>9. CASE GridForNoText(g)
  <2> DEFINE hs == IF g.failed = "budget" THEN {"budget"} ELSE Unavailable(g)
             e == Envelope(g.records, rejected, g.quarantined, hs, found, sc)
  <2>1. ~Read(text) /\ Finish(e) BY <1>9 DEF GridForNoText
  <2>2. MarksOfTally(text) = {} BY <2>1, Empty DEF Read, MarksOfTally
  <2>3. sc => "budget" \notin hs /\ "scan-limit" \notin hs BY DEF Unavailable
  <2>4. ThenCovers(found)
    <3> HIDE DEF e
    <3> QED BY <1>5, <2>1
  <2>5. result' = e BY <2>1 DEF Finish
  <2>6. AllFaithful(g.records, seen') BY <1>3 DEF GridAdds
  <2>7. rejected \in Seq(Row) BY <1>1 DEF Typed
  <2> HIDE DEF hs, sc
  <2>8. Good' BY <1>4, <1>6, <1>7, <1>8, <2>2, <2>3, <2>4, <2>5, <2>6, <2>7, Judged
  <2> HIDE DEF e
  <2> QED BY <1>1, <1>4, <2>1, <2>8, FinishKeeps
<1>10. CASE GridForText(g)
  <2> DEFINE t == WithGrid(g)
             hs == Budget(g) \cup Conflicting(t)
             e == Envelope(t.records, rejected, t.quarantined, hs, found, sc)
  <2>1. Finish(e) BY <1>10, Zenon DEF GridForText
  <2>2. /\ Tally(t)
        /\ MarksOfTally(text) \cup MarksIn(g.records) \cup MarksIn(g.quarantined) \subseteq MarksOfTally(t)
        /\ \A S : Raw(S) /\ AllFaithful(text.records, S) /\ AllFaithful(g.records, S)
                     => AllFaithful(t.records, S)
    BY <1>1, <1>3, WithGridKeeps DEF Typed, GridAdds
  <2> HIDE DEF t
  <2>3. sc => "budget" \notin hs /\ "scan-limit" \notin hs BY DEF Budget, Conflicting
  <2>4. ThenCovers(found)
    <3> HIDE DEF e
    <3> QED BY <1>5, <2>1
  <2>5. result' = e BY <2>1 DEF Finish
  <2>6. AllFaithful(t.records, seen')
    BY <1>1, <1>3, <1>4, <2>2 DEF GridAdds, AfterCoordinate
  <2>7. rejected \in Seq(Row) /\ t.records \in Seq(Row) /\ t.quarantined \in Seq(Row)
    BY <1>1, <2>2 DEF Typed, Tally
  <2>8. Marks(seen') \subseteq MarksIn(t.records) \cup MarksIn(rejected) \cup MarksIn(t.quarantined)
    BY <1>7, <1>8, <2>2 DEF MarksOfTally
  <2> HIDE DEF hs, sc
  <2>9. Good' BY <1>4, <2>3, <2>4, <2>5, <2>6, <2>7, <2>8, Judged
  <2> HIDE DEF e
  <2> QED BY <1>1, <1>4, <2>1, <2>9, FinishKeeps
<1> QED BY <1>2, <1>9, <1>10

LEMMA GridAloneKeeps ==
    ASSUME IInv, NEW exit \in GridExits, NEW a \in GridAnswers, GridAlone(exit, a) PROVE IInv'
<1> DEFINE g == GridEvidence(exit, a, None)
           e == Envelope(g.records, rejected, g.quarantined, Unavailable(g), GridPages(g), TRUE)
<1>1. Typed /\ AfterLayout /\ OnePass /\ found = {} /\ strict = <<>>
  BY DEF IInv, Course, GridAlone
<1>2. seen' = seen \cup Elements(g.records \o g.quarantined) /\ Finish(e) BY Zenon DEF GridAlone
<1> HIDE DEF g
<1>3. GridAdds(g, None)
  <2>1. \A x \in seen : x.mark[1] # "grid" BY <1>1 DEF AfterLayout, ReadBy
  <2>2. g = GridEvidence(exit, a, None) BY DEF g
  <2> QED BY <1>1, <1>2, <2>1, <2>2, GridKeeps
<1>4. Raw(seen') BY <1>3 DEF GridAdds
<1>5. /\ g.records \in Seq(Row) /\ g.quarantined \in Seq(Row) /\ rejected \in Seq(Row)
      /\ AllFaithful(g.records, seen')
  BY <1>1, <1>3 DEF GridAdds, Reading, Typed
<1>6. Marks(seen') \subseteq MarksIn(g.records) \cup MarksIn(rejected) \cup MarksIn(g.quarantined)
  BY <1>1, <1>3, Empty DEF GridAdds, AfterLayout, LayoutKept, Accounted
<1>7. ThenCovers(GridPages(g))
  BY <1>1, <1>2 DEF OnePass, Covers, Shows, ThenCovers, Asked, Pages, Finish, Job
<1>8. result' = e BY <1>2 DEF Finish
<1>9. "budget" \notin Unavailable(g) /\ "scan-limit" \notin Unavailable(g) BY DEF Unavailable
<1>10. Good' BY <1>4, <1>5, <1>6, <1>7, <1>8, <1>9, Judged
<1> HIDE DEF e
<1> QED BY <1>1, <1>2, <1>4, <1>10, FinishKeeps

LEMMA RecoverKeeps ==
    ASSUME IInv, NEW exit \in GridExits, NEW a \in GridAnswers, Recover(exit, a) PROVE IInv'
<1> DEFINE g == GridEvidence(exit, a, range)
           sc == g.failed # "budget"
           grid == Envelope(g.records, <<>>, g.quarantined, {}, GridPages(g), TRUE)
           layout == Envelope(strict, rejected, g.quarantined, Budget(g), PagesOf(strict), sc)
           none == Envelope(<<>>, <<>>, <<>>, holds \cup Budget(g), {}, sc)
<1>1. Typed /\ ReadBy({"strict", "coordinate"}) /\ LayoutKept /\ holds = {"text"}
  BY DEF IInv, Course, Recover
<1>2. /\ seen' = seen \cup Elements(g.records \o g.quarantined)
      /\ Finish(IF g.records # <<>> \/ (strict = <<>> /\ g.failed = None) THEN grid
                ELSE IF strict # <<>> THEN layout ELSE none)
  BY Zenon DEF Recover, GridFirst
<1>0. \A r \in Elements(g.records) : r.code = None BY GridClean
<1> HIDE DEF g
<1>3. GridAdds(g, range)
  <2>1. \A x \in seen : x.mark[1] # "grid" BY <1>1 DEF ReadBy
  <2>2. g = GridEvidence(exit, a, range) BY DEF g
  <2> QED BY <1>1, <1>2, <2>1, <2>2, GridKeeps
<1>4. Raw(seen') BY <1>3 DEF GridAdds
<1>5. /\ g.records \in Seq(Row) /\ g.quarantined \in Seq(Row) /\ AllFaithful(g.records, seen')
      /\ strict \in Seq(Row) /\ rejected \in Seq(Row) /\ AllFaithful(strict, seen')
  BY <1>1, <1>3 DEF GridAdds, Reading, Typed, LayoutKept
<1>6. ASSUME NEW artifact, Finish(artifact)
      PROVE  /\ result' = artifact /\ holds' = {"text"}
             /\ (strict = <<>> \/ g.records # <<>>) /\ ~Replaced'
                    => strict = <<>> /\ rejected = <<>>
  <2>1. strict' = strict /\ rejected' = rejected /\ holds' = holds /\ result' = artifact
    BY <1>6 DEF Finish, Pass, Totals
  <2>2. g.records # <<>> => \E r \in seen' : r.mark[1] = "grid" /\ r.code = None
    <3> SUFFICES ASSUME g.records # <<>>
                 PROVE  \E r \in seen' : r.mark[1] = "grid" /\ r.code = None
      OBVIOUS
    <3>1. /\ g.records \in Seq(Row) /\ g.quarantined \in Seq(Row)
          /\ \A r \in Elements(g.records) : r.mark[1] = "grid"
      BY <1>3 DEF GridAdds, Reading
    <3>2. PICK r : r \in Elements(g.records) BY <3>1, ElementsOf
    <3>3. r \in Elements(g.records \o g.quarantined) BY <3>1, <3>2, ElementsOfConcat
    <3> QED BY <1>0, <1>2, <3>1, <3>2, <3>3
  <2>3. (strict = <<>> \/ g.records # <<>>) /\ ~Replaced' => strict \o rejected = <<>>
    BY <1>1, <2>1, <2>2 DEF Replaced
  <2>4. strict \o rejected = <<>> => strict = <<>> /\ rejected = <<>>
    BY <1>5, ConcatEqualIffEmpty
  <2> QED BY <1>1, <2>1, <2>3, <2>4
<1>7. (strict = <<>> \/ g.records # <<>>) /\ ~Replaced'
        => Marks(seen') = MarksIn(g.records) \cup MarksIn(g.quarantined)
  <2>1. PICK artifact : Finish(artifact) BY <1>2
  <2>2. strict = <<>> /\ rejected = <<>> => Marks(seen) = {}
    BY <1>1, Empty DEF LayoutKept, Accounted
  <2> QED BY <1>3, <1>6, <2>1, <2>2 DEF GridAdds
<1>8. CASE g.records # <<>> \/ (strict = <<>> /\ g.failed = None)
  <2>1. Finish(grid) BY <1>2, <1>8
  <2>2. result' = grid /\ holds' = {"text"}
    <3> HIDE DEF grid
    <3> QED BY <1>6, <2>1
  <2>3. Good' BY <1>4, <1>5, <1>7, <1>8, <2>2, Empty, Judged
  <2> HIDE DEF grid
  <2> QED BY <1>1, <1>4, <2>1, <2>3, FinishKeeps
<1>9. CASE g.records = <<>> /\ strict # <<>>
  <2>1. Finish(layout) BY <1>2, <1>9
  <2>2. result' = layout /\ holds' = {"text"}
    <3> HIDE DEF layout
    <3> QED BY <1>6, <2>1
  <2>3. sc => "budget" \notin Budget(g) /\ "scan-limit" \notin Budget(g) BY DEF Budget
  <2>5. Marks(seen') \subseteq MarksIn(strict) \cup MarksIn(rejected) \cup MarksIn(g.quarantined)
    <3>1. MarksIn(g.records) = {} BY <1>9, Empty
    <3> QED BY <1>1, <1>3, <3>1 DEF GridAdds, LayoutKept, Accounted
  <2> HIDE DEF sc
  <2>4. Good' BY <1>4, <1>5, <2>2, <2>3, <2>5, Judged
  <2> HIDE DEF layout
  <2> QED BY <1>1, <1>4, <2>1, <2>4, FinishKeeps
<1>10. CASE g.records = <<>> /\ strict = <<>> /\ g.failed # None
  <2>1. Finish(none) BY <1>2, <1>10
  <2>2. result' = none /\ holds' = {"text"}
    <3> HIDE DEF none
    <3> QED BY <1>6, <2>1
  <2>3. ~Replaced' => Marks(seen') = {}
    <3>1. g.records = <<>> /\ g.quarantined = <<>> BY <1>3, <1>10 DEF GridAdds
    <3>2. MarksIn(g.records) = {} /\ MarksIn(g.quarantined) = {} BY <3>1, Empty
    <3> QED BY <1>7, <1>10, <3>2
  <2> DEFINE hs == holds \cup Budget(g)
  <2>4. sc => "budget" \notin hs /\ "scan-limit" \notin hs BY <1>1 DEF Budget
  <2> HIDE DEF sc, hs
  <2>5. result' = Envelope(<<>>, <<>>, <<>>, hs, {}, sc) BY <2>2 DEF hs
  <2>6. Good' BY <1>4, <2>2, <2>3, <2>4, <2>5, Empty, Judged
  <2> HIDE DEF none
  <2> QED BY <1>1, <1>4, <2>1, <2>6, FinishKeeps
<1> QED BY <1>8, <1>9, <1>10

(***************************************************************************)
(* Chunks.                                                                 *)
(***************************************************************************)

\* A chunk shorter than the span holds the last page.
LEMMA LastCovers ==
    ASSUME document \in Documents, first \in Nat, first > 0, LastChunk(Chunk)
    PROVE  Len(document) < first + Span
<1>1. Len(document) \in Nat /\ Pages = 1..Len(document) BY PagesAre
<1>2. Span \in Nat \ {0} BY ExtractionAssumption
<1> SUFFICES ASSUME ~(Len(document) < first + Span) PROVE FALSE OBVIOUS
<1>3. Chunk = first..(first + Span - 1) BY <1>1, <1>2 DEF Chunk
<1>4. Cardinality(first..(first + Span - 1)) = Span
  <2>1. first \in Int /\ first + Span - 1 \in Int BY <1>2
  <2>2. Cardinality(first..(first + Span - 1))
            = IF first > first + Span - 1 THEN 0 ELSE (first + Span - 1) - first + 1
    BY <2>1, FS_Interval
  <2> QED BY <1>2, <2>2
<1> QED BY <1>2, <1>3, <1>4 DEF LastChunk

LEMMA ChunkEnds ==
    ASSUME Typed, range = None, first > 0,
           NEW t, Tally(t), NEW refused \in Seq(Row), NEW pages, NEW hs, hs \subseteq {"budget"},
           ChunkEnd(t, refused, pages, hs), UNCHANGED Job,
           Raw(seen'), AllFaithful(t.records, seen'),
           Marks(seen') \subseteq MarksOfTally(t) \cup MarksIn(refused),
           \A x \in seen' : PageOf(x) \in 0..(first + Span - 1),
           \A p \in Pages : Shows(p) /\ p < first + Span => p \in pages
    PROVE  IInv'
<1> DEFINE sc == LastChunk(Chunk)
           codes == hs \cup Conflicting(t)
                       \cup (IF sc THEN {} ELSE {"scan-limit"})
                       \cup (IF t.records = <<>> THEN {"unavailable"} ELSE {})
           scanned == sc /\ "budget" \notin hs
<1>1. /\ strict' = <<>> /\ text' = Nothing /\ total' = t /\ rejected' = refused
      /\ detected' = pages /\ holds' = hs /\ document' = document /\ range' = range
  BY DEF ChunkEnd, Job
<1>2. document \in Documents /\ first \in Nat /\ Span \in Nat \ {0}
  BY ExtractionAssumption DEF Typed
<1>3. CASE sc \/ first + Span > ScanPages
  <2>1. phase' = "done" /\ first' = first /\ result' = ChunkArtifact(t, refused, pages, hs, sc)
    BY <1>3 DEF ChunkEnd
  <2>2. result' = Envelope(t.records, refused, t.quarantined, codes, pages, scanned)
    BY <2>1 DEF ChunkArtifact
  <2>3. "scan-limit" \notin codes => sc OBVIOUS
  <2>4. scanned => "budget" \notin codes /\ "scan-limit" \notin codes BY DEF Conflicting
  <2>5. scanned => ThenCovers(pages)
    <3> SUFFICES ASSUME sc PROVE ThenCovers(pages) OBVIOUS
    <3>1. Len(document) < first + Span BY <1>2, LastCovers
    <3>2. Pages = 1..Len(document) /\ Len(document) \in Nat BY <1>2, PagesAre
    <3>3. \A p \in Pages : p < first + Span BY <1>2, <3>1, <3>2
    <3>4. \A p \in Pages : Shows(p) => p \in pages BY <3>3
    <3> QED BY <1>1, <3>4 DEF ThenCovers, Asked, Pages, Shows
  <2>6. t.records \in Seq(Row) /\ t.quarantined \in Seq(Row) BY DEF Tally
  <2>7. Marks(seen') \subseteq MarksIn(t.records) \cup MarksIn(refused) \cup MarksIn(t.quarantined)
    BY DEF MarksOfTally
  <2> HIDE DEF codes, scanned
  <2>8. Good' BY <2>2, <2>4, <2>5, <2>6, <2>7, Judged
  <2>9. Typed' BY <1>1, <2>1, Empty DEF Typed, Tally
  <2>10. Course' BY <2>1 DEF Course
  <2> QED BY <2>1, <2>8, <2>9, <2>10 DEF IInv, Good, Phases
<1>4. CASE ~(sc \/ first + Span > ScanPages)
  <2>1. phase' = "chunk" /\ first' = first + Span BY <1>4 DEF ChunkEnd
  <2>2. Good' BY <2>1, NotYet
  <2>3. Typed' BY <1>1, <1>2, <2>1, Empty DEF Typed, Tally
  <2>4. InChunk({})' BY <1>1, <1>2, <2>1 DEF InChunk, Pages, Shows, PageOf
  <2>5. Accounted(MarksOfTally(total))' BY <1>1 DEF Accounted
  <2>6. Course' BY <2>1, <2>4, <2>5 DEF Course
  <2> QED BY <2>1, <2>2, <2>3, <2>6 DEF IInv, Good, Phases
<1> QED BY <1>3, <1>4

LEMMA ChunkStopsKeeps == ASSUME IInv, ChunkStops PROVE IInv'
<1> DEFINE codes == holds \cup Conflicting(total) \cup {"scan-limit"}
                       \cup (IF total.records = <<>> THEN {"unavailable"} ELSE {})
           e == Envelope(total.records, rejected, total.quarantined, codes, detected, FALSE)
<1>1. Typed BY DEF IInv
<1>2. ChunkArtifact(total, rejected, detected, holds, FALSE) = e BY DEF ChunkArtifact
<1>3. "scan-limit" \in codes OBVIOUS
<1> HIDE DEF codes
<1>4. Finish(e) /\ seen' = seen BY <1>2 DEF ChunkStops
<1>5. result' = e BY <1>4 DEF Finish
<1>6. Raw(seen') BY <1>1, <1>4 DEF Typed
<1>7. AllFaithful(total.records, seen') BY <1>4 DEF IInv, Course, ChunkStops, InChunk
<1>8. total.records \in Seq(Row) /\ total.quarantined \in Seq(Row) /\ rejected \in Seq(Row)
  BY <1>1 DEF Typed, Tally
<1>9. Good' BY <1>3, <1>5, <1>6, <1>7, <1>8, Judged
<1> HIDE DEF e
<1> QED BY <1>1, <1>4, <1>6, <1>9, FinishKeeps

LEMMA ChunkLayoutKeeps ==
    ASSUME IInv, NEW a \in LayoutAnswers, ChunkLayout(a) PROVE IInv'
<1> DEFINE pages == Discovered(Chunk)
           rows == On(a.rows, pages)
           refused == Refused(a, pages, Chunk)
           N == Elements(rows \o refused)
<1>1. Typed /\ InChunk({}) /\ Accounted(MarksOfTally(total)) BY DEF IInv, Course, ChunkLayout
<1>2. range = None /\ first > 0 /\ first \in Nat /\ holds \subseteq {"budget"}
      /\ AllFaithful(total.records, seen) /\ Span \in Nat \ {0}
      /\ document \in Documents
  BY <1>1, ExtractionAssumption DEF InChunk, Typed
<1>3. /\ pages \subseteq Chunk
      /\ \A p \in Chunk : Shows(p) => p \in pages
  <2>1. Chunk \in SUBSET Pages BY DEF Chunk
  <2> QED BY <1>2, <2>1, DiscoveredFacts
<1>4. Len(document) \in Nat /\ Pages = 1..Len(document) BY <1>2, PagesAre
<1>5. \A p \in Pages : Shows(p) /\ p < first + Span => p \in detected \cup pages
  <2> SUFFICES ASSUME NEW p \in Pages, Shows(p), p < first + Span
               PROVE  p \in detected \cup pages
    OBVIOUS
  <2>1. CASE p < first BY <1>1, <1>2, <1>4, <2>1 DEF InChunk
  <2>2. CASE ~(p < first)
    <3>1. p \in Chunk BY <1>2, <1>4, <2>2 DEF Chunk
    <3> QED BY <1>3, <3>1
  <2> QED BY <2>1, <2>2
<1>6. \A x \in seen : PageOf(x) \in 0..(first - 1) BY <1>1 DEF InChunk
<1>7. CASE pages = {}
  <2>1. ChunkEnd(total, rejected, detected \cup pages, holds) /\ seen' = seen /\ UNCHANGED Job
    BY <1>7, Zenon DEF ChunkLayout
  <2>2. Tally(total) /\ rejected \in Seq(Row) /\ Raw(seen') BY <1>1, <2>1 DEF Typed
  <2>3. Marks(seen') \subseteq MarksOfTally(total) \cup MarksIn(rejected)
    BY <1>1, <2>1 DEF Accounted
  <2>4. \A x \in seen' : PageOf(x) \in 0..(first + Span - 1) BY <1>2, <1>6, <2>1
  <2>5. AllFaithful(total.records, seen') BY <1>2, <2>1
  <2> HIDE DEF pages
  <2> QED BY <1>1, <1>2, <1>5, <2>1, <2>2, <2>3, <2>4, <2>5, ChunkEnds
<1>8. CASE pages # {}
  <2>1. /\ found' = pages /\ detected' = detected \cup pages
        /\ strict' = rows /\ rejected' = rejected \o refused
        /\ phase' = "chunk-coordinate" /\ seen' = seen \cup N
        /\ first' = first /\ text' = text /\ total' = total /\ holds' = holds
        /\ document' = document /\ range' = range
    BY <1>8 DEF ChunkLayout, Job
  <2>2. /\ Reading("strict", rows, refused)
        /\ \A x \in Elements(rows) : PageOf(x) \in pages
        /\ \A x \in Elements(refused) : PageOf(x) \in pages \cup Chunk
    <3> HIDE DEF pages
    <3> QED BY RefusedReads
  <2> HIDE DEF rows, refused, pages
  <2>3. N = Elements(rows) \cup Elements(refused) BY <2>2, ElementsOfConcat DEF Reading
  <2>4. \A x \in N : x.mark[1] = "strict" /\ PageOf(x) \in first..(first + Span - 1)
    BY <1>3, <2>2, <2>3 DEF Reading, Chunk
  <2>5. Apart(seen, N)
    <3> HIDE DEF N
    <3> SUFFICES ASSUME NEW x \in seen, NEW y \in N, x.mark = y.mark PROVE FALSE BY DEF Apart
    <3>1. PageOf(x) = PageOf(y) BY DEF PageOf
    <3> QED BY <1>2, <1>6, <2>4, <3>1
  <2>6. Extends(seen, N, rows, refused)
    <3>1. Raw(seen) BY <1>1 DEF Typed
    <3> QED BY <2>2, <2>5, <3>1, MoreRead
  <2> HIDE DEF N
  <2>7. /\ Raw(seen') /\ AllFaithful(rows, seen') /\ AllFaithful(total.records, seen')
        /\ Marks(seen') = Marks(seen) \cup MarksIn(rows) \cup MarksIn(refused)
    BY <1>2, <2>1, <2>6 DEF Extends
  <2>8. rejected' \in Seq(Row) /\ MarksIn(rejected') = MarksIn(rejected) \cup MarksIn(refused)
    <3>1. rejected' \in Seq(Row) /\ Elements(rejected') = Elements(rejected) \cup Elements(refused)
      BY <1>1, <2>1, <2>2, ElementsOfConcat DEF Typed, Reading
    <3> QED BY <3>1, MarksUnion DEF MarksIn
  <2>9. Typed' BY <1>1, <2>1, <2>2, <2>7, <2>8 DEF Typed, Tally, Reading
  <2>10. Accounted(MarksOfTally(total) \cup MarksIn(strict))'
    BY <1>1, <2>1, <2>7, <2>8 DEF Accounted, MarksOfTally
  <2>11. InChunk({"strict"})'
    <3>1. \A x \in seen' : \/ PageOf(x) \in 0..(first - 1)
                           \/ PageOf(x) \in 0..(first + Span - 1) /\ x.mark[1] \in {"strict"}
      BY <1>2, <1>6, <2>1, <2>4
    <3>2. \A p \in Pages' : Shows(p)' /\ p < first + Span => p \in detected'
      BY <1>5, <2>1 DEF Pages, Shows
    <3>3. found' # {} /\ found' \subseteq Chunk' BY <1>3, <1>8, <2>1 DEF Chunk, Pages
    <3> QED BY <1>2, <2>1, <2>7, <3>1, <3>2, <3>3 DEF InChunk, PageOf
  <2>12. Course' BY <2>1, <2>7, <2>10, <2>11 DEF Course
  <2>13. Good' BY <2>1, NotYet
  <2> QED BY <2>1, <2>9, <2>12, <2>13 DEF IInv, Good, Phases
<1> QED BY <1>7, <1>8

LEMMA ChunkCoordinateKeeps ==
    ASSUME IInv, NEW a, Reading("coordinate", a.rows, a.rejected), ChunkCoordinate(a) PROVE IInv'
<1>1. /\ phase' = "chunk-grid" /\ document' = document /\ range' = range /\ first' = first
      /\ found' = found /\ strict' = strict /\ total' = total /\ holds' = holds
      /\ detected' = detected /\ Coordinates(a)
  BY DEF ChunkCoordinate, Job
<1>2. /\ Typed /\ InChunk({"strict"}) /\ AllFaithful(strict, seen)
      /\ Accounted(MarksOfTally(total) \cup MarksIn(strict))
  BY DEF IInv, Course, ChunkCoordinate
<1>3. /\ first > 0 /\ first \in Nat /\ Span \in Nat \ {0}
      /\ found # {} /\ found \subseteq first..(first + Span - 1)
      /\ AllFaithful(total.records, seen)
  BY <1>2, ExtractionAssumption DEF InChunk, Typed, Chunk
<1>4. found \cup (Low..High) \subseteq first..(first + Span - 1)
  <2>1. Low \in found /\ High \in found
    <3>1. first + Span - 1 \in Int BY <1>3
    <3> QED BY <1>3, <3>1, LowHigh
  <2> QED BY <1>3, <2>1
<1>5. \A x \in seen : x.mark[1] # "coordinate" \/ PageOf(x) \notin found \cup (Low..High)
  BY <1>2, <1>3, <1>4 DEF InChunk
<1>6. /\ rejected' \in Seq(Row) /\ Tally(text') /\ Raw(seen')
      /\ AllFaithful(text'.records, seen')
      /\ \A s : AllFaithful(s, seen) => AllFaithful(s, seen')
      /\ Marks(seen') \subseteq MarksOfTally(total) \cup MarksOfTally(text') \cup MarksIn(rejected')
      /\ \A x \in seen' : \/ x \in seen
                          \/ x.mark[1] = "coordinate" /\ PageOf(x) \in found \cup (Low..High)
  BY <1>1, <1>2, <1>5, CoordinatesKeep
<1>7. Typed' BY <1>1, <1>2, <1>6 DEF Typed, Tally
<1>8. InChunk({"strict", "coordinate"})'
  <2>1. \A x \in seen' : \/ PageOf(x) \in 0..(first - 1)
                         \/ /\ PageOf(x) \in 0..(first + Span - 1)
                            /\ x.mark[1] \in {"strict", "coordinate"}
    BY <1>2, <1>3, <1>4, <1>6 DEF InChunk
  <2>2. /\ found' # {} /\ found' \subseteq Chunk' /\ range' = None /\ holds' \subseteq {"budget"}
        /\ \A p \in Pages' : Shows(p)' /\ p < first + Span => p \in detected'
    BY <1>1, <1>2 DEF InChunk, Chunk, Pages, Shows
  <2> QED BY <1>1, <1>3, <1>6, <2>1, <2>2 DEF InChunk, PageOf
<1>9. Accounted(MarksOfTally(total) \cup MarksOfTally(text))' BY <1>1, <1>6 DEF Accounted
<1>10. Course' BY <1>1, <1>6, <1>8, <1>9 DEF Course
<1>11. Good' BY <1>1, NotYet
<1> QED BY <1>1, <1>7, <1>10, <1>11 DEF IInv, Good, Phases

LEMMA TogetherFacts ==
    ASSUME Tally(total), NEW t, Tally(t)
    PROVE  /\ Tally(Together(t))
           /\ MarksOfTally(Together(t)) = MarksOfTally(total) \cup MarksOfTally(t)
           /\ \A S : AllFaithful(total.records, S) /\ AllFaithful(t.records, S)
                        => AllFaithful(Together(t).records, S)
<1> DEFINE u == Together(t)
<1>1. /\ u = [records |-> u.records, quarantined |-> u.quarantined, conflicts |-> u.conflicts]
      /\ u.records = total.records \o t.records
      /\ u.quarantined = total.quarantined \o t.quarantined
  BY DEF Together
<1> HIDE DEF u
<1>2. /\ u.records \in Seq(Row) /\ u.quarantined \in Seq(Row)
      /\ Elements(u.records) = Elements(total.records) \cup Elements(t.records)
      /\ Elements(u.quarantined) = Elements(total.quarantined) \cup Elements(t.quarantined)
  BY <1>1, ElementsOfConcat DEF Tally
<1>3. MarksOfTally(u) = MarksOfTally(total) \cup MarksOfTally(t)
  BY <1>2, MarksUnion DEF MarksOfTally, MarksIn
<1> QED BY <1>1, <1>2, <1>3 DEF u, Tally, AllFaithful

LEMMA CutFacts ==
    ASSUME NEW s \in Seq(Row), NEW room \in Int
    PROVE  Cut(s, room) \in Seq(Row) /\ Elements(Cut(s, room)) \subseteq Elements(s)
<1> DEFINE n == IF Len(s) < room THEN Len(s) ELSE room
<1>1. n \in Int /\ n <= Len(s) /\ Len(s) \in Nat OBVIOUS
<1>2. Cut(s, room) = SubSeq(s, 1, n) BY DEF Cut
<1> HIDE DEF n
<1>3. CASE n < 1
  <2>1. SubSeq(s, 1, n) = <<>> BY <1>1, <1>3, SubSeqProperties
  <2> QED BY <1>2, <2>1, Empty
<1>4. CASE n >= 1
  <2>1. 1 \in 1..Len(s) /\ n \in 1..Len(s) BY <1>1, <1>4
  <2> DEFINE c == SubSeq(s, 1, n)
  <2>2. c \in Seq(Row) /\ Len(c) = n /\ \A i \in 1..n : c[i] = s[i] BY <1>1, <1>4, <2>1
  <2> HIDE DEF c
  <2>3. Elements(c) = {c[i] : i \in 1..Len(c)} BY <2>2, ElementsOf
  <2>4. Elements(s) = {s[i] : i \in 1..Len(s)} BY ElementsOf
  <2>5. Elements(c) \subseteq Elements(s) BY <1>1, <2>2, <2>3, <2>4
  <2> QED BY <1>2, <2>2, <2>5 DEF c
<1> QED BY <1>1, <1>3, <1>4

\* More rows than an extraction may hold: what is kept is of what was read.
LEMMA OverflowKeeps ==
    ASSUME Typed, NEW all, Tally(all), NEW hs, Overflow(all, hs), UNCHANGED Job,
           Raw(seen'), AllFaithful(all.records, seen')
    PROVE  IInv'
<1> DEFINE some == Cut(all.records, MaxRecords)
           refused == Cut(rejected, MaxRecords - Len(some))
           aside == Cut(all.quarantined, MaxRecords - Len(some) - Len(refused))
           room == MaxRecords - Len(some) - Len(refused) - Len(aside)
           t == [records |-> some, quarantined |-> aside,
                 conflicts |-> IF all.conflicts < room THEN all.conflicts ELSE room]
           codes == hs \cup Conflicting(t) \cup {"scan-limit"}
                       \cup (IF some = <<>> THEN {"unavailable"} ELSE {})
<1>1. /\ phase' = "done" /\ rejected' = refused /\ total' = t
      /\ result' = ChunkArtifact(t, refused, detected, hs, FALSE)
      /\ first' = first /\ strict' = strict /\ text' = text
      /\ document' = document /\ range' = range
  <2>1. total' = t /\ rejected' = refused BY Zenon DEF Overflow
  <2>2. /\ phase' = "done" /\ result' = ChunkArtifact(total', rejected', detected, hs, FALSE)
        /\ UNCHANGED <<first, Pass>>
    BY Zenon DEF Overflow
  <2> HIDE DEF t, refused
  <2> QED BY <2>1, <2>2 DEF Pass, Job
<1>2. MaxRecords \in Int BY ExtractionAssumption
<1>3. rejected \in Seq(Row) /\ all.records \in Seq(Row) /\ all.quarantined \in Seq(Row)
  BY DEF Typed, Tally
<1>4. some \in Seq(Row) /\ Elements(some) \subseteq Elements(all.records)
  BY <1>2, <1>3, CutFacts
<1> HIDE DEF some
<1>5. Len(some) \in Nat BY <1>4
<1>6. refused \in Seq(Row)
  <2>1. MaxRecords - Len(some) \in Int BY <1>2, <1>5
  <2> QED BY <1>3, <2>1, CutFacts
<1> HIDE DEF refused
<1>7. Len(refused) \in Nat BY <1>6
<1>8. aside \in Seq(Row)
  <2>1. MaxRecords - Len(some) - Len(refused) \in Int BY <1>2, <1>5, <1>7
  <2> QED BY <1>3, <2>1, CutFacts
<1> HIDE DEF aside
<1>9. t.records = some /\ t.quarantined = aside /\ Tally(t) BY <1>4, <1>8 DEF Tally
<1>10. result' = Envelope(some, refused, aside, codes, detected, FALSE)
  BY <1>1, <1>9 DEF ChunkArtifact
<1>11. AllFaithful(some, seen') BY <1>4 DEF AllFaithful
<1>12. "scan-limit" \in codes OBVIOUS
<1> HIDE DEF codes, t
<1>13. Good' BY <1>4, <1>6, <1>8, <1>10, <1>11, <1>12, Judged
<1>14. Typed' BY <1>1, <1>6, <1>9 DEF Typed, Tally
<1>15. Course' BY <1>1 DEF Course
<1> QED BY <1>1, <1>13, <1>14, <1>15 DEF IInv, Good, Phases

LEMMA ChunkGridKeeps ==
    ASSUME IInv, NEW exit \in GridExits, NEW a \in GridAnswers, ChunkGrid(exit, a) PROVE IInv'
<1> DEFINE g == GridEvidence(exit, a, found)
           all == Together(WithGrid(g))
           hs == holds \cup Budget(g)
<1>1. /\ Typed /\ InChunk({"strict", "coordinate"}) /\ AllFaithful(text.records, seen)
      /\ Accounted(MarksOfTally(total) \cup MarksOfTally(text))
  BY DEF IInv, Course, ChunkGrid
<1>0. \A x \in seen : \/ PageOf(x) \in 0..(first - 1)
                      \/ /\ PageOf(x) \in 0..(first + Span - 1)
                         /\ x.mark[1] \in {"strict", "coordinate"}
  BY <1>1 DEF InChunk
<1>2. /\ seen' = seen \cup Elements(g.records \o g.quarantined)
      /\ Account(all, hs) /\ UNCHANGED Job
  BY Zenon DEF ChunkGrid
<1>3. /\ range = None /\ first > 0 /\ first \in Nat /\ holds \subseteq {"budget"}
      /\ Span \in Nat \ {0} /\ found # None /\ found \subseteq Chunk
      /\ AllFaithful(total.records, seen)
      /\ \A p \in Pages : Shows(p) /\ p < first + Span => p \in detected
  <2>1. /\ range = None /\ first > 0 /\ holds \subseteq {"budget"}
        /\ found # {} /\ found \subseteq Chunk /\ AllFaithful(total.records, seen)
        /\ \A p \in Pages : Shows(p) /\ p < first + Span => p \in detected
    BY <1>1 DEF InChunk
  <2>2. document \in Documents /\ first \in Nat BY <1>1 DEF Typed
  <2>3. Span \in Nat \ {0} BY ExtractionAssumption
  <2>4. found \in SUBSET (DOMAIN document) BY <2>1 DEF Chunk, Pages
  <2>5. found # None BY <2>2, <2>4, ExtractionAssumption
  <2> QED BY <2>1, <2>2, <2>3, <2>5
<1> HIDE DEF g
<1>4. GridAdds(g, found)
  <2>1. \A x \in seen : x.mark[1] # "grid" \/ (found # None /\ PageOf(x) \notin found)
    <3>1. \A p \in found : p \in first..(first + Span - 1) BY <1>3 DEF Chunk
    <3>2. ASSUME NEW x \in seen, PageOf(x) \in 0..(first - 1) PROVE PageOf(x) \notin found
      BY <1>3, <3>1, <3>2
    <3> QED BY <1>0, <1>3, <3>2
  <2>2. g = GridEvidence(exit, a, found) BY DEF g
  <2> QED BY <1>1, <1>2, <2>1, <2>2, GridKeeps
<1>5. /\ Tally(WithGrid(g))
      /\ MarksOfTally(text) \cup MarksIn(g.records) \cup MarksIn(g.quarantined)
            \subseteq MarksOfTally(WithGrid(g))
      /\ \A S : Raw(S) /\ AllFaithful(text.records, S) /\ AllFaithful(g.records, S)
                   => AllFaithful(WithGrid(g).records, S)
  BY <1>1, <1>4, WithGridKeeps DEF Typed, GridAdds
<1>6. /\ Raw(seen') /\ AllFaithful(WithGrid(g).records, seen')
      /\ AllFaithful(total.records, seen')
  BY <1>1, <1>3, <1>4, <1>5 DEF GridAdds
<1>7. /\ Tally(all) /\ MarksOfTally(all) = MarksOfTally(total) \cup MarksOfTally(WithGrid(g))
      /\ AllFaithful(all.records, seen')
  BY <1>1, <1>5, <1>6, TogetherFacts DEF Typed
<1> HIDE DEF all
<1>8. Marks(seen') \subseteq MarksOfTally(all) \cup MarksIn(rejected)
  BY <1>1, <1>4, <1>5, <1>7 DEF GridAdds, Accounted
<1>9. hs \subseteq {"budget"} BY <1>3 DEF Budget
<1>10. \A x \in seen' : PageOf(x) \in 0..(first + Span - 1)
  <2>1. \A x \in seen' : x \in seen \/ PageOf(x) \in found BY <1>3, <1>4 DEF GridAdds
  <2>2. found \subseteq 0..(first + Span - 1) BY <1>3 DEF Chunk
  <2>3. 0..(first - 1) \subseteq 0..(first + Span - 1) BY <1>3
  <2> QED BY <1>0, <2>1, <2>2, <2>3
<1> HIDE DEF hs
<1>11. CASE Overflow(all, hs) BY <1>1, <1>2, <1>6, <1>7, <1>11, OverflowKeeps
<1>12. CASE ChunkEnd(all, rejected, detected, hs)
  <2>1. rejected \in Seq(Row) BY <1>1 DEF Typed
  <2> QED BY <1>1, <1>2, <1>3, <1>6, <1>7, <1>8, <1>9, <1>10, <1>12, <2>1, ChunkEnds
<1> QED BY <1>2, <1>11, <1>12 DEF Account

(***************************************************************************)
(* The theorems.                                                           *)
(***************************************************************************)

LEMMA StutterKeeps == ASSUME IInv, UNCHANGED vars PROVE IInv'
<1>1. /\ document' = document /\ range' = range /\ phase' = phase /\ first' = first
      /\ found' = found /\ strict' = strict /\ text' = text /\ total' = total
      /\ rejected' = rejected /\ detected' = detected /\ holds' = holds
      /\ result' = result /\ seen' = seen
  BY DEF vars
<1>2. Typed' BY <1>1 DEF IInv, Typed, Tally
<1>3. /\ AtStart => AtStart'
      /\ AfterLayout => AfterLayout'
      /\ AfterCoordinate => AfterCoordinate'
      /\ LayoutKept => LayoutKept'
      /\ \A readers : ReadBy(readers) => ReadBy(readers)'
  BY <1>1 DEF AtStart, AfterLayout, LayoutKept, AfterCoordinate, ReadBy, Accounted
<1>4. OnePass => OnePass' BY <1>1 DEF OnePass, Covers, Asked, Pages, Shows
<1>5. ASSUME NEW readers, InChunk(readers) PROVE InChunk(readers)'
  BY <1>1, <1>5 DEF InChunk, Pages, Shows, Chunk, PageOf
<1>6. ASSUME NEW marks, Accounted(marks) PROVE Marks(seen') \subseteq marks \cup MarksIn(rejected')
  BY <1>1, <1>6 DEF Accounted
<1>7. Course'
  BY <1>1, <1>3, <1>4, <1>5, <1>6 DEF IInv, Course, Accounted
<1>8. NothingDropped' BY <1>1 DEF IInv, NothingDropped, Artifact, Replaced
<1>9. RecordsAgree' BY <1>1 DEF IInv, RecordsAgree, Artifact
<1>10. CompleteIsEarned'
  BY <1>1 DEF IInv, CompleteIsEarned, Artifact, Replaced, Asked, Pages
<1> QED BY <1>1, <1>2, <1>7, <1>8, <1>9, <1>10 DEF IInv

LEMMA NextIInv == IInv /\ [Next]_vars => IInv'
<1> SUFFICES ASSUME IInv, [Next]_vars PROVE IInv' OBVIOUS
<1>1. CASE Preflight BY <1>1, PreflightKeeps
<1>2. CASE TextFails BY <1>2, TextFailsKeeps
<1>3. CASE LayoutOverflows BY <1>3, LayoutOverflowsKeeps
<1>4. ASSUME NEW a \in CoordinateAnswers, NEW p \in Pages \cup {0},
             CoordinateFails(Broken(a, p)) \/ ChunkCoordinate(Broken(a, p))
      PROVE  IInv'
  <2>1. Reading("coordinate", Broken(a, p).rows, Broken(a, p).rejected) BY BrokenReads
  <2> QED BY <1>4, <2>1, CoordinateFailsKeeps, ChunkCoordinateKeeps
<1>5. CASE ChunkStops BY <1>5, ChunkStopsKeeps
<1>6. ASSUME NEW a \in LayoutAnswers, Layout(a) PROVE IInv' BY <1>6, LayoutKeeps
<1>7. ASSUME NEW a \in LayoutAnswers, ChunkLayout(a) PROVE IInv' BY <1>7, ChunkLayoutKeeps
<1>8. ASSUME NEW a \in LayoutAnswers, NEW p \in Ranges \ {None}, Ocr(a, p) PROVE IInv'
  BY <1>8, OcrKeeps
<1>9. ASSUME NEW a \in CoordinateAnswers, Coordinate(a) PROVE IInv' BY <1>9, CoordinateKeeps
<1>10. ASSUME NEW a \in CoordinateAnswers, ChunkCoordinate(a) PROVE IInv'
  BY <1>10, CoordinateReads, ChunkCoordinateKeeps
<1>11. ASSUME NEW x \in GridExits, NEW a \in GridAnswers, Grid(x, a) PROVE IInv'
  BY <1>11, GridLast
<1>12. ASSUME NEW x \in GridExits, NEW a \in GridAnswers, GridAlone(x, a) PROVE IInv'
  BY <1>12, GridAloneKeeps
<1>13. ASSUME NEW x \in GridExits, NEW a \in GridAnswers, Recover(x, a) PROVE IInv'
  BY <1>13, RecoverKeeps
<1>14. ASSUME NEW x \in GridExits, NEW a \in GridAnswers, ChunkGrid(x, a) PROVE IInv'
  BY <1>14, ChunkGridKeeps
<1>15. CASE UNCHANGED vars BY <1>15, StutterKeeps
<1> QED
  BY <1>1, <1>2, <1>3, <1>4, <1>5, <1>6, <1>7, <1>8, <1>9, <1>10, <1>11, <1>12, <1>13, <1>14, <1>15
     DEF Next

\* However the three readers fail, time out or overflow, alone or one after the other, and
\* however the manual is cut into chunks, every row and rejection one of them listed is in
\* the artifact as a record, a rejection or a quarantined row, unless the scan stopped
\* early and says so, or the grid replaced what the layout reader had listed because the
\* coordinate reader failed (Replaced).  When the grid then has no record, the layout
\* rows stay.  _reconcile, _envelope, _recover_grid_or, _extract_large_pdf_in_chunks.
THEOREM NothingDroppedAlways == Spec => []NothingDropped
<1>1. IInv => NothingDropped BY DEF IInv
<1> QED BY InitIInv, NextIInv, <1>1, PTL DEF Spec

\* Two rows that differ in a material field, address, name, area or another, are never
\* merged into one record, in one reconciliation or through two of them.  _reconcile.
THEOREM RecordsAgreeAlways == Spec => []RecordsAgree
<1>1. IInv => RecordsAgree BY DEF IInv
<1> QED BY InitIInv, NextIInv, <1>1, PTL DEF Spec

\* Unless the grid replaced the layout after a failure (Replaced), complete coverage is
\* claimed only if every row read is an accepted record and the grid reader did not run
\* out of budget; and unless a text reader failed, only if every register page asked for
\* was read.  _source_coverage and its callers, the chunk loop's last chunk among them.
THEOREM CompleteIsEarnedAlways == Spec => []CompleteIsEarned
<1>1. IInv => CompleteIsEarned BY DEF IInv
<1> QED BY InitIInv, NextIInv, <1>1, PTL DEF Spec
=============================================================================

--------------------------- MODULE UserMapProofs ---------------------------
(***************************************************************************)
(* Proofs about UserMap: for every set of sources, templates and bindings, *)
(* and however many corrections, a linked map means what its candidate and *)
(* its binding said of it, a bundle that is complete is clean where labels *)
(* are unique, and each hold goes on or has another of its code and points *)
(* in its place.                                                           *)
(***************************************************************************)
EXTENDS UserMap, TLAPS, FiniteSetTheorems

\* A user map shows the points of the vendor map and of the selection it names; a
\* linked map those of the vendor map in view, and its parents were made for it.
ShowsItsParents ==
    user_map # None =>
        user_map.points = [p \in user_map.selection.included |-> user_map.oem.points[p]]
LinkedOfThis ==
    linked # None =>
        /\ linked.selection.oem = oem
        /\ linked.binding.oem = oem
        /\ linked.selection.included \subseteq Ids(oem)
        /\ linked.points = [p \in linked.selection.included |->
                                LinkedPoint(oem.points[p], p, linked.binding)]
Lineage == ShowsItsParents /\ LinkedOfThis

\* The start has neither map.
LEMMA InitLineage == Init => Lineage
BY DEF Init, Lineage, ShowsItsParents, LinkedOfThis

\* What a bundle writes shows its parents.
LEMMA BundleShows ==
    ASSUME NEW m, NEW s, NEW u, u = UserMapOf(m, s)
    PROVE  u.points = [p \in u.selection.included |-> u.oem.points[p]]
<1>1. u.oem = m /\ u.selection = s /\ u.points = [p \in s.included |-> m.points[p]]
    BY DEF UserMapOf
<1> QED BY <1>1

\* A linked map is made of a user map that shows its parents, once the digests of
\* all three were compared.
LEMMA LinkStep == Lineage /\ Link => Lineage'
<1> SUFFICES ASSUME Lineage, Link PROVE Lineage'
    OBVIOUS
<1>1. /\ user_map # None /\ user_map.oem = oem /\ user_map.selection = selection
      /\ selection.oem = oem /\ binding.oem = oem
      /\ linked' = LinkedMap(oem, selection, user_map, binding)
    BY DEF Link, ValidUserMap, ValidSelection, ValidBinding
<1>2. selection.included \subseteq Ids(oem)
    BY DEF Link, ValidSelection
<1>3. user_map.points = [p \in selection.included |-> oem.points[p]]
    BY <1>1 DEF Lineage, ShowsItsParents
<1>4. /\ linked'.selection = selection /\ linked'.binding = binding
      /\ linked'.points = [p \in selection.included |->
                               LinkedPoint(user_map.points[p], p, binding)]
    BY <1>1 DEF LinkedMap
<1>5. linked'.points = [p \in selection.included |-> LinkedPoint(oem.points[p], p, binding)]
    BY <1>3, <1>4
<1>6. oem' = oem /\ user_map' = user_map
    BY DEF Link
<1>7. LinkedOfThis'
    BY <1>1, <1>2, <1>4, <1>5, <1>6 DEF LinkedOfThis, Ids
<1>8. ShowsItsParents'
    BY <1>6 DEF Lineage, ShowsItsParents
<1> QED BY <1>7, <1>8 DEF Lineage

\* A bundle replaces the user map and forgets the linked one.
LEMMA BundleStep ==
    ASSUME Lineage, NEW c, NEW resolved, Bundle(c, resolved)
    PROVE  Lineage'
<1>1. linked' = None
    BY DEF Bundle
<1>2. user_map' = None \/ user_map' = UserMapOf(oem, Validated(c))
    BY DEF Bundle
<1>3. ASSUME user_map' # None PROVE ShowsItsParents'
    <2>1. user_map' = UserMapOf(oem, Validated(c))
        BY <1>2, <1>3
    <2> QED BY <2>1, BundleShows DEF ShowsItsParents
<1>4. ShowsItsParents'
    BY <1>3 DEF ShowsItsParents
<1> QED BY <1>1, <1>4 DEF Lineage, LinkedOfThis

\* Every step keeps the lineage.
LEMMA NextLineage == Lineage /\ [Next]_vars => Lineage'
<1> SUFFICES ASSUME Lineage, [Next]_vars PROVE Lineage'
    OBVIOUS
<1>1. CASE \E s \in Sources : Intake(s)
    BY <1>1 DEF Intake, Lineage, ShowsItsParents, LinkedOfThis
<1>2. ASSUME NEW c, Suggest(c) PROVE Lineage'
    BY <1>2 DEF Suggest, Lineage, ShowsItsParents, LinkedOfThis, Ids
<1>3. ASSUME NEW p, NEW o, NEW h, Bind(p, o, h) PROVE Lineage'
    BY <1>3 DEF Bind, Lineage, ShowsItsParents, LinkedOfThis, Ids
<1>4. ASSUME NEW p, NEW to, Override(p, to) PROVE Lineage'
    BY <1>4 DEF Override, Lineage, ShowsItsParents, LinkedOfThis, Ids
<1>5. CASE Select
    BY <1>5, BundleStep DEF Select
<1>6. CASE \E t \in Templates : SelectTemplate(t)
    BY <1>6, BundleStep DEF SelectTemplate
<1>7. CASE Link
    BY <1>7, LinkStep
<1>8. CASE UNCHANGED vars
    BY <1>8 DEF vars, Lineage, ShowsItsParents, LinkedOfThis, Ids
<1> QED BY <1>1, <1>2, <1>3, <1>4, <1>5, <1>6, <1>7, <1>8 DEF Next

\* The lineage is what the property says, point by point.
LEMMA LineageMeans == Lineage => LinkedMeansWhatWasSaid
BY DEF Lineage, LinkedOfThis, LinkedMeansWhatWasSaid, Ids

\* For every source, correction, candidate and binding: a selection or an override in
\* a linked map was made of the very point of the very map that is linked, and nothing
\* else of the point was changed.  link_selected_map and the checks it calls.
THEOREM LinkedMeansWhatWasSaidAlways == Spec => []LinkedMeansWhatWasSaid
<1>1. Spec => []Lineage
    BY InitLineage, NextLineage, PTL DEF Spec
<1> QED BY <1>1, LineageMeans, PTL
-----------------------------------------------------------------------------
(***************************************************************************)
(* The holds and the status.  A vendor map is that of a source, a user map *)
(* that of the vendor map in view, and a linked map is made of both.       *)
(***************************************************************************)
OfSource == status # "source" => \E s \in Sources : oem = OemMap(s)
OfVendor == user_map # None => user_map = UserMapOf(oem, user_map.selection)
OfBoth ==
    linked # None =>
        \E s, b : linked = LinkedMap(oem, s, UserMapOf(oem, s), b)
StatusEarned ==
    status = "offline-complete" =>
        /\ user_map = UserMapOf(oem, user_map.selection)
        /\ StatusOf(oem, user_map.selection, user_map) = "offline-complete"
        /\ user_map.selection.included \subseteq Ids(oem)
Ancestry == OfSource /\ OfVendor /\ OfBoth /\ StatusEarned

\* What a bundle writes.
LEMMA UserMapFields ==
    ASSUME NEW m, NEW s
    PROVE  LET u == UserMapOf(m, s) IN
           /\ u.oem = m /\ u.selection = s
           /\ u.points = [p \in s.included |-> m.points[p]]
           /\ u.holds = Grouped({h \in m.holds : Touches(h, s.included)})
           /\ u.annex = {h \in m.holds : ~Touches(h, s.included)}
BY DEF UserMapOf

LEMMA InitAncestry == Init => Ancestry
BY DEF Init, Ancestry, OfSource, OfVendor, OfBoth, StatusEarned

LEMMA IntakeAncestry == ASSUME NEW s \in Sources, Intake(s) PROVE Ancestry'
BY DEF Intake, Ancestry, OfSource, OfVendor, OfBoth, StatusEarned

\* The status of a bundle is asked of what it writes.
LEMMA BundleAncestry ==
    ASSUME Ancestry, NEW c, NEW resolved, Bundle(c, resolved)
    PROVE  Ancestry'
<1> DEFINE s == Validated(c)
           u == UserMapOf(oem, s)
<1>1. linked' = None /\ oem' = oem BY DEF Bundle
<1>2. OfSource' /\ OfBoth' BY <1>1 DEF Bundle, Ancestry, OfSource, OfBoth
<1>3. \/ user_map' = None /\ status' = "select"
      \/ user_map' = u /\ status' = StatusOf(oem, s, u)
  BY Zenon DEF Bundle
<1>4. u.selection = s BY UserMapFields
<1>5. s.included \subseteq Ids(oem)
  <2>1. c.included \subseteq Ids(oem) BY DEF Bundle, ValidSelection
  <2>2. s.included = c.included \ c.ambiguous BY DEF Validated
  <2> HIDE DEF s
  <2> QED BY <2>1, <2>2
<1> HIDE DEF s, u
<1>6. OfVendor' BY <1>1, <1>3, <1>4 DEF OfVendor, u
<1>7. StatusEarned' BY <1>1, <1>3, <1>4, <1>5 DEF StatusEarned, u, Ids
<1> QED BY <1>2, <1>6, <1>7 DEF Ancestry

\* A linked map is made of the user map, once it was found to be of this vendor map.
LEMMA LinkAncestry == Ancestry /\ Link => Ancestry'
<1> SUFFICES ASSUME Ancestry, Link PROVE Ancestry' OBVIOUS
<1>1. /\ user_map # None /\ user_map.selection = selection
      /\ linked' = LinkedMap(oem, selection, user_map, binding)
      /\ oem' = oem /\ user_map' = user_map /\ status' = status
  BY DEF Link, ValidUserMap
<1>2. user_map = UserMapOf(oem, selection) BY <1>1 DEF Ancestry, OfVendor
<1>3. OfBoth' BY <1>1, <1>2 DEF OfBoth
<1> QED BY <1>1, <1>3 DEF Ancestry, OfSource, OfVendor, StatusEarned, Ids

\* Every step keeps the ancestry.
LEMMA NextAncestry == Ancestry /\ [Next]_vars => Ancestry'
<1> SUFFICES ASSUME Ancestry, [Next]_vars PROVE Ancestry' OBVIOUS
<1> USE DEF Ancestry, OfSource, OfVendor, OfBoth, StatusEarned, Ids
<1>1. CASE \E s \in Sources : Intake(s) BY <1>1, IntakeAncestry
<1>2. ASSUME NEW c, Suggest(c) PROVE Ancestry' BY <1>2 DEF Suggest
<1>3. ASSUME NEW p, NEW o, NEW h, Bind(p, o, h) PROVE Ancestry' BY <1>3 DEF Bind
<1>4. ASSUME NEW p, NEW to, Override(p, to) PROVE Ancestry' BY <1>4 DEF Override
<1> USE DEF Ids
<1>5. CASE Select BY <1>5, BundleAncestry DEF Select
<1>6. CASE \E t \in Templates : SelectTemplate(t)
  BY <1>6, BundleAncestry DEF SelectTemplate
<1>7. CASE Link BY <1>7, LinkAncestry
<1>8. CASE UNCHANGED vars BY <1>8 DEF vars
<1> QED BY <1>1, <1>2, <1>3, <1>4, <1>5, <1>6, <1>7, <1>8 DEF Next
-----------------------------------------------------------------------------
(***************************************************************************)
(* A complete bundle.                                                      *)
(***************************************************************************)

LEMMA Least ==
    ASSUME NEW T \in SUBSET Nat, T # {}
    PROVE  \E x \in T : \A y \in T : x <= y
<1>1. PICK x \in T : \A y \in T : ~(<<y, x>> \in OpToRel(<, Nat))
  BY NatLessThanWellFounded, WFMin, Zenon
<1>2. \A y \in T : ~(y < x) BY <1>1, Zenon DEF OpToRel
<1> QED BY <1>2

\* The rows of one label are counted in their order: the first has the number
\* one, and if there is another, one of them has the number two.
LEMMA CountedInOrder ==
    ASSUME NEW n \in Nat, NEW T \in SUBSET (1..n), NEW i \in T
    PROVE  Cardinality(T \cap (1..i)) = 1 \/ \E j \in T : Cardinality(T \cap (1..j)) = 2
<1>1. PICK a \in T : \A y \in T : a <= y BY Least
<1>2. CASE i = a
  <2>1. T \cap (1..i) = {i} BY <1>1, <1>2
  <2> QED BY <2>1, FS_Singleton
<1>3. CASE i # a
  <2>1. PICK b \in T \ {a} : \A y \in T \ {a} : b <= y
    <3>1. (T \ {a}) \in SUBSET Nat /\ i \in T \ {a} BY <1>3
    <3> QED BY <3>1, Least
  <2>2. T \cap (1..b) = {a} \cup {b} BY <1>1, <2>1
  <2>3. Cardinality({a} \cup {b}) = 2
    <3>1. IsFiniteSet({a}) /\ Cardinality({a}) = 1 BY FS_Singleton
    <3> QED BY <2>1, <3>1, FS_AddElement
  <2> QED BY <2>1, <2>2, <2>3
<1> QED BY <1>2, <1>3

\* A row that shares its label with no other has its logical id in the vendor map.
LEMMA FirstOfLabel ==
    ASSUME NEW s \in Sources, NEW i \in DOMAIN s.rows,
           <<s.rows[i].label, 2>> \notin Ids(OemMap(s))
    PROVE  IdOf(s.rows, i) = LogicalId(s.rows, i)
<1> DEFINE T == SameLabel(s.rows, i)
<1>1. Len(s.rows) \in Nat /\ DOMAIN s.rows = 1..Len(s.rows) BY RowsAssumption
<1>2. T \in SUBSET (1..Len(s.rows)) /\ i \in T BY <1>1 DEF SameLabel
<1>3. ASSUME NEW j \in T
      PROVE  IdOf(s.rows, j) = <<s.rows[i].label, Cardinality(T \cap (1..j))>>
  <2>1. j \in 1..Len(s.rows) /\ s.rows[j].label = s.rows[i].label
    BY <1>1 DEF SameLabel
  <2>2. {k \in 1..j : s.rows[k].label = s.rows[j].label} = T \cap (1..j)
    BY <1>1, <2>1 DEF SameLabel
  <2> QED BY <2>1, <2>2 DEF IdOf
<1>4. \A j \in DOMAIN s.rows : IdOf(s.rows, j) \in Ids(OemMap(s))
  BY DEF Ids, OemMap
<1>5. \A j \in T : Cardinality(T \cap (1..j)) # 2
  BY <1>1, <1>2, <1>3, <1>4
<1> HIDE DEF T
<1>6. Cardinality(T \cap (1..i)) = 1 BY <1>1, <1>2, <1>5, CountedInOrder
<1> QED BY <1>2, <1>3, <1>6 DEF LogicalId

\* A point of the vendor map shows a row of its source, and has its id.
LEMMA PointOfRow ==
    ASSUME NEW s, NEW p \in Ids(OemMap(s))
    PROVE  LET i == OemMap(s).points[p].row IN i \in DOMAIN s.rows /\ IdOf(s.rows, i) = p
<1> DEFINE row == CHOOSE i \in DOMAIN s.rows : IdOf(s.rows, i) = p
<1>1. \E i \in DOMAIN s.rows : IdOf(s.rows, i) = p BY DEF Ids, OemMap
<1>2. OemMap(s).points[p].row = row BY <1>1 DEF OemMap
<1>3. row \in DOMAIN s.rows /\ IdOf(s.rows, row) = p BY <1>1
<1> QED BY <1>2, <1>3

\* A hold that was raised on a row knows it by the logical id of its label.
LEMMA HoldOfRow ==
    ASSUME NEW s, NEW h \in OemMap(s).holds, NEW i \in h.rows
    PROVE  LogicalId(s.rows, i) \in h.ids
<1>1. CASE \E x \in s.holds :
              h = Hold(x.what, {LogicalId(s.rows, k) : k \in x.rows}, x.rows)
  BY <1>1 DEF Hold
<1>2. CASE \E k \in Repeated(s.rows) :
              h = Hold(Collision, {LogicalId(s.rows, k)}, SameLabel(s.rows, k))
  BY <1>2 DEF Hold, SameLabel, LogicalId
<1>3. CASE h = Hold(Rejected, {}, {}) BY <1>3 DEF Hold
<1> QED BY <1>1, <1>2, <1>3 DEF OemMap

\* Holds that are grouped stay, each in the group of what it says, and a group says
\* whether it blocks as its holds do.
LEMMA InGroup ==
    ASSUME NEW holds, NEW h \in holds
    PROVE  \E g \in Grouped(holds) : g.what = Worded(h.what) /\ h.ids \subseteq g.ids
<1> DEFINE w == Worded(h.what)
           same == Saying(holds, w)
           g == Hold(w, UNION {x.ids : x \in same}, UNION {x.rows : x \in same})
<1>1. w \in {Worded(x.what) : x \in holds} OBVIOUS
<1>2. g \in Grouped(holds) BY <1>1, Zenon DEF Grouped
<1>3. g.what = w /\ g.ids = UNION {x.ids : x \in same} BY DEF Hold
<1>4. h \in same BY DEF Saying
<1> HIDE DEF w, same, g
<1>5. h.ids \subseteq g.ids BY <1>3, <1>4, Zenon
<1> QED BY <1>2, <1>3, <1>5, Zenon DEF w

\* What a hold says may be worded anew: whether it blocks stays.
LEMMA WordedBlocks ==
    ASSUME NEW what
    PROVE  Worded(what).blocking = what.blocking
BY DEF Worded, What

\* Nothing that blocks touches the points of a complete bundle.
LEMMA CompleteBundle ==
    ASSUME NEW m, NEW s, StatusOf(m, s, UserMapOf(m, s)) = "offline-complete"
    PROVE  /\ m.complete
           /\ \A p \in s.included : m.format = "pdf" => m.points[p].confirmed
           /\ \A h \in Blocking(m.holds) : ~Touches(h, s.included)
<1> DEFINE u == UserMapOf(m, s)
<1>1. Blocking(u.holds) = {} /\ m.complete /\ Unconfirmed(m, s) = {}
  <2> HIDE DEF u
  <2> QED BY Zenon DEF StatusOf, u
<1>2. \A p \in s.included : m.format = "pdf" => m.points[p].confirmed
  BY <1>1 DEF Unconfirmed
<1>3. ASSUME NEW h \in Blocking(m.holds), Touches(h, s.included) PROVE FALSE
  <2>1. h \in {x \in m.holds : Touches(x, s.included)}
    BY <1>3 DEF Blocking
  <2>2. u.holds = Grouped({x \in m.holds : Touches(x, s.included)}) BY DEF UserMapOf
  <2> DEFINE touching == {x \in m.holds : Touches(x, s.included)}
  <2>3. h \in touching /\ u.holds = Grouped(touching) BY <2>1, <2>2
  <2> HIDE DEF u, touching
  <2>4. PICK g \in Grouped(touching) : g.what = Worded(h.what)
    BY <2>3, InGroup
  <2>5. h.what.blocking BY <1>3 DEF Blocking
  <2>6. g.what.blocking BY <2>4, <2>5, WordedBlocks
  <2> QED BY <1>1, <2>3, <2>4, <2>6 DEF Blocking
<1> QED BY <1>1, <1>2, <1>3

\* A bundle is complete only if its source was covered and confirmed, and nothing
\* that blocks one of its rows, or all, was raised.
LEMMA AncestryClean == Ancestry => CompleteIsClean
<1> SUFFICES ASSUME Ancestry, status = "offline-complete"
             PROVE  /\ oem.complete
                    /\ \A p \in DOMAIN user_map.points :
                        /\ oem.format = "pdf" => user_map.points[p].confirmed
                        /\ Alone(p) => \A h \in Blocking(oem.holds) :
                              h.ids # {} /\ user_map.points[p].row \notin h.rows
  BY Zenon DEF CompleteIsClean
<1> DEFINE s == user_map.selection
<1>1. /\ user_map = UserMapOf(oem, s) /\ s.included \subseteq Ids(oem)
      /\ StatusOf(oem, s, user_map) = "offline-complete"
  BY DEF Ancestry, StatusEarned
<1> HIDE DEF s
<1>2. user_map.points = [p \in s.included |-> oem.points[p]]
  <2>1. UserMapOf(oem, s).points = [p \in s.included |-> oem.points[p]] BY DEF UserMapOf
  <2> QED BY <1>1, <2>1
<1>3. /\ oem.complete
      /\ \A p \in s.included : oem.format = "pdf" => oem.points[p].confirmed
      /\ \A h \in Blocking(oem.holds) : ~Touches(h, s.included)
  BY <1>1, CompleteBundle
<1>4. PICK src \in Sources : oem = OemMap(src) BY DEF Ancestry, OfSource
<1>5. ASSUME NEW p \in s.included, Alone(p), NEW h \in Blocking(oem.holds)
      PROVE  h.ids # {} /\ oem.points[p].row \notin h.rows
  <2> DEFINE i == oem.points[p].row
  <2>1. h.ids # {} /\ h.ids \cap s.included = {} BY <1>3 DEF Touches
  <2>2. i \in DOMAIN src.rows /\ IdOf(src.rows, i) = p BY <1>1, <1>4, PointOfRow
  <2> HIDE DEF i
  <2>3. p[1] = src.rows[i].label BY <2>2 DEF IdOf
  <2>4. p = LogicalId(src.rows, i)
    BY <1>4, <1>5, <2>2, <2>3, FirstOfLabel DEF Alone
  <2>5. i \in h.rows => p \in h.ids
    BY <1>4, <2>4, HoldOfRow DEF Blocking
  <2> QED BY <2>1, <2>5 DEF i
<1> QED BY <1>2, <1>3, <1>5

\* A bundle says offline-complete only of what its source covered and, if it is a PDF,
\* confirmed, and of a row whose label no other has only if nothing that blocks it was
\* raised, for every source, selection and correction.
\* compile_user_map_bundle of user_map.py, asked by compiler.py before it links.
THEOREM CompleteIsCleanAlways == Spec => []CompleteIsClean
<1>1. Spec => []Ancestry BY InitAncestry, NextAncestry, PTL DEF Spec
<1> QED BY <1>1, AncestryClean, PTL

-----------------------------------------------------------------------------
(***************************************************************************)
(* The way of the holds.  The linked map knows a hold by its code and its  *)
(* points, so what stays of those that have both is one of them; being on  *)
(* the same points, it is put where each of them would have been.          *)
(***************************************************************************)

\* One of each key is taken of some holds.
One(holds) == {CHOOSE h \in holds : HoldKey(h) = k : k \in {HoldKey(h) : h \in holds}}
LEMMA OneOfEach ==
    ASSUME NEW holds
    PROVE  /\ One(holds) \subseteq holds
           /\ \A h \in holds : \E g \in One(holds) : HoldKey(g) = HoldKey(h)
<1>1. ASSUME NEW k \in {HoldKey(h) : h \in holds}
      PROVE  LET g == CHOOSE h \in holds : HoldKey(h) = k IN g \in holds /\ HoldKey(g) = k
  <2>1. \E h \in holds : HoldKey(h) = k OBVIOUS
  <2> QED BY <2>1
<1>2. One(holds) \subseteq holds
  <2> SUFFICES ASSUME NEW g \in One(holds) PROVE g \in holds OBVIOUS
  <2>1. PICK k \in {HoldKey(h) : h \in holds} : g = CHOOSE h \in holds : HoldKey(h) = k
    BY Zenon DEF One
  <2> QED BY <1>1, <2>1
<1>3. ASSUME NEW h \in holds PROVE \E g \in One(holds) : HoldKey(g) = HoldKey(h)
  <2> DEFINE k == HoldKey(h)
  <2>1. k \in {HoldKey(x) : x \in holds} OBVIOUS
  <2>2. (CHOOSE x \in holds : HoldKey(x) = k) \in One(holds) BY <2>1, Zenon DEF One
  <2>3. HoldKey(CHOOSE x \in holds : HoldKey(x) = k) = k BY <1>1, <2>1
  <2> QED BY <2>2, <2>3, Zenon
<1> QED BY <1>2, <1>3

\* All that the vendor map, the user map and the binding hold has a hold of its key.
LEMMA DistinctKeeps ==
    ASSUME NEW m, NEW u, NEW b
    PROVE  /\ Distinct(m, u, b) \subseteq m.holds \cup u.holds \cup b.holds
           /\ \A h \in m.holds \cup b.holds :
                  \E g \in Distinct(m, u, b) : HoldKey(g) = HoldKey(h)
<1> DEFINE keys(holds) == {HoldKey(h) : h \in holds}
           fresh(holds, before) == {h \in holds : HoldKey(h) \notin keys(before)}
           fu == fresh(u.holds, m.holds)
           mu == One(m.holds) \cup One(fu)
           fb == fresh(b.holds, mu)
<1>1. Distinct(m, u, b) = mu \cup One(fb) BY DEF Distinct, One
<1>2. fu \subseteq u.holds /\ fb \subseteq b.holds OBVIOUS
<1>3. \A h \in b.holds : h \in fb \/ \E g \in mu : HoldKey(g) = HoldKey(h) OBVIOUS
<1> HIDE DEF fu, fb
<1>4. mu \cup One(fb) \subseteq m.holds \cup u.holds \cup b.holds BY <1>2, OneOfEach
<1>5. \A h \in m.holds : \E g \in One(m.holds) : HoldKey(g) = HoldKey(h) BY OneOfEach
<1>6. \A h \in fb : \E g \in One(fb) : HoldKey(g) = HoldKey(h) BY OneOfEach
<1> QED BY <1>1, <1>3, <1>4, <1>5, <1>6, Zenon

\* What is kept for a hold is put into the linked map, or into its annex, by its points.
LEMMA LinkedKeeps ==
    ASSUME NEW m, NEW s, NEW u, NEW b, NEW g \in Distinct(m, u, b)
    PROVE  LET l == LinkedMap(m, s, u, b)
           IN g \in IF Touches(g, s.included) THEN l.holds ELSE l.annex
BY DEF LinkedMap

\* Holds of the same points touch the same selections.
LEMMA TouchesByPoints ==
    ASSUME NEW g, NEW h, g.ids = h.ids, NEW ids
    PROVE  Touches(g, ids) = Touches(h, ids)
BY DEF Touches

\* The way to the user map, and the way to the device.
LEMMA GroupsKeep ==
    ASSUME NEW m, NEW s, NEW h \in m.holds
    PROVE  IF Touches(h, s.included)
           THEN \E g \in UserMapOf(m, s).holds : g.what = Worded(h.what) /\ h.ids \subseteq g.ids
           ELSE h \in UserMapOf(m, s).annex
<1> DEFINE touching == {x \in m.holds : Touches(x, s.included)}
<1>1. /\ UserMapOf(m, s).annex = {x \in m.holds : ~Touches(x, s.included)}
      /\ UserMapOf(m, s).holds = Grouped(touching)
  BY DEF UserMapOf
<1>2. CASE Touches(h, s.included)
  <2>1. h \in touching BY <1>2
  <2> HIDE DEF touching
  <2>2. \E g \in Grouped(touching) : g.what = Worded(h.what) /\ h.ids \subseteq g.ids
    BY <2>1, InGroup
  <2> QED BY <1>1, <1>2, <2>2, Zenon
<1>3. CASE ~Touches(h, s.included) BY <1>1, <1>3
<1> QED BY <1>2, <1>3

LEMMA KeysKeep ==
    ASSUME NEW m, NEW s, NEW u, NEW b, NEW h \in m.holds \cup b.holds
    PROVE  LET l == LinkedMap(m, s, u, b) IN
           \E g \in IF Touches(h, s.included) THEN l.holds ELSE l.annex :
               g.what.code = h.what.code /\ g.ids = h.ids
<1>1. PICK g \in Distinct(m, u, b) : HoldKey(g) = HoldKey(h) BY DistinctKeeps
<1>2. g.what.code = h.what.code /\ g.ids = h.ids BY <1>1 DEF HoldKey
<1>3. Touches(g, s.included) = Touches(h, s.included) BY <1>2, TouchesByPoints
<1> DEFINE l == LinkedMap(m, s, u, b)
<1>4. g \in IF Touches(g, s.included) THEN l.holds ELSE l.annex BY LinkedKeeps
<1> HIDE DEF l
<1> QED BY <1>2, <1>3, <1>4 DEF l

LEMMA AncestryKeeps == Ancestry => NothingLost
<1> SUFFICES ASSUME Ancestry PROVE NothingLost OBVIOUS
<1>1. ASSUME user_map # None, NEW h \in oem.holds
      PROVE  IF Touches(h, user_map.selection.included)
             THEN \E g \in user_map.holds :
                      g.what = Worded(h.what) /\ h.ids \subseteq g.ids
             ELSE h \in user_map.annex
  <2> DEFINE s == user_map.selection
  <2>1. user_map = UserMapOf(oem, s) BY <1>1 DEF Ancestry, OfVendor
  <2> HIDE DEF s
  <2>2. IF Touches(h, s.included)
        THEN \E g \in UserMapOf(oem, s).holds :
                 g.what = Worded(h.what) /\ h.ids \subseteq g.ids
        ELSE h \in UserMapOf(oem, s).annex
    BY <1>1, GroupsKeep
  <2> QED BY <2>1, <2>2 DEF s
<1>2. ASSUME linked # None, NEW h \in oem.holds \cup linked.binding.holds
      PROVE  \E g \in IF Touches(h, linked.selection.included)
                      THEN linked.holds ELSE linked.annex :
                 g.what.code = h.what.code /\ g.ids = h.ids
  <2>1. PICK s, b : linked = LinkedMap(oem, s, UserMapOf(oem, s), b)
    BY <1>2 DEF Ancestry, OfBoth
  <2> DEFINE u == UserMapOf(oem, s)
  <2>2. linked.binding = b /\ linked.selection = s BY <2>1 DEF LinkedMap
  <2> HIDE DEF u
  <2>3. h \in oem.holds \cup b.holds BY <1>2, <2>2
  <2>4. \E g \in IF Touches(h, s.included)
                 THEN LinkedMap(oem, s, u, b).holds ELSE LinkedMap(oem, s, u, b).annex :
            g.what.code = h.what.code /\ g.ids = h.ids
    BY <2>3, KeysKeep
  <2> QED BY <2>1, <2>2, <2>4 DEF u
<1> QED BY <1>1, <1>2, Zenon DEF NothingLost

\* For every source, selection, correction and binding: what a hold of the source says
\* is said on of its points in the user map, or it is in the annex; on the device there
\* is, among the holds or in the annex as its points ask, a hold of its code on its
\* points, which need not be it.  _partition_holds and _group_holds of user_map.py,
\* _hold_key of map_linking.py.
THEOREM NothingLostAlways == Spec => []NothingLost
<1>1. Spec => []Ancestry BY InitAncestry, NextAncestry, PTL DEF Spec
<1> QED BY <1>1, AncestryKeeps, PTL
=============================================================================

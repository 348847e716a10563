------------------------------ MODULE UserMap ------------------------------
(***************************************************************************)
(* source_intake.py, user_map.py and map_linking.py: from a normalized     *)
(* source to the map of the vendor, to the map of the points a user asked  *)
(* for, and to that map on one device.  Every artifact names the artifacts *)
(* it was made from by their digest; here the digest of a value is the     *)
(* value itself.                                                           *)
(*                                                                         *)
(* Two of them are files that somebody else writes, from the vendor map    *)
(* that he has in view: the selection candidate and the device binding.    *)
(* By the time they are used the source may have been corrected.           *)
(***************************************************************************)
EXTENDS Integers, Sequences, FiniteSets

CONSTANTS
    None,
    Sources,        \* what normalize_map makes of a document and its corrections
    Templates,      \* selections that are bound to whatever map comes
    Offsets,        \* what an override may say
    BindingHolds,   \* the sets of holds that a binding may bring
    MaxRevisions    \* bound: sources per behaviour

ASSUME UserMapAssumption == MaxRevisions \in Nat /\ None \notin Offsets
ASSUME RowsAssumption ==
    \A s \in Sources : Len(s.rows) \in Nat /\ DOMAIN s.rows = 1..Len(s.rows)

VARIABLES
    oem,            \* the vendor map of the current source, or None
    candidate,      \* the candidate file, or None
    binding,        \* the binding file, or None
    selection,      \* the validated selection, or None
    user_map,       \* the map of the selected points, or None
    linked,         \* the same on the device, or None
    status,
    revisions       \* how many sources were taken in
vars == <<oem, candidate, binding, selection, user_map, linked, status, revisions>>

Dispositions == {"included", "suggested", "excluded"}
\* What a hold says (its code, its field, its message with its severity, and whether
\* it blocks), and of which points; rows is history, see below.
What(code, field, message, blocking) ==
    [code |-> code, field |-> field, message |-> message, blocking |-> blocking]
Hold(what, ids, rows) == [what |-> what, ids |-> ids, rows |-> rows]

-----------------------------------------------------------------------------
(* compile_source_descriptor.  Rows of one label have one logical id, which *)
(* is what a hold knows them by; in the vendor map the later ones get an id *)
(* of their own.  rows is history: the rows that a hold was raised on.      *)

LogicalId(rows, i) == <<rows[i].label, 1>>
IdOf(rows, i) == <<rows[i].label, Cardinality({j \in 1..i : rows[j].label = rows[i].label})>>
SameLabel(rows, i) == {j \in DOMAIN rows : rows[j].label = rows[i].label}
Repeated(rows) == {i \in DOMAIN rows : SameLabel(rows, i) # {i}}
DeploymentOnly == {"unit", "route"}     \* _DEPLOYMENT_ONLY_HOLDS
Collision == What("collision", "id", "shared", TRUE)
Rejected == What("rejected", "rows", "unresolved", TRUE)

OemMap(s) ==
    LET id(i) == IdOf(s.rows, i)
        row(p) == CHOOSE i \in DOMAIN s.rows : id(i) = p
        raised == {Hold(h.what, {LogicalId(s.rows, i) : i \in h.rows}, h.rows) :
                       h \in {x \in s.holds : x.what.code \notin DeploymentOnly}}
        collisions == {Hold(Collision, {LogicalId(s.rows, i)}, SameLabel(s.rows, i)) :
                           i \in Repeated(s.rows)}
        unresolved == IF s.rejected THEN {Hold(Rejected, {}, {})} ELSE {}
    IN [format |-> s.format, complete |-> s.complete,
        points |-> [p \in {id(i) : i \in DOMAIN s.rows} |->
                        [row |-> row(p), offset |-> s.rows[row(p)].offset,
                         name |-> s.rows[row(p)].name, access |-> s.rows[row(p)].access,
                         confirmed |-> s.rows[row(p)].confirmed]],
        holds |-> raised \cup collisions \cup unresolved]
Ids(m) == DOMAIN m.points

-----------------------------------------------------------------------------
(* bind_selection_template and validate_selection_candidate. *)

\* Every point that can be read, or what the entries say: an entry names its
\* point by its id, or by a name that only this point has.
Named(m, e) == {p \in Ids(m) : IF e.id # None THEN p = e.id ELSE m.points[p].name = e.name}
Binds(t, m) == \A e \in t.entries : Cardinality(Named(m, e)) = 1
Bound(t, m) ==
    LET written(d) == UNION {Named(m, e) : e \in {x \in t.entries : x.as = d}}
        readable == {p \in Ids(m) : m.points[p].access # "write-only"}
        of(d) == IF ~t.all THEN written(d)
                 ELSE CASE d = "included" -> readable
                        [] d = "excluded" -> Ids(m) \ readable
                        [] OTHER -> {}
    IN [oem |-> m, included |-> of("included"), suggested |-> of("suggested"),
        excluded |-> of("excluded"), ambiguous |-> {}]

\* validate_user_selection.
ValidSelection(c, m) ==
    /\ c.oem = m
    /\ c.included \cup c.suggested \cup c.excluded \subseteq Ids(m)
    /\ c.included \cap c.suggested = {} /\ c.included \cap c.excluded = {}
    /\ c.suggested \cap c.excluded = {}

\* An ambiguous match is a suggestion, whatever the candidate calls it.
Validated(c) ==
    [oem |-> c.oem, included |-> c.included \ c.ambiguous,
     suggested |-> c.suggested \cup (c.included \cap c.ambiguous), excluded |-> c.excluded]

-----------------------------------------------------------------------------
(* compile_user_map_bundle. *)

Touches(hold, ids) == hold.ids = {} \/ hold.ids \cap ids # {}

\* Holds that say the same become one, on the points of all of them.  Whether the
\* area of the point or of its address is unresolved is the same there.
AreaUnresolved == {"point.area", "address.area"}
Worded(what) ==
    IF what.code \in AreaUnresolved
    THEN What("point.area", what.field, "declare the area", what.blocking) ELSE what
Saying(holds, what) == {h \in holds : Worded(h.what) = what}
Grouped(holds) ==
    {Hold(w, UNION {h.ids : h \in Saying(holds, w)}, UNION {h.rows : h \in Saying(holds, w)}) :
        w \in {Worded(h.what) : h \in holds}}
UserMapOf(m, s) ==
    [oem |-> m, selection |-> s, points |-> [p \in s.included |-> m.points[p]],
     holds |-> Grouped({h \in m.holds : Touches(h, s.included)}),
     excluded |-> s.excluded,
     annex |-> {h \in m.holds : ~Touches(h, s.included)}]
ValidUserMap(u, m, s) == u.oem = m /\ u.selection = s /\ DOMAIN u.points \subseteq s.included

\* What compiler.py asks of the bundle before it goes on to a device.
Blocking(holds) == {h \in holds : h.what.blocking}
Unconfirmed(m, s) == {p \in s.included : m.format = "pdf" /\ ~m.points[p].confirmed}
\* Faulty variant: only the coverage of a PDF is looked at.
StatusOfPdf(m, s, u) ==
    IF Blocking(u.holds) # {} \/ (m.format = "pdf" /\ ~m.complete) \/ Unconfirmed(m, s) # {}
    THEN "partial" ELSE "offline-complete"
StatusOf(m, s, u) ==
    IF Blocking(u.holds) # {} \/ ~m.complete \/ Unconfirmed(m, s) # {}
    THEN "partial" ELSE "offline-complete"

-----------------------------------------------------------------------------
(* link_selected_map. *)

\* Faulty variant: the digest of the map that a binding was made for is not compared.
ValidBindingAny(b, m) == DOMAIN b.overrides \subseteq Ids(m)
ValidBinding(b, m) == b.oem = m /\ DOMAIN b.overrides \subseteq Ids(m)

LinkedPoint(point, p, b) ==
    IF p \in DOMAIN b.overrides THEN [point EXCEPT !.offset = b.overrides[p]] ELSE point
\* Faulty variant: one hold for each code.
HoldKeyOfCode(hold) == hold.what.code
\* Not by the field, the message or whether it blocks.
HoldKey(hold) == <<hold.what.code, hold.ids>>
\* The first hold of a key stays: of the vendor map, the user map, the binding (and
\* some one of those that one of them has).
Distinct(m, u, b) ==
    LET keys(holds) == {HoldKey(h) : h \in holds}
        one(holds) == {CHOOSE h \in holds : HoldKey(h) = k : k \in keys(holds)}
        fresh(holds, before) == {h \in holds : HoldKey(h) \notin keys(before)}
        mu == one(m.holds) \cup one(fresh(u.holds, m.holds))
    IN mu \cup one(fresh(b.holds, mu))
LinkedMap(m, s, u, b) ==
    LET all == Distinct(m, u, b)
    IN [oem |-> m, selection |-> s, user_map |-> u, binding |-> b,
        points |-> [p \in s.included |-> LinkedPoint(u.points[p], p, b)],
        holds |-> {h \in all : Touches(h, s.included)},
        annex |-> u.annex \cup {h \in all : ~Touches(h, s.included)}]
Resolved(points) == \A p \in DOMAIN points : points[p].offset # None

-----------------------------------------------------------------------------
(* The operations. *)

Init ==
    /\ oem = None /\ candidate = None /\ binding = None /\ selection = None
    /\ user_map = None /\ linked = None /\ status = "source" /\ revisions = 0

\* A source, or a corrected one, starts a case of its own.
Intake(s) ==
    /\ revisions < MaxRevisions
    /\ revisions' = revisions + 1
    /\ oem' = OemMap(s)
    /\ selection' = None /\ user_map' = None /\ linked' = None
    /\ status' = IF s.rows = <<>> THEN "correct-source" ELSE "select"
    /\ UNCHANGED <<candidate, binding>>

\* Somebody writes a candidate, or a binding, for the map in view (bound: one of
\* each for every map).
Suggest(c) ==
    /\ oem # None /\ (candidate # None => candidate.oem # oem)
    /\ candidate' = [oem |-> oem, included |-> {p \in Ids(oem) : c[p] \in {"included", "ambiguous"}},
                     suggested |-> {p \in Ids(oem) : c[p] = "suggested"},
                     excluded |-> {p \in Ids(oem) : c[p] = "excluded"},
                     ambiguous |-> {p \in Ids(oem) : c[p] = "ambiguous"}]
    /\ UNCHANGED <<oem, binding, selection, user_map, linked, status, revisions>>
Bind(p, o, holds) ==
    /\ oem # None /\ (binding # None => binding.oem # oem)
    /\ binding' = [oem |-> oem, overrides |-> IF o = None THEN <<>> ELSE [q \in {p} |-> o],
                   holds |-> {Hold(h.what, IF h.wide THEN {} ELSE {p}, {}) : h \in holds}]
    /\ UNCHANGED <<oem, candidate, selection, user_map, linked, status, revisions>>

\* The bundle of a candidate; resolved says that it answers a selection packet.
Bundle(c, resolved) ==
    LET s == Validated(c)
        u == UserMapOf(oem, s)
    IN /\ status \in {"select", "partial", "offline-complete"}
       /\ ValidSelection(c, oem)
       /\ selection' = s /\ linked' = None
       /\ IF s.included = {} /\ ~(resolved /\ s.suggested = {})
          THEN user_map' = None /\ status' = "select"
          ELSE user_map' = u /\ status' = StatusOf(oem, s, u)
       /\ UNCHANGED <<oem, candidate, binding, revisions>>
Select == candidate # None /\ \E resolved \in BOOLEAN : Bundle(candidate, resolved)
SelectTemplate(t) == oem # None /\ Binds(t, oem) /\ Bundle(Bound(t, oem), FALSE)

\* apply_selection_override: suggestions alone, and not in the user map.
Override(p, to) ==
    /\ selection # None /\ ValidSelection(selection, oem)
    /\ p \in selection.suggested /\ to \in {"included", "excluded"}
    /\ selection' = [selection EXCEPT !.suggested = @ \ {p}, ![to] = @ \cup {p}]
    /\ UNCHANGED <<oem, candidate, binding, user_map, linked, status, revisions>>

Link ==
    /\ status = "offline-complete" /\ binding # None /\ user_map # None
    /\ ValidSelection(selection, oem) /\ selection.included # {}
    /\ ValidUserMap(user_map, oem, selection)
    /\ DOMAIN user_map.points = selection.included
    /\ ValidBinding(binding, oem)
    /\ Resolved(LinkedMap(oem, selection, user_map, binding).points)
    /\ linked' = LinkedMap(oem, selection, user_map, binding)
    /\ UNCHANGED <<oem, candidate, binding, selection, user_map, status, revisions>>

Next ==
    \/ \E s \in Sources : Intake(s)
    \/ oem # None /\ \/ \E c \in [Ids(oem) -> Dispositions \cup {"ambiguous", "none"}] : Suggest(c)
                     \/ \E p \in Ids(oem), o \in Offsets \cup {None}, h \in BindingHolds :
                            Bind(p, o, h)
                     \/ \E p \in Ids(oem), to \in Dispositions : Override(p, to)
    \/ Select \/ \E t \in Templates : SelectTemplate(t)
    \/ Link

Spec == Init /\ [][Next]_vars

-----------------------------------------------------------------------------
(* Properties. *)

\* Whatever was selected or overridden in a linked map was said of this very point
\* of this very vendor map, and nothing else was changed: an id alone does not do,
\* a corrected source may give it to another row.  link_selected_map.
LinkedMeansWhatWasSaid ==
    linked # None => \A p \in DOMAIN linked.points :
        /\ p \in Ids(oem)
        /\ linked.selection.oem.points[p] = oem.points[p]
        /\ p \in DOMAIN linked.binding.overrides =>
               linked.binding.oem.points[p] = oem.points[p]
        /\ linked.points[p] = LinkedPoint(oem.points[p], p, linked.binding)

\* A bundle is complete only when the source was covered, what a PDF says of the
\* selected points was confirmed, and nothing that blocks one of their rows, or all,
\* was raised.  It holds for rows that share their label with no other.
SelectedRows == {user_map.points[p].row : p \in DOMAIN user_map.points}
Alone(p) == <<p[1], 2>> \notin Ids(oem)
CompleteIsClean ==
    status = "offline-complete" =>
        /\ oem.complete
        /\ \A p \in DOMAIN user_map.points :
            /\ oem.format = "pdf" => user_map.points[p].confirmed
            /\ Alone(p) => \A h \in Blocking(oem.holds) :
                               h.ids # {} /\ user_map.points[p].row \notin h.rows

\* SKILL.md of compile-user-map: a complete bundle's points have no blocking holds.
\* Not so for the second row of a label: the holds of both know the first one's id.
SelectedAreUnheld ==
    status = "offline-complete" =>
        \A h \in Blocking(oem.holds) : h.rows \cap SelectedRows = {}

\* On the way to the user map a hold goes on to say what it says, of a selected point
\* among the holds and else in the annex.  On the way to the device less is kept: of
\* the holds of the source and the binding that have one code and one set of points
\* one stays, in the place that is right for these points, and stands for the others
\* whatever their field, their message, or whether they block.  _partition_holds,
\* _group_holds and _hold_key.
NothingLost ==
    /\ user_map # None => \A h \in oem.holds :
           IF Touches(h, user_map.selection.included)
           THEN \E g \in user_map.holds : g.what = Worded(h.what) /\ h.ids \subseteq g.ids
           ELSE h \in user_map.annex
    /\ linked # None => \A h \in oem.holds \cup linked.binding.holds :
           \E g \in IF Touches(h, linked.selection.included) THEN linked.holds ELSE linked.annex :
               g.what.code = h.what.code /\ g.ids = h.ids
=============================================================================

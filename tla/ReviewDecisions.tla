-------------------------- MODULE ReviewDecisions --------------------------
(***************************************************************************)
(* decisions.py: reviewers write records of decisions against a map file,  *)
(* and apply-review makes a new map file from the map and the record it is *)
(* given.  No file is ever changed, so the files form a tree; which record *)
(* meets which file is up to the people who call the command, and only the *)
(* hash of the map inside the record ties the two together.                *)
(***************************************************************************)
EXTENDS PointValidation, Sequences

CONSTANTS
    Points,         \* the points of the source, numbered in the order of their ids
    Drafts,         \* normalized maps a review may start from
    Decisions,      \* decisions a reviewer may write: set a field of a point
    Evidence,       \* byte-order evidence files that can be handed in
    Codes,          \* codes of global source holds
    MaxDecisions,   \* bound: decisions in one record
    MaxReviews      \* bound: map files made

ASSUME PointsAssumption == Points \subseteq Nat
ASSUME FiniteAssumption ==
    IsFiniteSet(Decisions) /\ IsFiniteSet(Points) /\ IsFiniteSet(Codes)

\* A draft is a map that nobody has reviewed, so it excludes no point.  Each
\* global hold of the source that is open is among its holds.
ASSUME DraftsAssumption ==
    \A m \in Drafts :
        /\ DOMAIN m = {"points", "excluded", "source_holds", "holds", "profile", "metadata",
                       "review_decisions", "review_status", "input_map"}
        /\ DOMAIN m.points \subseteq Points
        /\ \A i \in DOMAIN m.points : m.points[i] \in CanonicalPoint
        /\ \A c \in DOMAIN m.source_holds :
              m.source_holds[c] = "resolved" \/ \E h \in m.holds : h.code = c /\ h.ids = {}
        /\ m.excluded = {} /\ m.review_decisions = <<>> /\ m.review_status = "draft" /\ m.input_map = 0

VARIABLE files      \* the map files, in the order they were written

Fields == {"route_id", "unit_id", "area", "protocol_offset", "datatype", "word_span",
           "bit_order", "access", "function_code", "byte_order"}

ASSUME DecisionsAssumption ==
    \A d \in Decisions :
        /\ d.field \in Fields
        /\ d.field \in {"route_id", "bit_order"} => d.value \in STRING

\* A decision record.  basis is the map whose hash it carries.
Record == [sets : SUBSET Decisions, excludes : SUBSET Points, codes : SUBSET Codes,
           approve_map : BOOLEAN, basis : DOMAIN files]

Size(r) == Cardinality(r.sets) + Cardinality(r.excludes) + Cardinality(r.codes)
Ids(m) == DOMAIN m.points
Of(r, i) == {d \in r.sets : d.id = i}

\* The point with every field but byte_order set: the order in which the code
\* applies fields puts what byte_order is checked against before it.
Placing(p, ds) ==
    [f \in DOMAIN p |->
        IF \E d \in ds : d.field = f THEN (CHOOSE d \in ds : d.field = f).value ELSE p[f]]
Corrected(p, ds) ==
    LET q == Placing(p, ds)
    IN [q EXCEPT !.byte_order_confirmed =
           IF \E d \in ds : d.field = "byte_order" THEN TRUE ELSE q.byte_order_confirmed]

\* _referenced_byte_order_evidence and _validate_byte_order_evidence: the one
\* sample a decision refers to was read where the point is, in its width, and
\* holds the chosen layout for its datatype among its candidates.
Measured(p, d) ==
    /\ d.evidence \in Evidence
    /\ LET e == d.evidence
       IN /\ e.id = d.id /\ e.route_id = p.route_id /\ e.unit_id = p.unit_id
          /\ e.area = p.area /\ e.protocol_offset = p.protocol_offset
          /\ FixedSpan[p.datatype] = e.registers /\ p.word_span = e.registers
          /\ <<p.datatype, d.value>> \in e.candidates

\* _decision_value: what a value must satisfy, given the point as it was and as
\* the fields before byte_order leave it.
Permitted(p, q, d) ==
    CASE d.field = "unit_id" -> d.value \in 1..247
      [] d.field = "protocol_offset" -> d.value \in 0..MaxProtocolOffset
      [] d.field = "word_span" -> d.value \in 1..125
      [] d.field = "area" -> d.value \in Areas
      [] d.field = "datatype" -> d.value \in DataTypes
      [] d.field = "access" ->
            d.value \in {"read-only", "read-write"} /\ p.access # "write-only"
      [] d.field = "function_code" -> d.value \in 1..4 /\ q.access # "write-only"
      [] d.field = "byte_order" ->
            /\ q.word_span \in 1..4 /\ d.value \in Layout
            /\ d.value.registers = q.word_span /\ Measured(q, d)
      [] OTHER -> d.value # None

\* A hold decision may only name an undecided global hold of the source.
Pending(m) == {c \in Codes : /\ c \in DOMAIN m.source_holds
                             /\ \E h \in m.holds : h.code = c /\ h.ids = {}}
Admissible(m, r) ==
    /\ r.codes \subseteq Pending(m)
    /\ r.excludes \subseteq Ids(m)
    /\ \A d \in r.sets :
          /\ d.id \in Ids(m) \ r.excludes
          /\ \A e \in r.sets : <<e.id, e.field>> = <<d.id, d.field>> => e = d
          /\ Permitted(m.points[d.id], Placing(m.points[d.id], Of(r, d.id)), d)

\* _FIELD_HOLD_ALIASES: the fields whose holds a decision on a field answers.
Answers(f) == IF f = "byte_order" THEN {"byte_order", "byte_order_confirmed",
                                        "byte_order_status"} ELSE {f}
Resolved(r, i) == UNION {Answers(d.field) : d \in Of(r, i)}
\* Faulty variant: one excluded point answers for all the points of a hold.
LiftedByOne(r, h) ==
    \/ h.ids = {} /\ h.code \in r.codes
    \/ h.ids \cap r.excludes # {}
    \/ h.ids # {} /\ \A i \in h.ids : h.field \in Resolved(r, i)
Lifted(r, h) ==
    \/ h.ids = {} /\ h.code \in r.codes
    \/ h.ids # {} /\ h.ids \subseteq r.excludes
    \/ h.ids # {} /\ \A i \in h.ids : h.field \in Resolved(r, i)

\* lint_map of the corrected map: the holds that stay, with what the
\* validator, the simulator profile and the metadata report.
Linted(points, holds, m) ==
    holds \cup Validate(points) \cup SimulatorFindings(points, m.profile) \cup m.metadata
\* The holds that only apply_review_decisions adds.
ReadMapHolds(points, found) ==
    {Finding("review.write-only-point-active", {i}, "access") :
        i \in {j \in DOMAIN points : /\ points[j].access = "write-only"
                                     /\ \A h \in found : j \notin h.ids}}
    \cup IF DOMAIN points = {}
         THEN {Finding("map.no-active-points", {}, "points")} ELSE {}

\* apply_review_decisions.
Reviewed(m, k, r, basis) ==
    LET points == [i \in Ids(m) \ r.excludes |-> Corrected(m.points[i], Of(r, i))]
        found == Linted(points, {h \in m.holds : ~Lifted(r, h)}, m)
        holds == found \cup ReadMapHolds(points, found)
        entry == [sets |-> r.sets, excludes |-> r.excludes, codes |-> r.codes,
                  basis |-> basis]
    IN [m EXCEPT
          !.input_map = k,
          !.points = points,
          !.excluded = @ \cup r.excludes,
          !.source_holds = [c \in DOMAIN @ |-> IF c \in r.codes THEN "resolved" ELSE @[c]],
          !.holds = holds,
          !.review_decisions = IF Size(r) = 0 THEN @ ELSE Append(@, entry),
          !.review_status = IF holds # {} THEN "blocked"
                            ELSE IF r.approve_map THEN "approved" ELSE "ready"]

\* Faulty variant: a record is taken whatever map it was written against.
HashMatchesAny(m, r) == TRUE
HashMatches(m, r) == files[r.basis] = m

ReviewInit == \E m \in Drafts : files = <<m>>

ApplyReview ==
    /\ Len(files) <= MaxReviews
    /\ \E k \in DOMAIN files, r \in Record :
          /\ Size(r) <= MaxDecisions
          /\ HashMatches(files[k], r)
          /\ Admissible(files[k], r)
          /\ files' = Append(files, Reviewed(files[k], k, r, files[r.basis].review_decisions))

ReviewNext == ApplyReview
ReviewSpec == ReviewInit /\ [][ReviewNext]_files

-----------------------------------------------------------------------------
(***************************************************************************)
(* Properties                                                              *)
(***************************************************************************)

\* Every map file accounts for itself.  Each record in its trail was written
\* against exactly the records before it, by reviewers who saw those and no
\* others; and starting from the draft, the trail gives the file: a point is
\* active or excluded, never lost, and excluded exactly if a record excludes
\* it; a field of an active point is what the last record to set it says, or
\* what the draft says; a byte order has been measured where its point is once
\* the whole record is applied; a source hold is resolved exactly if a record
\* says so.
Latest(m, i, f) ==
    LET trail == m.review_decisions
        settings == {k \in DOMAIN trail : \E d \in trail[k].sets : d.id = i /\ d.field = f}
        last == CHOOSE k \in settings : \A j \in settings : j <= k
    IN IF settings = {} THEN files[1].points[i][f]
       ELSE (CHOOSE d \in trail[last].sets : d.id = i /\ d.field = f).value
Accountable ==
    \A n \in DOMAIN files :
        LET m == files[n]  trail == m.review_decisions IN
        /\ \A k \in DOMAIN trail : trail[k].basis = SubSeq(trail, 1, k - 1)
        /\ m.excluded = UNION {trail[k].excludes : k \in DOMAIN trail}
        /\ Ids(m) = Ids(files[1]) \ m.excluded
        /\ \A i \in Ids(m), f \in Fields : m.points[i][f] = Latest(m, i, f)
        /\ Len(trail) > 0 => \A d \in trail[Len(trail)].sets :
               d.field = "byte_order" => Measured(m.points[d.id], d)
        /\ \A c \in DOMAIN m.source_holds : m.source_holds[c] = "resolved" <=>
               \/ files[1].source_holds[c] = "resolved"
               \/ \E k \in DOMAIN trail : c \in trail[k].codes

\* A hold leaves a map only when the record that made the file answers it: it
\* resolves the code of a hold on the whole source, or excludes every point
\* the hold names, or decides the held field of every one of them.
HoldsAnswered ==
    \A n \in DOMAIN files : files[n].input_map # 0 =>
        LET m == files[files[n].input_map]
            trail == files[n].review_decisions
        IN \A h \in m.holds \ files[n].holds :
              /\ Len(trail) = Len(m.review_decisions) + 1
              /\ LET e == trail[Len(trail)] IN
                 \/ h.ids = {} /\ h.code \in e.codes
                 \/ h.ids # {} /\ h.ids \subseteq e.excludes
                 \/ /\ h.ids # {}
                    /\ \A i \in h.ids : \E d \in e.sets :
                          d.id = i /\ h.field \in Answers(d.field)

\* What an approved map promises to those who poll with it, said of its
\* registers and not of its holds: there is something to read; every point is
\* complete, readable, inside the address space and read by the function of
\* its area; no register belongs to two points; a value of several registers
\* has a confirmed byte order of its width; nothing the source holds is open.
\* One kind of point is excepted from what is said of its registers, because
\* the validator finds nothing in it and a review approves it: a string whose
\* length nobody gave.  It has an offset but no known end.
Unmeasured(p) == p.datatype = "string" /\ p.word_span = None
Registers(p) == p.protocol_offset .. EndOffset(p)
ReadSafely(p) ==
    /\ p.route_id # None /\ p.unit_id \in 1..247 /\ p.area # None
    /\ p.datatype # None /\ p.access # "write-only"
    /\ p.function_code \in {None, ReadFunction[p.area]}
    /\ p.protocol_offset \in 0..MaxProtocolOffset
    /\ ~Unmeasured(p) =>
          /\ EffectiveSpan(p) \in Nat \ {0} /\ Registers(p) \subseteq 0..MaxProtocolOffset
          /\ (EffectiveSpan(p) > 1 /\ p.datatype # "string" /\ p.area \notin BitAreas) =>
                /\ p.byte_order # None /\ p.byte_order_confirmed
                /\ p.byte_order.registers = EffectiveSpan(p)
ApprovedIsSafe ==
    \A n \in DOMAIN files : files[n].review_status = "approved" =>
        LET points == files[n].points IN
        /\ DOMAIN points # {}
        /\ \A i \in DOMAIN points : ReadSafely(points[i])
        /\ \A i, j \in DOMAIN points :
              (i # j /\ Scope(points[i]) = Scope(points[j])
                 /\ ~Unmeasured(points[i]) /\ ~Unmeasured(points[j])) =>
              Registers(points[i]) \cap Registers(points[j]) = {}
        /\ \A c \in DOMAIN files[n].source_holds : files[n].source_holds[c] = "resolved"

=============================================================================

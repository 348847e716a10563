--------------------------- MODULE EvidenceReview --------------------------
(***************************************************************************)
(* map_workflows.py, lint_map and review_parse_evidence: the map that      *)
(* normalization made is checked once more, and everything that blocks it  *)
(* is put to the reviewer as a list of decisions, one for each cause.  A   *)
(* reviewer may have marked holds of the map as resolved before.           *)
(***************************************************************************)
EXTENDS MapNormalization

\* A finding of the validator names points by number, the review by id.
Named(h) == Finding(h.code, {points[n].logical_point_id : n \in h.ids}, h.field)

SameIdentity(i, j) ==
    /\ points[i].logical_point_id = points[j].logical_point_id
    /\ Scope(points[i]) = Scope(points[j])
    /\ points[i].protocol_offset = points[j].protocol_offset

\* validate_points: records of one identity are duplicates and not overlaps.
Duplicates ==
    {Finding("point.duplicate-identity", {s[1], s[2]}, None) :
        s \in {t \in (DOMAIN points) \X (DOMAIN points) :
                  /\ t[1] < t[2] /\ SameIdentity(t[1], t[2])
                  /\ Placed(points[t[1]])}}
DistinctOverlaps ==
    {Finding("point.overlapping-range", {s[1], s[2]}, None) :
        s \in {t \in Swept(points) : ~SameIdentity(t[1], t[2])}}

Validated ==
    (UNION {PointFindings(n, points[n]) : n \in DOMAIN points})
    \cup Duplicates \cup DistinctOverlaps \cup SimulatorFindings(points, source.profile)

\* Faulty variant: a finding is known if any open hold has its code and field.
LintByCause(resolved) ==
    LET open == holds \ resolved
        causes == {<<h.code, h.field>> : h \in open}
    IN  open \cup {h \in {Named(v) : v \in Validated} : <<h.code, h.field>> \notin causes}

\* The open holds of the map and, beside those that say the same of the same
\* points, what the validator finds.
Lint(resolved) == (holds \ resolved) \cup {Named(h) : h \in Validated}

\* Rows the parser rejected, by the disposition they were given.
OpenRows == source.rejected \ Dispositions

Findings(resolved) ==
    Lint(resolved) \cup OpenHolds(source.holds)
    \cup IF OpenRows = {} THEN {}
         ELSE {Finding("source.rejected-rows-unresolved", {}, None)}

\* An item of the queue collects the findings that name its point; a finding
\* without points is about the whole artifact.  Those of one cause are one
\* decision.
Items == {points[n].logical_point_id : n \in DOMAIN points}
DecisionGroups(resolved) ==
    LET found == Findings(resolved)
        Cause(h) == [scope |-> IF h.ids = {} THEN "artifact" ELSE "points",
                     code |-> h.code, field |-> h.field]
    IN  {[cause |-> c, ids |-> Items \cap UNION {h.ids : h \in {g \in found : Cause(g) = c}}] :
            c \in {Cause(h) : h \in {g \in found : g.ids = {} \/ g.ids \cap Items # {}}}}

Ready(resolved) == DecisionGroups(resolved) = {}

-----------------------------------------------------------------------------
(***************************************************************************)
(* Properties                                                              *)
(***************************************************************************)

\* The reviewer is asked about everything.  Whatever holds of one point have
\* been marked as resolved before, each point that another hold keeps from
\* being confirmed, or that the validator rejects, is named in a decision; a
\* review that asks nothing leaves only confirmed points, and no open row or
\* hold of the source, unless the hold names points that the map has not.
NothingWavedThrough ==
    collated =>
        \A resolved \in {{}} \cup {{h \in holds : id \in h.ids} : id \in Items} :
            LET asked == UNION {g.ids : g \in DecisionGroups(resolved)} IN
            /\ \A n \in DOMAIN points :
                \/ \E h \in holds \ resolved : points[n].logical_point_id \in h.ids
                \/ PointFindings(n, points[n]) # {}
                => points[n].logical_point_id \in asked
            /\ Ready(resolved) =>
                /\ OpenRows = {}
                /\ \A h \in OpenHolds(source.holds) : h.ids # {} /\ h.ids \cap Items = {}
                /\ resolved = {} => Confirmed = DOMAIN points
=============================================================================

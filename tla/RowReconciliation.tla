------------------------- MODULE RowReconciliation -------------------------
(***************************************************************************)
(* pdf_extraction.py, where the readings of one document meet: which rows  *)
(* of two readers are one row of the document, which of their claims stand *)
(* against each other, and what the artifact says of the whole.            *)
(*                                                                         *)
(* A row is what a reader made of a line of the document.  Its mark says   *)
(* who saw it where, its marks also where the rows merged into it were     *)
(* seen.  Of its fields, the address, the name and the area are those that *)
(* a row is matched by; claim stands for the other material ones.  What a  *)
(* row says besides, of its scale, byte order, unit or range, or under a   *)
(* heading of one reader alone (the type of the text, the format of the    *)
(* grid), is its other claim, in which rows may differ without conflict.   *)
(***************************************************************************)
EXTENDS Integers, Sequences, FiniteSets

CONSTANT None       \* a field that the reader did not find

\* What a row is quarantined or rejected for.  Rows that conflict have no code.
HoldCodes == {"access", "width", "prior", "grid"}   \* _QUARANTINE_HOLD_MESSAGES

PageOf(row) == row.mark[2]
PagesOf(rows) == {PageOf(rows[i]) : i \in DOMAIN rows}
MarksOf(rows) == UNION {rows[i].marks : i \in DOMAIN rows}
\* The elements of a sequence at the indices in S, in their order.
At(s, S) ==
    LET upto[n \in 0..Len(s)] ==
            IF n = 0 THEN <<>>
            ELSE IF n \in S THEN Append(upto[n - 1], s[n]) ELSE upto[n - 1]
    IN upto[Len(s)]
On(rows, pages) == At(rows, {i \in DOMAIN rows : PageOf(rows[i]) \in pages})
Coded(rows, code) == At(rows, {i \in DOMAIN rows : rows[i].code = code})
NotCoded(rows, code) == At(rows, {i \in DOMAIN rows : rows[i].code # code})

Identity(row) == <<PageOf(row), row.address, row.name>>
\* Only the grid reader locates the row of a drawn table.
Physical(row) == IF row.mark[1] = "grid" THEN row.mark ELSE None
Differ(a, b) == a # None /\ b # None /\ a # b
Compatible(a, b) ==
    IF Physical(a) # None /\ Physical(b) # None
    THEN Physical(a) = Physical(b)
    ELSE ~Differ(a.area, b.area)

-----------------------------------------------------------------------------
(* Matching. *)

\* What the i-th left row may be matched with among the free rows on the right:
\* its drawn row, else the one row of its identity, of its address, of its name.
Ladder(left, right, i, free) ==
    LET row == left[i]
        drawn(rows) == {k \in DOMAIN rows :
            Physical(row) # None /\ Physical(rows[k]) = Physical(row)}
        same(rows) == {k \in DOMAIN rows : Identity(rows[k]) = Identity(row)}
        placed(rows) == {k \in DOMAIN rows :
            /\ row.address # None /\ rows[k].address = row.address
            /\ PageOf(rows[k]) = PageOf(row)}
        named(rows) == {k \in DOMAIN rows :
            row.name # None /\ rows[k].name = row.name /\ PageOf(rows[k]) = PageOf(row)}
        open(S) == {j \in S \cap free : Compatible(row, right[j])}
        only(S) == IF Cardinality(S) = 1 THEN S ELSE {}
        alone(S) == Cardinality({k \in S : Compatible(row, left[k])}) = 1
    IN << IF Cardinality(drawn(left)) = 1 /\ Cardinality(drawn(right)) = 1
          THEN open(drawn(right)) ELSE {},
          only(open(same(right))),
          IF alone(placed(left)) THEN only(open(placed(right))) ELSE {},
          IF alone(named(left)) THEN only(open(named(right))) ELSE {} >>
FirstHit(steps) ==
    LET hits == {k \in DOMAIN steps : steps[k] # {}}
    IN IF hits = {} THEN {} ELSE steps[CHOOSE k \in hits : \A j \in hits : k <= j]
Partner(left, right, i, free) == FirstHit(Ladder(left, right, i, free))
\* The left rows choose in turn, each among those that are still free.
Choice(left, right, i, m) ==
    LET p == Partner(left, right, i, m.free)
    IN [free |-> m.free \ p, of |-> Append(m.of, p)]
Matching(left, right) ==
    LET after[n \in 0..Len(left)] ==
            IF n = 0 THEN [free |-> DOMAIN right, of |-> <<>>]
            ELSE Choice(left, right, n, after[n - 1])
    IN after[Len(left)]

-----------------------------------------------------------------------------
(* Merging: the left row wins where both have a field, and if the field is   *)
(* material, the loser's claim is a conflict.                                *)

\* _MATERIAL_FIELDS: the only ones compared.
Fields == {"address", "name", "area", "claim"}
Conflicts(a, b) == \E f \in Fields : Differ(a[f], b[f])
\* Faulty variant: a field only the second reader found is not taken over.
MergedThin(a, b) == [a EXCEPT !.marks = @ \cup b.marks]
Merged(a, b) ==
    [f \in DOMAIN a |-> IF f = "marks" THEN a.marks \cup b.marks
                        ELSE IF a[f] = None THEN b[f] ELSE a[f]]

\* Each row on the left, merged with the row it is matched with; it is held if it
\* was quarantined before or the two conflict.
Pairs(all, kept, right, of) ==
    LET pair(i, clash, row) == [row |-> row, clash |-> clash, held |-> clash \/ i <= kept]
        other(i) == right[CHOOSE j \in of[i] : TRUE]
        met(i, row) == pair(i, Conflicts(all[i], row), Merged(all[i], row))
    IN [i \in DOMAIN all |-> IF of[i] = {} THEN pair(i, FALSE, all[i]) ELSE met(i, other(i))]
RowsOf(pairs) == [k \in DOMAIN pairs |-> pairs[k].row]

\* A row seen where a row that was quarantined before was seen joins it.
Prior(r, kept) ==
    \E k \in DOMAIN kept : Compatible(r, kept[k]) /\ r.marks \cap kept[k].marks # {}
Earlier(rows, kept) == {k \in DOMAIN rows : Prior(rows[k], kept)}
Held(rows, kept) ==
    LET prior == At(rows, Earlier(rows, kept))
    IN [k \in DOMAIN prior |-> [prior[k] EXCEPT !.code = "prior"]]
Divided(pairs, spare, excluded, kept) ==
    LET accepted == At(RowsOf(pairs), {k \in DOMAIN pairs : ~pairs[k].held}) \o spare
    IN [records |-> At(accepted, DOMAIN accepted \ Earlier(accepted, kept)),
        quarantined |-> excluded \o At(RowsOf(pairs), {k \in DOMAIN pairs : pairs[k].held})
                        \o Held(accepted, kept),
        conflicts |-> Cardinality({k \in DOMAIN pairs : pairs[k].clash})]

Reconciled(left, right, quarantined) ==
    LET kept == NotCoded(quarantined, "excluded")
        all == kept \o left
        m == Matching(all, right)
    IN Divided(Pairs(all, Len(kept), right, m.of), At(right, m.free),
               Coded(quarantined, "excluded"), kept)

-----------------------------------------------------------------------------
(* The artifact. *)

SourceCoverage(records, rejected, quarantined, detected, scanned) ==
    /\ scanned /\ records # <<>> /\ rejected = <<>> /\ quarantined = <<>>
    /\ detected \subseteq PagesOf(records)

\* A row of another protocol is accounted for as rejected.  An access conflict
\* that one reader met holds the row of another who missed it.
Sealed(good, refused, set_aside, holds, detected, scanned) ==
    LET complete == SourceCoverage(good, refused, set_aside, detected, scanned)
    IN [records |-> good, rejected |-> refused, quarantined |-> set_aside,
        detected |-> detected, complete |-> complete,
        holds |-> holds
            \cup ({set_aside[i].code : i \in DOMAIN set_aside} \cap HoldCodes)
            \cup (IF good # <<>> /\ ~complete THEN {"coverage"} ELSE {})]
Envelope(records, rejected, quarantined, holds, detected, scanned) ==
    LET refused == rejected \o Coded(quarantined, "excluded")
        access == Coded(refused, "access")
        pass == IF access = <<>> THEN [records |-> records, quarantined |-> <<>>]
                ELSE Reconciled(<<>>, records, access)
    IN Sealed(NotCoded(pass.records, "width"), refused,
              NotCoded(quarantined, "excluded") \o pass.quarantined
                    \o Coded(pass.records, "width"),
              holds, detected, scanned)
Status(artifact) == IF artifact.holds = {} THEN "candidate" ELSE "held"
=============================================================================

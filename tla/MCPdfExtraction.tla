-------------------------- MODULE MCPdfExtraction --------------------------
(* Small documents for TLC: three pages in chunks of two, with rows on all   *)
(* of them, and what the readers may make of them.                             *)
EXTENDS PdfExtraction

Line(reader, p, l) ==
    [mark |-> <<reader, p, l>>, marks |-> {<<reader, p, l>>},
     address |-> <<p, l>>, name |-> "quantity", area |-> None, claim |-> "right",
     other |-> "right", code |-> None]

\* A reader finds a row as it is, or less or something else of it, or not at all.
\* Each reading is a list of rows and a list of rows that are set aside.
Reading(row, how) ==
    CASE how = "right" -> <<<<row>>, <<>>>>
      [] how = "thin" -> <<<<[row EXCEPT !.claim = None, !.address = None]>>, <<>>>>
      [] how = "wrong" -> <<<<[row EXCEPT !.claim = "wrong"]>>, <<>>>>
      [] how = "scaled" -> <<<<[row EXCEPT !.other = "wrong"]>>, <<>>>>
      [] how = "moved" -> <<<<[row EXCEPT !.address = <<0, 0>>]>>, <<>>>>
      [] how = "wide" -> <<<<[row EXCEPT !.code = "width"]>>, <<>>>>
      [] how = "missed" -> <<<<>>, <<>>>>
      [] OTHER -> <<<<>>, <<[row EXCEPT !.claim = None, !.code = how]>>>>
Readings(reader, one, two, three) ==
    {LET a == Reading(Line(reader, 2, 1), r[1])
         b == Reading(Line(reader, 2, 2), r[2])
         c == Reading(Line(reader, 3, 1), r[3])
     IN <<<<Line(reader, 1, 1)>> \o a[1] \o b[1] \o c[1], a[2] \o b[2] \o c[2]>> :
        r \in one \X two \X three}
AsText(rs) == {[rows |-> r[1], rejected |-> r[2]] : r \in rs}
AsGrid(rs) == {[rows |-> r[1], quarantined |-> r[2]] : r \in rs}

MCLayoutAnswers ==
    AsText(Readings("strict", {"right", "thin", "wide", "missed", "access"},
                    {"right", "display"}, {"right", "missed"}))
MCCoordinateAnswers ==
    AsText(Readings("coordinate", {"right", "wrong", "missed", "access"},
                    {"right", "excluded"}, {"right", "missed"}))
MCGridAnswers ==
    AsGrid(Readings("grid", {"right", "wrong", "scaled", "moved", "missed", "grid", "excluded"},
                    {"right", "missed"}, {"right", "missed"}))
MCDocuments ==
    {<<"header", "rows", "rows">>, <<"header", "tail", "tail">>, <<"header", "blank", "rows">>,
     <<"index", "tail", "blank">>}
MCRanges == {None, {2}, {1, 2}}
=============================================================================

----------------------------- MODULE MCUserMap -----------------------------
(* Instances of UserMap: a source and its corrections.  Labels come back   *)
(* with other rows, rows with other labels, and holds with either.         *)
EXTENDS UserMap

Row(label, offset) ==
    [label |-> label, offset |-> offset, name |-> label, access |-> "read-only",
     confirmed |-> TRUE]
Note(code, blocking, rows) == [what |-> What(code, "value", "as found", blocking), rows |-> rows]
Of(field, note) == [note EXCEPT !.what.field = field]
Says(message, note) == [note EXCEPT !.what.message = message]

Table == [format |-> "csv", complete |-> TRUE, rejected |-> FALSE,
          rows |-> <<Row("a", 1), Row("b", 2)>>,
          holds |-> {Note("warning", FALSE, {1}), Of("unit", Note("warning", FALSE, {1})),
                     Note("warning", FALSE, {2})}]
Corrected == [Table EXCEPT !.rows = <<Row("b", 1), [Row("a", 3) EXCEPT !.access = "write-only"]>>,
                           !.holds = {Note("overlap", TRUE, {1, 2}), Note("unit", TRUE, {1})}]
Doubled == [Table EXCEPT !.rows = <<Row("a", 1), Row("b", 2), [Row("b", None) EXCEPT !.name = "c"]>>,
                         !.holds = {Note("point.area", TRUE, {2}), Note("address.area", TRUE, {3}),
                                      Note("order", TRUE, {1}),
                                      Says("and unusual", Note("order", FALSE, {1}))}]
Manual == [Table EXCEPT !.format = "pdf", !.holds = {Note("order", TRUE, {1})},
                        !.rows = <<[Row("a", 1) EXCEPT !.confirmed = FALSE], Row("b", 2)>>]
Refused == [Manual EXCEPT !.holds = {}, !.rejected = TRUE]
Partial == [Table EXCEPT !.complete = FALSE, !.holds = {}]
Empty == [Table EXCEPT !.rows = <<>>, !.holds = {}]

MCSources == {Table, Corrected, Doubled, Manual, Refused, Partial, Empty}
ById(id, as) == [id |-> id, name |-> None, as |-> as]
ByName(name, as) == [id |-> None, name |-> name, as |-> as]
Template(all, entries) == [all |-> all, entries |-> entries]
MCTemplates ==
    {Template(TRUE, {}), Template(FALSE, {ByName("b", "included")}),
     Template(FALSE, {ById(<<"a", 1>>, "included"), ByName("c", "excluded")})}
Brought(note, wide) == [what |-> note.what, wide |-> wide]
MCBindingHolds == {{}, {Brought(Note("route", TRUE, {}), TRUE),
                        Brought(Says("by hand", Note("warning", TRUE, {})), FALSE)}}
=============================================================================

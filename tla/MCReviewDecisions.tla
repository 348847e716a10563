------------------------- MODULE MCReviewDecisions -------------------------
(* Instances of ReviewDecisions: a map of three points, its drafts and the *)
(* decisions reviewers may take.                                           *)
EXTENDS ReviewDecisions

Word(offset) ==
    [route_id |-> "r", unit_id |-> 1, area |-> "holding-register",
     protocol_offset |-> offset, datatype |-> "uint16", word_span |-> 1,
     byte_order |-> None, byte_order_confirmed |-> FALSE, bit_order |-> None,
     access |-> "read-only", function_code |-> 3]
Pair(offset) == [Word(offset) EXCEPT !.datatype = "float32", !.word_span = 2]
Straight == [registers |-> 2, swapped |-> FALSE]
Swapped == [registers |-> 2, swapped |-> TRUE]

Draft(points, source, holds) ==
    [points |-> points, excluded |-> {}, source_holds |-> [c \in source |-> "open"],
     holds |-> {Finding(c, {}, "source") : c \in source} \cup holds,
     profile |-> None, metadata |-> {}, review_decisions |-> <<>>,
     review_status |-> "draft", input_map |-> 0]

Unordered == Finding("point.byte-order-unresolved", {1}, "byte_order")
WriteOnly == Finding("point.write-only-not-readable", {3}, "access")
MCDrafts ==
    {Draft(<<Pair(0), Word(1), [Word(3) EXCEPT !.access = "write-only",
                                               !.function_code = None]>>,
           {"pdf-human-review-required"}, {Unordered, WriteOnly}),
     Draft(<<[Pair(2) EXCEPT !.byte_order = Straight, !.byte_order_confirmed = TRUE],
             Word(0), [Word(65535) EXCEPT !.area = None]>>,
           {}, {Finding("point.area-unresolved", {3}, "area")}),
     Draft(<<[Word(0) EXCEPT !.datatype = None, !.word_span = None], Word(1)>>,
           {}, {Finding("point.datatype-unresolved", {1}, "datatype")})}

Sample(offset) ==
    [id |-> 1, route_id |-> "r", unit_id |-> 1, area |-> "holding-register",
     protocol_offset |-> offset, registers |-> 2,
     candidates |-> {<<"float32", Straight>>, <<"float32", Swapped>>}]
MCEvidence == {Sample(0), Sample(4)}

Set(i, f, v) == [id |-> i, field |-> f, value |-> v, evidence |-> None]
MCDecisions ==
    {[Set(1, "byte_order", Straight) EXCEPT !.evidence = Sample(0)],
     [Set(1, "byte_order", Swapped) EXCEPT !.evidence = Sample(4)],
     Set(1, "protocol_offset", 4), Set(1, "datatype", "uint16"), Set(1, "word_span", 1),
     Set(1, "datatype", "string"), Set(1, "word_span", 2),
     Set(2, "protocol_offset", 2), Set(2, "function_code", 4),
     Set(3, "access", "read-only"), Set(3, "area", "input-register"),
     Set(3, "function_code", 4)}
=============================================================================

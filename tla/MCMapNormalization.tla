------------------------ MODULE MCMapNormalization -------------------------
(* Instances of MapNormalization: a complete record, and the ways in which *)
(* a document can leave, contradict or spoil each group of its fields.     *)
EXTENDS EvidenceReview

Decimal(value, width) == [form |-> "decimal", value |-> value, width |-> width]
Whole(value, width) == [form |-> "integer", value |-> value, width |-> width]
Hex(value) == [form |-> "hex", value |-> value, width |-> 0]
Object(offset, display, raw, convention) ==
    [protocol_offset |-> offset, display_address |-> display, raw |-> raw,
     convention |-> convention]

Complete ==
    [include |-> None, reviewed |-> TRUE, route_id |-> "r", unit_id |-> 1,
     area |-> "holding-register", address_convention |-> None,
     protocol_offset |-> Whole(0, 1), display_address |-> None,
     source_address |-> None, address |-> None,
     datatype |-> "uint16", word_span |-> None, byte_order |-> None,
     byte_order_status |-> None, byte_order_confirmed |-> None, bit_order |-> None,
     scale |-> None, scale_claims |-> {}, minimum |-> None, maximum |-> None,
     access |-> "read-only", access_readable |-> None, access_writable |-> None,
     writable |-> None, access_columns |-> FALSE,
     function_code |-> None, read_function_codes |-> {},
     logical_point_id |-> None, name |-> "p", description |-> None, row |-> 1]

Tri == {None, TRUE, FALSE, Invalid}
AccessRecords ==
    {[Complete EXCEPT !.access = a, !.access_readable = x, !.access_writable = y,
                      !.writable = z, !.access_columns = TRUE, !.function_code = f,
                      !.read_function_codes = c] :
        a \in {None, "read-only", "write-only", Placeholder, Invalid}, x \in Tri, y \in Tri,
        z \in {None, FALSE}, f \in {None, 3}, c \in {{}, {3}, {4, 6}}}
    \cup {[Complete EXCEPT !.access = a] : a \in {None, Placeholder}}

\* The ends of each convention, and one register written in all of them.
AddressRecords ==
    {[Complete EXCEPT !.area = a, !.function_code = f, !.protocol_offset = p,
                      !.display_address = q, !.address = s] :
        a \in {"holding-register", "coil", None, Invalid}, f \in {None, 1},
        p \in {None, Whole(0, 1), Whole(9999, 4), Hex(65535), Whole(65536, 5), Invalid},
        q \in {None, Decimal(40001, 5), Decimal(410000, 6), Decimal(465536, 6),
               Decimal(49999, 5), Decimal(1, 5), Whole(1, 1)},
        s \in {None} \cup
              {Object(None, None, v, c) : v \in {Decimal(1, 1), Decimal(65536, 5)},
                                         c \in {None, "omitted", "one-based-offset", Invalid}}}
\* Addresses in objects, with several forms in one, with none, or with raw only.
    \cup {[Complete EXCEPT !.protocol_offset = p, !.address_convention = c,
                           !.source_address = s, !.address = a] :
        p \in {None, Whole(0, 1)}, c \in {None, "protocol-offset"},
        s \in {None} \cup [raw : {None, Decimal(0, 1), Decimal(40001, 5)},
                           convention : {None, "modicon-reference"}],
        a \in {None} \cup
              {Object(o, q, v, k) : o \in {None, Whole(0, 1)},
                  q \in {None, Decimal(40001, 5), Decimal(40002, 5)},
                  v \in {None, Decimal(1, 1)}, k \in {None, "omitted", "one-based-offset"}}}

NamedLayout(order) == [name |-> order]
OrderRecords ==
    {[Complete EXCEPT !.datatype = t, !.word_span = w, !.byte_order = o,
                      !.byte_order_status = s, !.byte_order_confirmed = c] :
        t \in {"uint16", "float32", "string", Placeholder, Invalid},
        w \in {None, 0, 1, 2, 4}, s \in Tri, c \in Tri,
        o \in {None, Invalid, NamedLayout("ABCD"), NamedLayout("CDAB"), NamedLayout("DCBA"),
              [registers |-> 4, swapped |-> TRUE]}}

Rule(factor, absent) == [factor |-> factor, absent |-> absent]
OtherRecords ==
    {[Complete EXCEPT !.scale = s, !.scale_claims = c, !.minimum = lo, !.maximum = 1] :
        s \in {None, 10, Invalid}, lo \in {None, Invalid, 0, 2},
        c \in {{}, {Rule(10, FALSE)}, {Rule(10, FALSE), Rule(1, FALSE)}, {Rule(10, TRUE)},
               {Rule(Invalid, FALSE)}}}
    \cup {[Complete EXCEPT !.include = i, !.reviewed = v, !.unit_id = u] :
             i \in Tri, v \in Tri, u \in {0, 247, 248, Invalid}}
    \cup {[Complete EXCEPT !.route_id = None, !.unit_id = None, !.area = None,
                           !.datatype = None, !.protocol_offset = p, !.address = a,
                           !.address_convention = c, !.access = b] :
             p \in {None, Whole(65535, 5)}, c \in {None, "protocol-offset"},
             b \in {"read-only", "write-only"},
             a \in {None, Object(None, None, Decimal(40001, 5), "omitted")}}

\* Two records, of one name or of none, at one register or two, in one row.
Pairs ==
    {<<[Complete EXCEPT !.name = n, !.logical_point_id = i],
       [Complete EXCEPT !.name = m, !.protocol_offset = Whole(o, 1), !.row = w,
                        !.datatype = t]>> :
        n \in {None, "p"}, m \in {None, "p"}, i \in {None, "id"}, o \in {0, 1},
        w \in {1, 2}, t \in {"uint16", "bool"}}
Simulator == [areas |-> {"holding-register"}, datatypes |-> {"uint16"},
              max_unit_id |-> 1, max_word_span |-> 1]

\* What a parser may hold of the source as a whole, or of the point p1.
NamedRecord == [Complete EXCEPT !.logical_point_id = "p1"]
SourceHold(ids, blocking, disposition) ==
    [code |-> "h", ids |-> ids, blocking |-> blocking, disposition |-> disposition]
SourceHolds ==
    {SourceHold({}, None, None), SourceHold({[explicit |-> "p1"]}, TRUE, "seen"),
     SourceHold({}, FALSE, None), SourceHold({}, None, "resolved"), Invalid}
MCSources ==
    {[records |-> <<r>>, profile |-> None, holds |-> {}, rejected |-> {}] :
        r \in AccessRecords \cup AddressRecords \cup OrderRecords \cup OtherRecords}
    \cup [records : Pairs, profile : {None, Simulator}, holds : {{}}, rejected : {{}}]
    \cup [records : {<<NamedRecord>>, <<NamedRecord, [NamedRecord EXCEPT !.access = None]>>},
          profile : {None}, holds : SUBSET SourceHolds,
          rejected : SUBSET {None, "excluded", "seen"}]
    \cup {[records |-> <<[NamedRecord EXCEPT !.datatype = t],
                        [NamedRecord EXCEPT !.logical_point_id = "p2", !.datatype = None,
                                            !.protocol_offset = Whole(1, 1)]>>,
           profile |-> None, holds |-> {}, rejected |-> {}] : t \in {None, "uint16"}}

NoDefaults ==
    [f \in {"route_id", "unit_id", "area", "address_convention", "datatype", "word_span",
            "byte_order", "bit_order", "scale", "function_code"} |-> None]
AllDefaults ==
    [route_id |-> "s", unit_id |-> 2, area |-> "holding-register",
     address_convention |-> "modicon-reference", datatype |-> "float32", word_span |-> None,
     byte_order |-> NamedLayout("DCBA"), bit_order |-> "lsb0", scale |-> None, function_code |-> 3]
MCDefaultSets ==
    {NoDefaults, AllDefaults, [NoDefaults EXCEPT !.word_span = 2, !.scale = 10]}
=============================================================================

--------------------------- MODULE PointValidation -------------------------
(***************************************************************************)
(* validation.py: what the validator reports of a map.  A map is a         *)
(* function from the number of a point to the point; points are numbered   *)
(* in the order of their logical ids.  Only findings that hold a map up    *)
(* are kept: a finding is its code, the points it names and the field it   *)
(* is about.                                                               *)
(***************************************************************************)
EXTENDS Integers, FiniteSets

CONSTANT None       \* a value that the source does not give

Areas == {"coil", "discrete-input", "holding-register", "input-register"}
BitAreas == {"coil", "discrete-input"}
ReadFunction ==
    [a \in Areas |-> CASE a = "coil" -> 1 [] a = "discrete-input" -> 2
                       [] a = "holding-register" -> 3 [] a = "input-register" -> 4]

DataTypes == {"bool", "uint16", "float32", "float64", "string"}
\* DataType.span; the types of one width behave alike.
FixedSpan == [t \in DataTypes \cup {None} |->
    CASE t \in {"bool", "uint16"} -> 1 [] t = "float32" -> 2
      [] t = "float64" -> 4 [] OTHER -> None]

MaxProtocolOffset == 65535

\* A byte order is a permutation of the bytes of some number of registers.
Layout == [registers : 1..4, swapped : BOOLEAN]

CanonicalPoint ==
    [route_id : STRING \cup {None}, unit_id : Int \cup {None}, area : Areas \cup {None},
     protocol_offset : Int \cup {None}, datatype : DataTypes \cup {None},
     word_span : Int \cup {None}, byte_order : Layout \cup {None},
     byte_order_confirmed : BOOLEAN, bit_order : STRING \cup {None},
     access : {"read-only", "read-write", "write-only", None}, function_code : Int \cup {None}]

EffectiveSpan(p) == IF p.word_span # None THEN p.word_span ELSE FixedSpan[p.datatype]
EndOffset(p) == p.protocol_offset + EffectiveSpan(p) - 1
Packed(p) ==
    /\ p.datatype = "bool"
    /\ \/ p.area \in {"holding-register", "input-register"}
       \/ p.word_span # None /\ p.word_span > 1

Finding(code, ids, field) == [code |-> code, ids |-> ids, field |-> field]

\* The checks of one point, each with the field it reports on.
Checks(p) ==
    LET span == EffectiveSpan(p)
        spans == span # None /\ span > 0
    IN {<<"point.route-unresolved", "route_id", p.route_id = None>>,
        <<"point.unit-id-unresolved", "unit_id", p.unit_id = None>>,
        <<"point.unit-id-invalid", "unit_id", p.unit_id # None /\ p.unit_id \notin 1..247>>,
        <<"point.area-unresolved", "area", p.area = None>>,
        <<"point.address-unresolved", "protocol_offset", p.protocol_offset = None>>,
        <<"point.address-out-of-range", "protocol_offset",
          p.protocol_offset # None /\ p.protocol_offset \notin 0..MaxProtocolOffset>>,
        <<"point.datatype-unresolved", "datatype", p.datatype = None>>,
        <<"point.datatype-area-mismatch", "datatype",
          p.datatype \notin {None, "bool"} /\ p.area \in BitAreas>>,
        <<"point.span-invalid", "word_span", p.word_span # None /\ p.word_span <= 0>>,
        <<"point.datatype-span-mismatch", "word_span",
          /\ p.word_span # None /\ p.word_span > 0
          /\ FixedSpan[p.datatype] \notin {None, p.word_span}>>,
        <<"point.byte-order-inapplicable", "byte_order",
          p.area \in BitAreas /\ p.byte_order # None /\ p.byte_order.registers >= 2>>,
        <<"point.bit-order-unresolved", "bit_order", Packed(p) /\ p.bit_order = None>>,
        <<"point.byte-order-unresolved", "byte_order",
          /\ spans /\ span > 1 /\ p.datatype # "string"
          /\ p.area \notin BitAreas /\ p.byte_order = None>>,
        <<"point.byte-order-invalid", "byte_order",
          spans /\ p.byte_order # None /\ p.byte_order.registers # span>>,
        <<"point.byte-order-unconfirmed", "byte_order_confirmed",
          p.byte_order # None /\ ~p.byte_order_confirmed>>,
        <<"function-code.unsupported", "function_code",
          p.function_code # None /\ p.function_code \notin 1..4>>,
        <<"function-code.area-mismatch", "function_code",
          /\ p.function_code # None /\ p.function_code \in 1..4
          /\ p.area # None /\ p.function_code # ReadFunction[p.area]>>,
        <<"point.range-out-of-bounds", "word_span",
          p.protocol_offset # None /\ spans /\ EndOffset(p) > MaxProtocolOffset>>}

PointFindings(i, p) ==
    {Finding(c[1], {i}, c[2]) : c \in {d \in Checks(p) : d[3]}}

(***************************************************************************)
(* The sweep for overlaps.  The points of one route, unit and area are     *)
(* sorted by offset; the inner loop stops at the first one that starts     *)
(* after the end of the left one.                                          *)
(***************************************************************************)
Scope(p) == <<p.route_id, p.unit_id, p.area>>
Placed(p) ==
    /\ p.route_id # None /\ p.unit_id # None /\ p.area # None
    /\ p.protocol_offset # None
    /\ EffectiveSpan(p) # None /\ EffectiveSpan(p) > 0
Before(points, i, j) ==
    \/ points[i].protocol_offset < points[j].protocol_offset
    \/ points[i].protocol_offset = points[j].protocol_offset /\ i < j
\* Faulty variant: the loop stops one register too early.
MeetsShort(points, i, j) == points[j].protocol_offset < EndOffset(points[i])
Meets(points, i, j) == points[j].protocol_offset <= EndOffset(points[i])
Found(points, i, j) ==
    /\ Placed(points[i]) /\ Placed(points[j])
    /\ Scope(points[i]) = Scope(points[j]) /\ Before(points, i, j)
    /\ \A k \in DOMAIN points :
          (/\ Placed(points[k]) /\ Scope(points[k]) = Scope(points[i])
           /\ Before(points, i, k) /\ ~Before(points, j, k)) => Meets(points, i, k)
Swept(points) == {s \in (DOMAIN points) \X (DOMAIN points) : Found(points, s[1], s[2])}
Overlaps(points) ==
    {Finding("point.overlapping-range", {s[1], s[2]}, None) : s \in Swept(points)}

\* validate_points: the ids of a reviewed map are unique, so are identities.
Validate(points) ==
    (UNION {PointFindings(i, points[i]) : i \in DOMAIN points}) \cup Overlaps(points)

\* map_workflows.py, _simulator_point_holds.
SimulatorFindings(points, profile) ==
    IF profile = None THEN {} ELSE
    UNION {{Finding(c[1], {i}, c[2]) : c \in {d \in
        {<<"simulator.point-area-unsupported", "area", points[i].area \notin profile.areas>>,
         <<"simulator.point-datatype-unsupported", "datatype",
           points[i].datatype \notin profile.datatypes>>,
         <<"simulator.point-unit-id-unsupported", "unit_id",
           points[i].unit_id # None /\ points[i].unit_id > profile.max_unit_id>>,
         <<"simulator.point-span-unsupported", "word_span",
           points[i].word_span # None /\ points[i].word_span > profile.max_word_span>>}
        : d[3]}} : i \in DOMAIN points}
=============================================================================

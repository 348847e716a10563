--------------------------- MODULE ExportTargets ---------------------------
(***************************************************************************)
(* node_red.py, modpoll.py, modscan.py: the clients a plan is exported to. *)
(* Each client can express some plans and not others; its own preflight    *)
(* holds the others back, and what it writes makes the client read and     *)
(* show values of its own reckoning.  Both are defined here for a plan     *)
(* that has passed the common preflight.                                   *)
(***************************************************************************)
EXTENDS ReadPlanner

CONSTANTS
    BitScopes,      \* the scopes of coils and discrete inputs
    RouteOf,        \* the route of each scope
    MaxRouteReads   \* WITTE_DESKTOP_MAX_ROUTE_READS_PER_SECOND (5)

Profiles == {"node-red", "gavinying-cli", "proconx-cli", "witte-desktop", "modscan"}

\* What a point means, beside where it is.  Layouts are named by four bytes.
Meanings ==
    [datatype : {"bool", "uint16", "uint32", "float32", "string", None},
     layout : {"ABCD", "CDAB", None}, confirmed : BOOLEAN,
     scaled : BOOLEAN, shifted : BOOLEAN]
DecodedWidth == [t \in {"bool", "uint16", "uint32", "float32"} |->
                    IF t \in {"bool", "uint16"} THEN 1 ELSE 2]
Code(test, code) == IF test THEN {code} ELSE {}

\* points_for_block: the points a block lists, or those that lie within it.
Listed(b) == {b.traces[k].id : k \in DOMAIN b.traces}
PointsFor(m, b) ==
    IF b.traces # <<>> THEN {p \in m.points : p.id \in Listed(b)}
    ELSE {p \in m.points : p.scope = b.scope /\ b.first <= p.offset /\ EndOf(p) <= b.last}
Quantity(b) == b.last - b.first + 1
Many(m, p) == p.span > 1 /\ m.meaning[p.id].datatype # "string"

\* _final_decode_findings: the flow decodes each point by itself.
NodeRedFindings(m) ==
    UNION {LET v == m.meaning[p.id] IN
        IF v.datatype \notin DOMAIN DecodedWidth
        THEN Code(v.datatype # None, "NODE_RED_FINAL_DATATYPE_UNSUPPORTED")
        ELSE Code(p.span # DecodedWidth[v.datatype], "NODE_RED_FINAL_WIDTH_MISMATCH")
             \cup Code((v.datatype = "bool") # (p.scope \in BitScopes),
                       "NODE_RED_FINAL_AREA_DATATYPE_MISMATCH")
             \cup Code(p.span = 1 /\ v.layout = "CDAB",
                       "NODE_RED_FINAL_LAYOUT_UNSUPPORTED")
             \cup Code(v.datatype = "bool" /\ (v.scaled \/ v.shifted),
                       "NODE_RED_FINAL_BIT_TRANSFORM_UNSUPPORTED")
        : p \in m.points}

\* _gavinying_preflight: one poll row per block, and one layout per row.
GavinyingLayouts(m, b) == {m.meaning[p.id].layout : p \in {q \in PointsFor(m, b) : Many(m, q)}}
GavinyingRequest(m, b, mode) ==
    Code(mode = "final" /\ b.scope \in BitScopes, "MODPOLL_SCALAR_BITS_UNSUPPORTED")
    \cup Code(mode = "final" /\ \E p \in PointsFor(m, b) : m.meaning[p.id].shifted,
              "MODPOLL_OFFSET_UNSUPPORTED")
    \cup Code(mode = "final" /\ None \in GavinyingLayouts(m, b),
              "MODPOLL_BYTE_ORDER_UNSUPPORTED")
    \cup Code(mode = "final" /\ Cardinality(GavinyingLayouts(m, b) \ {None}) > 1,
              "MODPOLL_BLOCK_ENDIAN_CONFLICT")
GavinyingFindings(m, blocks, mode) ==
    Code(mode = "probe", "MODPOLL_SINGLE_ATTEMPT_UNSUPPORTED")
    \cup UNION {GavinyingRequest(m, b, mode) : b \in blocks}

\* _proconx_preflight: one command per block, with one type for all values.
\* points[0] is the first point of the map in the block.
FirstOf(points) == CHOOSE p \in points : \A q \in points : p.id <= q.id
\* Faulty variant: a block may mix datatypes of one width.
ProconxMixed(m, b) == FALSE
ProconxMixedTypes(m, b) ==
    Cardinality({m.meaning[p.id].datatype : p \in PointsFor(m, b)}) > 1
ProconxWidth(m, b, mode) ==
    IF mode = "final" /\ PointsFor(m, b) # {} THEN FirstOf(PointsFor(m, b)).span ELSE 1
ProconxRequest(m, b, mode) ==
    LET points == PointsFor(m, b)
        width == ProconxWidth(m, b, mode)
    IN Code(mode = "final" /\ \E p \in points : m.meaning[p.id].scaled,
            "MODPOLL_SCALE_UNSUPPORTED")
       \cup Code(/\ mode = "final" /\ b.scope \notin BitScopes
                 /\ \E p \in points : m.meaning[p.id].datatype \in {"bool", "string"},
                 "MODPOLL_DATATYPE_UNSUPPORTED")
       \cup Code(mode = "final" /\ \E p \in points : m.meaning[p.id].shifted,
                 "MODPOLL_OFFSET_UNSUPPORTED")
       \cup Code(mode = "final" /\ \E p \in points :
                    Many(m, p) /\ m.meaning[p.id].layout \notin {"ABCD", None},
                 "MODPOLL_BYTE_ORDER_UNSUPPORTED")
       \cup Code(mode = "final" /\ ProconxMixedTypes(m, b), "MODPOLL_BLOCK_DATATYPE_CONFLICT")
       \cup Code(Quantity(b) % width # 0 \/ Quantity(b) \div width \notin 1..125,
                 "MODPOLL_COUNT_UNSUPPORTED")
       \cup Code(/\ mode = "final" /\ points # {}
                 /\ \/ Quantity(b) # Cardinality(points) * width
                    \/ {p.offset : p \in points} #
                         {b.first + k * width : k \in 0..Cardinality(points) - 1}
                    \/ \E p \in points : p.span # width,
                 "MODPOLL_TYPED_BLOCK_GAPS")
ProconxFindings(m, blocks, mode) == UNION {ProconxRequest(m, b, mode) : b \in blocks}

\* _witte_polling_findings and _witte_final_findings: every register is shown
\* as an unsigned word, and a route is read a few times a second at most.
\* Intervals divide two seconds.
ReadsInTwoSeconds(blocks, route) ==
    LET Rate[S \in SUBSET blocks] ==
            IF S = {} THEN 0
            ELSE LET b == CHOOSE x \in S : TRUE IN 2000 \div b.interval + Rate[S \ {b}]
    IN Rate[{b \in blocks : RouteOf[b.scope] = route}]
WitteRequest(m, b, mode) ==
    UNION {
        Code(/\ mode = "final"
             /\ b.scope \in BitScopes \/ m.meaning[p.id].datatype # "uint16" \/ p.span # 1,
             "WITTE_FINAL_DISPLAY_UNCONFIGURED")
        \cup Code(mode = "final" /\ m.meaning[p.id].scaled, "WITTE_SCALE_UNSUPPORTED")
        \cup Code(mode = "final" /\ m.meaning[p.id].shifted, "WITTE_OFFSET_UNSUPPORTED")
        \cup Code(mode = "final" /\ m.meaning[p.id].layout \notin {"ABCD", None},
                  "WITTE_BYTE_ORDER_UNCONFIGURED")
        : p \in PointsFor(m, b)}
WitteFindings(m, blocks, mode) ==
    Code(\E b \in blocks : b.interval < 1000, "WITTE_SCAN_INTERVAL_TOO_SHORT")
    \cup Code(\E b \in blocks : ReadsInTwoSeconds(blocks, RouteOf[b.scope]) > 2 * MaxRouteReads,
              "WITTE_ROUTE_READ_RATE_EXCEEDED")
    \cup UNION {WitteRequest(m, b, mode) : b \in blocks}

\* export_modscan: the entry field takes no address after the last but one.
ModScanFindings(blocks) ==
    Code(\E b \in blocks : b.first = LastOffset, "MODSCAN_POINT_ADDRESS_UNSUPPORTED")

TargetFindings(profile, m, blocks, mode) ==
    CASE profile = "node-red" -> IF mode = "final" THEN NodeRedFindings(m) ELSE {}
      [] profile = "gavinying-cli" -> GavinyingFindings(m, blocks, mode)
      [] profile = "proconx-cli" -> ProconxFindings(m, blocks, mode)
      [] profile = "witte-desktop" -> WitteFindings(m, blocks, mode)
      [] profile = "modscan" -> ModScanFindings(blocks)

-----------------------------------------------------------------------------
(***************************************************************************)
(* What the final files make each client show: values of a type, from a    *)
(* first register, in a layout where there is more than one, with or       *)
(* without the point's scale and offset applied.  (normalize_map leaves    *)
(* values of one register without a layout.)                               *)
(***************************************************************************)
Value(first, span, datatype, layout, scaled, shifted) ==
    [first |-> first, span |-> span, datatype |-> datatype,
     layout |-> IF span > 1 /\ datatype # "string" THEN layout ELSE None,
     scaled |-> scaled, shifted |-> shifted]
Meant(m, p) ==
    LET v == m.meaning[p.id]
    IN Value(p.offset, p.span, v.datatype, v.layout, v.scaled, v.shifted)

\* A file of gavinying or proconX says where a value starts and what its type
\* is, and not how wide the map takes it to be: the type decides, save for a
\* string, whose type names its length.
ClientWidth(m, p) ==
    LET t == m.meaning[p.id].datatype
    IN IF t \in DOMAIN DecodedWidth THEN DecodedWidth[t] ELSE p.span
\* What the validator demands of a point (point.datatype-span-mismatch and
\* point.datatype-area-mismatch): its width is that of its type, and what is
\* kept in bits is a bool.
Fits(m, p) ==
    p.span = ClientWidth(m, p) /\ (p.scope \in BitScopes => m.meaning[p.id].datatype = "bool")

\* _gavinying_csv: a row for each point, in a block that takes the first layout
\* of its multiword points.
GavinyingRow(m, b) ==
    LET layouts == GavinyingLayouts(m, b)
        endian == IF layouts = {} THEN "ABCD"
                  ELSE IF "ABCD" \in layouts THEN "ABCD" ELSE CHOOSE x \in layouts : TRUE
    IN {Value(p.offset, ClientWidth(m, p), m.meaning[p.id].datatype, endian,
              m.meaning[p.id].scaled, FALSE) : p \in PointsFor(m, b)}
\* _proconx_command: -r first -c count, and -t for the type of the first point,
\* or for bits, whatever the points are.
ProconxValues(m, b) ==
    LET p == FirstOf(PointsFor(m, b))  width == ClientWidth(m, p)
    IN IF b.scope \in BitScopes
       THEN {Value(o, 1, "bool", None, FALSE, FALSE) : o \in b.first..b.last}
       ELSE {Value(b.first + k * width, width, m.meaning[p.id].datatype, "ABCD", FALSE, FALSE)
                : k \in 0..(Quantity(b) \div p.span) - 1}
Shown(profile, m, b) ==
    CASE profile = "node-red" -> {Meant(m, p) : p \in PointsFor(m, b)}
      [] profile = "gavinying-cli" -> GavinyingRow(m, b)
      [] profile = "proconx-cli" -> ProconxValues(m, b)
      [] profile = "witte-desktop" ->
            {Value(o, 1, "uint16", None, FALSE, FALSE) : o \in b.first..b.last}
      [] profile = "modscan" -> {}
=============================================================================

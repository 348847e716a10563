---------------------------- MODULE MCExportGate ----------------------------
(* Small maps for TLC: four registers to a request, two scopes, of which the *)
(* second holds bits.                                                        *)
EXTENDS ExportGate

MCLimit == [s \in Scopes |-> IF s = 1 THEN 4 ELSE 2]
MCProtocolLimit == [s \in Scopes |-> 5]
MCFunctionOf == [s \in Scopes |-> IF s = 1 THEN 3 ELSE 1]
MCRouteOf == [s \in Scopes |-> 1]

Point(i, s, o, w) == [id |-> i, scope |-> s, offset |-> o, span |-> w, readable |-> TRUE]
Means(t, l, c, s, a) ==
    [datatype |-> t, layout |-> l, confirmed |-> c, scaled |-> s, shifted |-> a]
Word == Means("uint16", None, TRUE, FALSE, FALSE)
Map(points, meaning) ==
    [points |-> points, meaning |-> meaning, holds |-> {}, pending |-> {}]

\* Words at any places, read with and without islands and unsafe intervals.
Places ==
    {Map({Point(i, 1, o[i], 1) : i \in 1..3} \cup {Point(4, 2, 1, 1)},
         [i \in 1..4 |-> IF i = 4 THEN Means("bool", None, TRUE, FALSE, FALSE) ELSE Word]) :
        o \in {<<0, 1, 2>>, <<0, 2, 3>>, <<0, 1, 7>>, <<2, 4, 6>>, <<0, 3, 5>>}}
Island(i, a, b) == [id |-> i, scope |-> 1, first |-> a, last |-> b]
Interval(a, b) == [scope |-> 1, first |-> a, last |-> b]
Geometry ==
    [map : Places,
     islands : {{}, {Island(1, 0, 7)}, {Island(1, 0, 3), Island(2, 4, 7)}},
     unsafe : {{}, {Interval(1, 1)}, {Interval(5, 5)}}]

\* Two points in one request: what a value may be, and its width.
Kinds ==
    {<<Means(t, "ABCD", TRUE, FALSE, FALSE), 2>> : t \in {"uint32", "float32", "string"}}
    \cup {<<Means("uint32", l, c, FALSE, FALSE), 2>> : l \in {"CDAB", None}, c \in BOOLEAN}
    \cup {<<Means("uint16", None, TRUE, s, FALSE), 1>> : s \in BOOLEAN}
    \cup {<<Means("uint16", None, TRUE, FALSE, TRUE), 1>>,
          <<Means("uint16", "ABCD", TRUE, FALSE, FALSE), 2>>,
          <<Means(None, None, TRUE, FALSE, FALSE), 1>>}
Pairs ==
    {[map |-> Map({Point(1, 1, 0, a[2]), Point(2, 1, a[2], b[2])}, <<a[1], b[1]>>),
      islands |-> {}, unsafe |-> {}] : a \in Kinds, b \in Kinds}
\* Two bits in one request, of which either may be said to be a number.
Bits ==
    {[map |-> Map({Point(1, 2, 0, 1), Point(2, 2, 1, 1)},
                  <<Means(x, None, TRUE, FALSE, FALSE), Means(y, None, TRUE, z, FALSE)>>),
      islands |-> {}, unsafe |-> {}] :
        x \in {"bool", "uint16"}, y \in {"bool", "uint16"}, z \in BOOLEAN}

MCCases == Geometry \cup Pairs \cup Bits
MCInputs == {Arguments(c) : c \in MCCases}
MCSelections ==
    {{"node-red", "gavinying-cli", "modscan"}, {"proconx-cli"}, {"node-red", "witte-desktop"}}
=============================================================================

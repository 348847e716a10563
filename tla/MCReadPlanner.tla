--------------------------- MODULE MCReadPlanner ---------------------------
(* Small maps for TLC: one address space of a few offsets, a limit of four   *)
(* registers, up to four points of which at most one is not to be planned.   *)
EXTENDS ReadPlanner

MCLimit == [s \in Scopes |-> IF s = 1 THEN 4 ELSE 2]

Point(i, s, o, w) == [id |-> i, scope |-> s, offset |-> o, span |-> w, readable |-> TRUE]
Island(i, a, b) == [id |-> i, scope |-> 1, first |-> a, last |-> b]
Interval(a, b) == [scope |-> 1, first |-> a, last |-> b]

\* Three points of one scope, anywhere, of any width, the last one also in
\* another scope or not readable.
ThreePoints ==
    {{Point(1, 1, a[1], a[2]), Point(2, 1, b[1], b[2]), c} :
        a \in (0 .. 1) \X (1 .. 3), b \in (1 .. 5) \X (1 .. 3),
        c \in {Point(3, s, o, w) : s \in Scopes, o \in {2, 6}, w \in {0, 1, 4, 5}}
              \cup {[Point(3, 1, 2, 1) EXCEPT !.readable = FALSE]}}

\* Four narrow points, as in a sparse register map.
FourPoints ==
    {{Point(i, 1, o[i], IF i = 2 THEN 2 ELSE 1) : i \in 1 .. 4} :
        o \in {o \in [1 .. 4 -> 0 .. 7] :
                o[1] = 0 /\ o[1] <= o[2] /\ o[2] < o[3] /\ o[3] < o[4]}}

\* No island, one island, two that touch (with and without one id), two that
\* overlap, an empty one; nothing unsafe, or one or two unsafe intervals.
MCIslands ==
    {{}, {Island(1, 0, 7)}, {Island(1, 1, 5)}, {Island(1, 0, 3), Island(2, 4, 7)},
     {Island(1, 0, 2), Island(1, 3, 7)}, {Island(1, 0, 4), Island(2, 4, 7)},
     {Island(1, 3, 2)}}
MCUnsafe == {{}, {Interval(4, 4)}, {Interval(0, 0), Interval(3, 3)}}

MCInputs ==
    [points : ThreePoints \cup FourPoints, islands : MCIslands, unsafe : MCUnsafe]

====

---------------------------- MODULE MCCompileCase ----------------------------
(***************************************************************************)
(* Small instances of CompileCase: two points, and one request for every   *)
(* way through the compiler.                                               *)
(***************************************************************************)
EXTENDS CompileCase

CONSTANTS p1, p2, t1

MCPoints == {p1, p2}
MCTargets == {t1}

Binding(supported, generated, ordered) ==
    [overridesSupported |-> supported, generated |-> generated, ordered |-> ordered]

GoodBinding == Binding(TRUE, MCPoints, MCPoints)
BadOverride == Binding(FALSE, MCPoints, MCPoints)
OneUnordered == Binding(TRUE, {p1}, {p1})
OneUngenerated == Binding(TRUE, {p1}, MCPoints)
MCBindings == {GoodBinding, BadOverride, OneUnordered, OneUngenerated}

Choose(included, suggested, excluded) ==
    [included |-> included, suggested |-> suggested, excluded |-> excluded,
     decided |-> {}]

\* A request for all points with targets and no binding, every point sound.
Base == [fromSource |-> TRUE, points |-> MCPoints,
         candidate |-> Choose(MCPoints, {}, {}), ambiguous |-> {},
         held |-> {}, covered |-> TRUE, targets |-> MCTargets,
         packable |-> TRUE, binding |-> None]

Suggesting == [Base EXCEPT !.candidate = Choose({}, {p1}, {p2})]

\* A selection that disposes of no point.
EmptySelection == [Base EXCEPT !.candidate = Choose({}, {}, {})]

MCRequests ==
    {Base, EmptySelection,
     Suggesting,
     [Suggesting EXCEPT !.held = {p1}],
     [Suggesting EXCEPT !.binding = GoodBinding],
     [Suggesting EXCEPT !.binding = BadOverride],
     [Suggesting EXCEPT !.targets = {}],
     [Base EXCEPT !.ambiguous = MCPoints, !.held = {p1},
                  !.candidate = Choose({p1}, {p2}, {})],
     [Base EXCEPT !.candidate = Choose({}, {}, MCPoints), !.targets = {}],
     [Base EXCEPT !.covered = FALSE],
     [Base EXCEPT !.packable = FALSE],
     [Base EXCEPT !.points = {}, !.candidate = Choose({}, {}, {})],
     [Base EXCEPT !.fromSource = FALSE, !.points = {}, !.candidate = Choose({}, {}, {})]}
====

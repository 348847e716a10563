----------------------------- MODULE ExportGate -----------------------------
(***************************************************************************)
(* exporters.py and tool_pack.py: from a map to a tool pack.  The planner  *)
(* makes a plan of a map; the plan is a file, and until a pack is built of *)
(* it anyone may edit it, or revise the map it was made of.  The gate does *)
(* not plan again: it takes the plan and the map as it finds them, and     *)
(* every client is held back unless the two justify each other.            *)
(*                                                                         *)
(* A hash stands for what it is taken of: two contents have one hash only  *)
(* if they are equal.                                                      *)
(***************************************************************************)
EXTENDS ExportTargets

CONSTANTS
    Cases,          \* the maps and planning options there may be at first
    ProtocolLimit,  \* FUNCTION_LIMITS, for the function of each scope
    FunctionOf,     \* READ_FUNCTION_BY_AREA, for the area of each scope
    Selections,     \* the clients an engineer may ask a pack for
    MaxChanges      \* bound: edits of the plan and revisions of the map

\* A hold names points, or no point in particular.  One on the meaning of a
\* value (datatype, byte_order) does not keep a point from being read.
HoldKinds == {"access", "meaning", "other"}

\* The points that the holds leave to be planned.
Plannable(m) ==
    LET stops == {h \in m.holds : h.kind # "meaning"}
    IN IF \E h \in stops : h.points = {} THEN {}
       ELSE {p \in m.points : \A h \in stops : p.id \notin h.points}
Arguments(case) ==
    [points |-> Plannable(case.map), islands |-> case.islands, unsafe |-> case.unsafe]

\* A map.  (The gate refuses one whose points share an id, POINT_ID_DUPLICATE.)
IsMap(m) ==
    /\ m \in [points : SUBSET Points, meaning : {m.meaning}, holds : {m.holds},
              pending : {m.pending}]
    /\ IsFiniteSet(m.points) /\ \A p, q \in m.points : p.id = q.id => p = q
    /\ \A p \in m.points : m.meaning[p.id] \in Meanings

ASSUME GateAssumption ==
    /\ Inputs = {Arguments(c) : c \in Cases}
    /\ \A c \in Cases : IsMap(c.map) /\ c.map # None
    /\ \A c \in Cases : [islands |-> c.islands, unsafe |-> c.unsafe, limits |-> Limit] # None
    /\ ProtocolLimit \in [Scopes -> Nat \ {0}] /\ FunctionOf \in [Scopes -> 1..4]
    /\ \A s \in Scopes : Limit[s] <= ProtocolLimit[s]
    /\ Selections \subseteq ((SUBSET Profiles) \ {{}}) /\ MaxChanges \in Nat

VARIABLES
    map,            \* the canonical map
    plan,           \* the plan file, or None
    changes,        \* edits and revisions made since the plan
    pack            \* the tool pack, or None
gateVars == <<vars, map, plan, changes, pack>>

-----------------------------------------------------------------------------
(* The plan file. *)

Trace(p, b) == [id |-> p.id, offset |-> p.offset, span |-> p.span,
                relative |-> p.offset - b.first]
\* The traces of a request are in plan order.
TracesOf(b) ==
    LET order[S \in SUBSET b.points] ==
            IF S = {} THEN <<>>
            ELSE LET p == CHOOSE p \in S : \A q \in S \ {p} : Before(p, q)
                 IN <<Trace(p, b)>> \o order[S \ {p}]
    IN order[b.points]
BlockFile(b, k) ==
    [id |-> k, scope |-> b.scope, function |-> FunctionOf[b.scope],
     first |-> b.first, last |-> b.last, traces |-> TracesOf(b),
     bridges |-> {[first |-> g[1], last |-> g[2], island |-> b.island] : g \in b.bridges},
     interval |-> 1000]
Options == [islands |-> given.islands, unsafe |-> given.unsafe, limits |-> Limit]
Sealed(p) == [p EXCEPT !.options_hash = p.options]

-----------------------------------------------------------------------------
(* preflight_common. *)

MapFindings(m, blocks, mode) ==
    Code(m.points = {}, "MAP_HAS_NO_POINTS")
    \cup Code(blocks = <<>>, "PLAN_HAS_NO_BLOCKS")
    \cup Code(mode = "final" /\ m.holds # {}, "MAP_HAS_BLOCKING_HOLD")
    \cup Code(\E h \in m.holds : h.kind = "access", "MAP_HAS_ACCESS_HOLD")

PointFindings(m, mode) ==
    UNION {LET v == m.meaning[p.id] IN
        Code(p.offset \notin 0..LastOffset, "POINT_ADDRESS_UNRESOLVED")
        \cup Code(~p.readable, "POINT_ACCESS_UNRESOLVED")
        \cup Code(mode = "final" /\ p.id \in m.pending, "POINT_NOT_CONFIRMED")
        \cup Code(mode = "final" /\ v.datatype = None, "POINT_DATATYPE_UNRESOLVED")
        \cup Code(mode = "final" /\ p.span \notin 1..125, "POINT_WIDTH_UNRESOLVED")
        \cup Code(mode = "final" /\ Many(m, p) /\ (v.layout = None \/ ~v.confirmed),
                  "POINT_BYTE_ORDER_UNRESOLVED")
        : p \in m.points}

Inside(p, b) == b.first <= p.offset /\ EndOf(p) <= b.last
PlannedIds(m, blocks) ==
    UNION {Listed(blocks[k]) \cup {p.id : p \in PointsFor(m, blocks[k])} : k \in DOMAIN blocks}
FormFindings(m, b) ==
    Code(b.function \notin 1..4, "UNSAFE_FUNCTION_CODE")
    \cup Code(b.function # FunctionOf[b.scope], "FUNCTION_AREA_MISMATCH")
    \cup Code(Quantity(b) < 1, "BLOCK_QUANTITY_INVALID")
    \cup Code(Quantity(b) > ProtocolLimit[b.scope], "BLOCK_LIMIT_EXCEEDED")
    \cup Code(b.last > LastOffset, "BLOCK_RANGE_EXCEEDED")
    \cup Code(~(Listed(b) \subseteq {p.id : p \in m.points}), "BLOCK_POINT_UNKNOWN")
    \cup Code(\E p \in m.points : p.id \in Listed(b) /\ p.scope # b.scope,
              "BLOCK_POINT_AREA_MISMATCH")
    \cup Code(\E p \in PointsFor(m, b) : ~Inside(p, b), "POINT_OUTSIDE_BLOCK")
BlockFindings(m, blocks, mode) ==
    (UNION {FormFindings(m, blocks[k]) : k \in DOMAIN blocks})
    \cup Code(\E j, k \in DOMAIN blocks : j # k /\ blocks[j].id = blocks[k].id,
              "BLOCK_ID_DUPLICATE")
    \cup Code(/\ mode = "final" /\ blocks # <<>>
              /\ \E p \in m.points : p.id \notin PlannedIds(m, blocks),
              "POINT_NOT_PLANNED")

\* The plan names the map it was made of; without the name it is not bound.
HashFindings(m, p, mode) ==
    Code(mode = "final" /\ p.map = None, "PLAN_MAP_HASH_MISSING")
    \cup Code(p.map # None /\ p.map # m, "PLAN_MAP_HASH_MISMATCH")
Bound(m, p) == p.map # None /\ p.map = m

\* _bound_plan_options: the options that are shown are those that were hashed.
NoOptions == [islands |-> {}, unsafe |-> {}, limits |-> ProtocolLimit]
Authority(p) == IF p.options = None THEN NoOptions ELSE p.options
OptionFindings(p) ==
    IF p.options = None THEN Code(p.options_hash # None, "PLAN_OPTIONS_MISSING")
    ELSE Code(p.options_hash = None, "PLAN_OPTIONS_HASH_MISSING")
         \cup Code(p.options_hash # None /\ p.options_hash # p.options,
                   "PLAN_OPTIONS_HASH_MISMATCH")

\* _validate_map_bound_plan: each request has one exact canonical purpose.
ExactPoints(m, b) == {p \in PointsFor(m, b) : p.scope = b.scope}
\* The registers between the points, as stretches that no point touches.
GapsOf(S) ==
    {g \in {<<EndOf(p) + 1, q.offset - 1>> : p, q \in S} :
        g[1] <= g[2] /\ \A r \in S : EndOf(r) < g[1] \/ g[2] < r.offset}

\* Faulty variant: an island vouches for what was declared unsafe.
IslandsOnly(b, options) ==
    {i \in options.islands : i.scope = b.scope /\ b.function = FunctionOf[i.scope]
        /\ i.first <= b.first /\ b.last <= i.last}
\* _authorized_readable_island: the whole request lies in it, and is safe.
IslandsFor(b, options) ==
    {i \in options.islands :
        /\ i.scope = b.scope /\ b.function = FunctionOf[i.scope]
        /\ i.first <= b.first /\ b.last <= i.last
        /\ \A u \in options.unsafe : u.scope = b.scope => ~Meets(b.first, b.last, u)}
ExpectedBridges(m, b, options) ==
    IF IslandsFor(b, options) = {} THEN {}
    ELSE {[first |-> g[1], last |-> g[2], island |-> TheOne(IslandsFor(b, options))]
            : g \in GapsOf(ExactPoints(m, b))}

PurposeFindings(m, b, options) ==
    LET mine == ExactPoints(m, b)
        traced(t) == {p \in m.points : p.id = t.id}
    IN Code(Quantity(b) > options.limits[b.scope], "BLOCK_QUANTITY_EXCEEDS_PLAN_OPTION")
       \cup Code(\E j, k \in DOMAIN b.traces : j # k /\ b.traces[j].id = b.traces[k].id,
                 "BLOCK_POINT_DUPLICATE")
       \cup IF mine = {} THEN {"BLOCK_UNJUSTIFIED"}
            ELSE Code(\/ \E p \in mine : ~Inside(p, b)
                      \/ \A p \in mine : p.offset # b.first
                      \/ \A p \in mine : EndOf(p) # b.last, "BLOCK_RANGE_NOT_EXACT")
                 \cup Code(GapsOf(mine) # {} /\ IslandsFor(b, options) = {},
                           "BLOCK_GAP_NOT_EVIDENCED")
                 \cup Code(b.bridges # ExpectedBridges(m, b, options),
                           "BLOCK_BRIDGE_TRACE_MISMATCH")
                 \cup Code(\E p \in m.points \ mine :
                                p.scope = b.scope /\ Meets(p.offset, EndOf(p), b),
                           "BLOCK_COVERS_UNREFERENCED_POINT")
                 \cup Code(\E k \in DOMAIN b.traces : \E p \in traced(b.traces[k]) :
                                b.traces[k] # Trace(p, b), "BLOCK_POINT_TRACE_MISMATCH")
PlanFindings(m, blocks, options) ==
    (UNION {PurposeFindings(m, blocks[k], options) : k \in DOMAIN blocks})
    \cup Code(\E j, k \in DOMAIN blocks : j # k /\ blocks[j].scope = blocks[k].scope
                /\ Meets(blocks[j].first, blocks[j].last, blocks[k]), "BLOCK_RANGE_OVERLAP")
    \cup Code(\E j, k \in DOMAIN blocks : j # k
                /\ ExactPoints(m, blocks[j]) \cap ExactPoints(m, blocks[k]) # {},
              "POINT_PLANNED_MULTIPLE_TIMES")

Preflight(m, p, mode) ==
    HashFindings(m, p, mode)
    \cup MapFindings(m, p.blocks, mode)
    \cup PointFindings(m, mode)
    \cup BlockFindings(m, p.blocks, mode)
    \cup IF ~Bound(m, p) THEN {}
         ELSE OptionFindings(p) \cup PlanFindings(m, p.blocks, Authority(p))

\* What an adapter returns: its files, or the reasons it is held for.
Result(profile, m, p, mode) ==
    LET common == Preflight(m, p, mode)
        blocks == {p.blocks[k] : k \in DOMAIN p.blocks}
        all == IF common # {} THEN common
               ELSE TargetFindings(profile, m, blocks, mode)
    IN IF all = {} THEN "generated" ELSE "held"

-----------------------------------------------------------------------------
GateInit ==
    /\ \E c \in Cases : map = c.map /\ given = Arguments(c)
    /\ phase = "called"
    /\ todo = {} /\ held = {} /\ current = None /\ requests = <<>>
    /\ plan = None /\ changes = 0 /\ pack = None

PlanStep == Next /\ UNCHANGED <<map, plan, changes, pack>>

\* The plan command writes what the planner returns, and what it was asked.
MakePlan ==
    /\ phase = "planned" /\ plan = None
    /\ plan' = [map |-> map, options |-> Options, options_hash |-> Options,
                blocks |-> [k \in DOMAIN requests |-> BlockFile(requests[k], k)]]
    /\ UNCHANGED <<vars, map, changes, pack>>

\* What an editor may make of a request, of the options, and of the plan.
BlockEdits(b) ==
    {[b EXCEPT !.first = @ + 1], [b EXCEPT !.last = @ + 1], [b EXCEPT !.last = @ - 1],
     [b EXCEPT !.function = 5], [b EXCEPT !.bridges = {}], [b EXCEPT !.interval = 500],
     [b EXCEPT !.traces = <<>>], [b EXCEPT !.traces = Tail(@)],
     [b EXCEPT !.traces = Append(@, @[1])], [b EXCEPT !.traces[1].offset = @ + 1],
     [b EXCEPT !.first = @ + 1, !.last = @ + 1,
               !.traces = [k \in DOMAIN @ |-> [@[k] EXCEPT !.offset = @ + 1]]]}
Bridged(p) ==
    UNION {{[scope |-> p.blocks[k].scope, first |-> g.first, last |-> g.first]
                : g \in p.blocks[k].bridges} : k \in DOMAIN p.blocks}
OptionEdits(p) ==
    {[p.options EXCEPT !.islands = {}], [p.options EXCEPT !.unsafe = {}],
     [p.options EXCEPT !.limits = ProtocolLimit]}
    \cup {[p.options EXCEPT !.unsafe = {u}] : u \in Bridged(p)}
BlockEdited(p) ==
    UNION {{[p EXCEPT !.blocks[k] = b] : b \in BlockEdits(p.blocks[k])}
            : k \in {k \in DOMAIN p.blocks : p.blocks[k].traces # <<>>}}
BlockDropped(p) ==
    {[p EXCEPT !.blocks = [j \in 1..Len(@) - 1 |-> @[IF j < k THEN j ELSE j + 1]]]
        : k \in DOMAIN p.blocks}
BlockDoubled(p) ==
    UNION {{[p EXCEPT !.blocks = Append(@, [@[k] EXCEPT !.id = n])]
            : n \in {1, Len(p.blocks) + 1}} : k \in DOMAIN p.blocks}
Unbound(p) ==
    {[p EXCEPT !.map = None], [p EXCEPT !.options = None],
     [p EXCEPT !.options = None, !.options_hash = None]}
OptionsEdited(p) ==
    UNION {{[p EXCEPT !.options = o], Sealed([p EXCEPT !.options = o])}
            : o \in IF p.options = None THEN {} ELSE OptionEdits(p)}
PlanEdits(p) ==
    BlockEdited(p) \cup BlockDropped(p) \cup BlockDoubled(p) \cup Unbound(p)
    \cup OptionsEdited(p)
EditPlan ==
    /\ plan # None /\ pack = None /\ changes < MaxChanges
    /\ \E p \in PlanEdits(plan) : p # plan /\ plan' = p
    /\ changes' = changes + 1
    /\ UNCHANGED <<vars, map, pack>>

\* A later version of the map: a point goes, moves, is wider, in doubt or held.
Revisions(m) ==
    {[m EXCEPT !.points = @ \ {p}] : p \in m.points}
    \cup {[m EXCEPT !.points = (@ \ {p}) \cup {[p EXCEPT !.offset = @ + 1]}] : p \in m.points}
    \cup {[m EXCEPT !.points = (@ \ {p}) \cup {[p EXCEPT !.readable = FALSE]}] : p \in m.points}
    \cup {[m EXCEPT !.pending = {p.id}] : p \in m.points}
    \cup {[m EXCEPT !.holds = {[points |-> {}, kind |-> k]}] : k \in HoldKinds}
ReviseMap ==
    /\ plan # None /\ pack = None /\ changes < MaxChanges
    /\ \E m \in Revisions(map) : m # map /\ map' = m
    /\ changes' = changes + 1
    /\ UNCHANGED <<vars, plan, pack>>

\* build_tool_pack: one result for each client, and what they come to.
BuildPack(selection, mode) ==
    /\ plan # None /\ pack = None
    /\ LET results == [t \in selection |-> Result(t, map, plan, mode)]
           outcomes == {results[t] : t \in selection}
       IN pack' = [mode |-> mode, results |-> results,
                   status |-> IF Cardinality(outcomes) = 1 THEN TheOne(outcomes)
                              ELSE "partial"]
    /\ UNCHANGED <<vars, map, plan, changes>>

GateNext ==
    \/ PlanStep \/ MakePlan \/ EditPlan \/ ReviseMap
    \/ \E selection \in Selections, mode \in {"probe", "final"} : BuildPack(selection, mode)

GateSpec == GateInit /\ [][GateNext]_gateVars

-----------------------------------------------------------------------------
(* What a pack may make its clients do. *)

Planned == {plan.blocks[k] : k \in DOMAIN plan.blocks}
Generated ==
    IF pack = None THEN {} ELSE {t \in DOMAIN pack.results : pack.results[t] = "generated"}
Within(p, o) == p.offset <= o /\ o <= EndOf(p)

\* A client that gets files for a plan that names its map reads no register
\* without a reason, however the plan and the map were edited in between: each
\* is a register of a point the request lists, or lies between two of them in
\* an island the plan shows with nothing unsafe in the request.  No register
\* is read twice, and no request is larger than the plan's own limit.
ReadsAreJustified ==
    Generated # {} /\ plan.map # None =>
        LET options == Authority(plan) IN
        /\ plan.map = map
        /\ \A b \in Planned :
            /\ Quantity(b) \in 1..ProtocolLimit[b.scope]
            /\ Quantity(b) <= options.limits[b.scope]
            /\ b.function = FunctionOf[b.scope]
            /\ \A o \in b.first..b.last :
                \/ \E p \in map.points :
                        p.scope = b.scope /\ Within(p, o) /\ p \in PointsFor(map, b)
                \/ \E i \in options.islands :
                        /\ i.scope = b.scope /\ i.first <= o /\ o <= i.last
                        /\ \A u \in options.unsafe :
                                u.scope = b.scope => ~Meets(b.first, b.last, u)
        /\ \A j, k \in DOMAIN plan.blocks :
            j # k /\ plan.blocks[j].scope = plan.blocks[k].scope =>
                plan.blocks[j].first..plan.blocks[j].last
                    \cap plan.blocks[k].first..plan.blocks[k].last = {}

\* A final client shows every point of the map, from the registers the map
\* gives it, in the type and layout the map gives it, and with its scale and
\* offset: none is left out and none is shown as something else.  (ModScan's
\* files set up reads and leave the display to its user.)  The command-line
\* clients are excepted for a point whose width is not that of its type, or
\* that is kept in bits and is no bool.  The validator reports such a point,
\* but neither the gate nor their own preflight looks at it again, and they
\* show it as its type has it; Node-RED and Witte are held for it.
ShownAsMeant ==
    pack # None /\ pack.mode = "final" =>
        \A t \in Generated \ {"modscan"} : \A p \in map.points :
            (t \in {"gavinying-cli", "proconx-cli"} => Fits(map, p)) =>
                \E b \in Planned :
                    b.scope = p.scope /\ Meant(map, p) \in Shown(t, map, b)

\* The gate and the planner agree: what the planner made of a map is refused
\* only for what the map itself leaves open.  (Points that share registers may
\* be split over two requests that overlap, which the gate refuses; two islands
\* of one id may be joined by the planner, and are two to the gate.)
Settled(m) == MapFindings(m, <<None>>, "final") = {} /\ PointFindings(m, "final") = {}
Apart(m) ==
    \A p, q \in m.points : p # q /\ p.scope = q.scope =>
        EndOf(p) < q.offset \/ EndOf(q) < p.offset
PlannedIsAccepted ==
    /\ plan # None /\ changes = 0 /\ Settled(map) /\ Apart(map) /\ held = {}
    /\ \A i, j \in given.islands : i.id = j.id => i = j
    => \A mode \in {"probe", "final"} : Preflight(map, plan, mode) = {}
=============================================================================

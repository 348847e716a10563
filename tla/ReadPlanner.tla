----------------------------- MODULE ReadPlanner -----------------------------
(***************************************************************************)
(* compile_read_plan: the points of a map become a plan of read requests.  *)
(* A point that cannot be read safely is held; the others are taken one by *)
(* one in plan order, and each joins the block being built or starts the   *)
(* next one.  Registers that no point asks for are read only inside a      *)
(* readable island the engineer has evidence for, and never inside an      *)
(* interval declared unsafe.                                               *)
(*                                                                         *)
(* A scope stands for a route, a unit, an area and the function code the   *)
(* area fixes, numbered in the order the code sorts them; island ids are   *)
(* numbered in theirs, and so are points with equal offsets (by their      *)
(* logical point id, then by their place in the map).                      *)
(***************************************************************************)
EXTENDS Integers, Sequences, FiniteSets

CONSTANTS
    Scopes,         \* the scopes a map may use
    Limit,          \* the largest quantity of one request, for each scope
    LastOffset,     \* the last protocol offset (65535)
    Inputs,         \* the arguments the planner may be called with
    None            \* Python's None

Points == [id : Nat, scope : Scopes, offset : Int, span : Nat, readable : BOOLEAN]
Islands == [id : Nat \ {0}, scope : Scopes, first : Nat, last : Nat]
Intervals == [scope : Scopes, first : Nat, last : Nat]

\* A request: its registers, the points it reads and the gaps it bridges.
BlockType ==
    [group : Scopes \X Nat, scope : Scopes, island : Islands \cup {None},
     first : 0 .. LastOffset, last : 0 .. LastOffset,
     points : SUBSET Points, bridges : SUBSET (Nat \X Nat)]

ASSUME ScopesAssumption == Scopes \subseteq Nat
ASSUME LimitAssumption == Limit \in [Scopes -> Nat \ {0}]
ASSUME OffsetAssumption == LastOffset \in Nat
ASSUME NoneAssumption == None \notin Islands /\ None \notin BlockType
ASSUME InputsAssumption ==
    \A in \in Inputs :
        /\ in.points \subseteq Points
        /\ in.islands \subseteq Islands
        /\ in.unsafe \subseteq Intervals
        /\ \A p, q \in in.points : p.id = q.id => p = q

VARIABLES
    given,          \* the arguments
    phase,          \* "called", "planning", "planned", or "rejected" (ValueError)
    todo,           \* grouped: planned points that are in no block yet
    held,           \* points that a finding keeps out of the plan
    current,        \* the block being built, or None
    requests        \* pending_requests: the blocks that are finished, in order

vars == <<given, phase, todo, held, current, requests>>

----------------------------------------------------------------------------
EndOf(p) == p.offset + p.span - 1
Meets(a, b, i) == a <= i.last /\ i.first <= b

\* Islands and intervals must not be empty, and islands must not overlap.
Valid(in) ==
    /\ \A i \in in.islands \cup in.unsafe : i.first <= i.last
    /\ \A i, j \in in.islands :
        i # j /\ i.scope = j.scope => ~Meets(i.first, i.last, j)

GapIsSafe(scope, a, b) ==
    a <= b => \A u \in given.unsafe : u.scope = scope => ~Meets(a, b, u)

\* Write-only, unresolved or claimed by another function code (readable is
\* FALSE), without a width, too wide, beyond the last offset, or unsafe.
Unplannable(p) ==
    \/ ~p.readable
    \/ p.offset \notin 0 .. LastOffset
    \/ p.span \notin 1 .. Limit[p.scope]
    \/ EndOf(p) > LastOffset
    \/ ~GapIsSafe(p.scope, p.offset, EndOf(p))

IslandsOf(p) ==
    {i \in given.islands :
        i.scope = p.scope /\ i.first <= p.offset /\ EndOf(p) <= i.last}
\* Islands of one scope do not overlap: at most one holds the point.
TheOne(S) == CHOOSE i \in S : TRUE
IslandOf(p) == IF IslandsOf(p) = {} THEN None ELSE TheOne(IslandsOf(p))
GroupOf(p) == <<p.scope, IF IslandOf(p) = None THEN 0 ELSE IslandOf(p).id>>

\* Plan order: by scope, island id, offset and point id.
Before(p, q) ==
    LET g == GroupOf(p)
        h == GroupOf(q)
    IN  \/ g[1] < h[1]
        \/ g[1] = h[1] /\ g[2] < h[2]
        \/ g = h /\ p.offset < q.offset
        \/ g = h /\ p.offset = q.offset /\ p.id < q.id

IsNext(p) == p \in todo /\ \A q \in todo \ {p} : Before(p, q)

\* A block of one point.
BlockOf(p) ==
    [group |-> GroupOf(p), scope |-> p.scope, island |-> IslandOf(p),
     first |-> p.offset, last |-> EndOf(p), points |-> {p}, bridges |-> {}]

Larger(a, b) == IF a > b THEN a ELSE b

\* Faulty variant: an island is enough, whatever was declared unsafe.
CanBridgeUnsafe(p) ==
    \/ p.offset <= current.last + 1
    \/ current.island # None /\ IslandOf(p) = current.island

\* Faulty variant: a gap of one register needs no evidence.
CanBridgeOne(p) ==
    \/ p.offset <= current.last + 2 /\ GapIsSafe(p.scope, current.last + 1, p.offset - 1)
    \/ /\ current.island # None
       /\ IslandOf(p) = current.island
       /\ GapIsSafe(p.scope, current.last + 1, p.offset - 1)

\* Faulty variant: no gap is bridged.
CanBridgeNever(p) == p.offset <= current.last + 1

\* The registers between the block and the next point may be read.
CanBridge(p) ==
    \/ p.offset <= current.last + 1
    \/ /\ current.island # None
       /\ IslandOf(p) = current.island
       /\ GapIsSafe(p.scope, current.last + 1, p.offset - 1)

CanJoin(p) ==
    /\ GroupOf(p) = current.group
    /\ CanBridge(p)
    /\ Larger(current.last, EndOf(p)) - current.first + 1 <= Limit[p.scope]

----------------------------------------------------------------------------
Init ==
    /\ given \in Inputs
    /\ phase = "called"
    /\ todo = {} /\ held = {} /\ current = None /\ requests = <<>>

Reject ==
    /\ phase = "called" /\ ~Valid(given)
    /\ phase' = "rejected"
    /\ UNCHANGED <<given, todo, held, current, requests>>

Group ==
    /\ phase = "called" /\ Valid(given)
    /\ phase' = "planning"
    /\ held' = {p \in given.points : Unplannable(p)}
    /\ todo' = given.points \ held'
    /\ UNCHANGED <<given, current, requests>>

Open(p) ==
    /\ phase = "planning" /\ current = None /\ IsNext(p)
    /\ current' = BlockOf(p)
    /\ todo' = todo \ {p}
    /\ UNCHANGED <<given, phase, held, requests>>

\* Faulty variant: the block ends where its last point ends.
JoinToLast(p) ==
    /\ phase = "planning" /\ current # None /\ IsNext(p) /\ CanJoin(p)
    /\ current' = [current EXCEPT !.last = EndOf(p), !.points = @ \cup {p}]
    /\ todo' = todo \ {p}
    /\ UNCHANGED <<given, phase, held, requests>>

Join(p) ==
    /\ phase = "planning" /\ current # None /\ IsNext(p) /\ CanJoin(p)
    /\ current' = [current EXCEPT
            !.last = Larger(current.last, EndOf(p)),
            !.points = @ \cup {p},
            !.bridges = IF p.offset <= current.last + 1 THEN @
                        ELSE @ \cup {<<current.last + 1, p.offset - 1>>}]
    /\ todo' = todo \ {p}
    /\ UNCHANGED <<given, phase, held, requests>>

\* The point does not fit, or belongs to the next group.
Split(p) ==
    /\ phase = "planning" /\ current # None /\ IsNext(p) /\ ~CanJoin(p)
    /\ requests' = Append(requests, current)
    /\ current' = BlockOf(p)
    /\ todo' = todo \ {p}
    /\ UNCHANGED <<given, phase, held>>

Finish ==
    /\ phase = "planning" /\ todo = {}
    /\ phase' = "planned"
    /\ requests' = IF current = None THEN requests ELSE Append(requests, current)
    /\ current' = None
    /\ UNCHANGED <<given, todo, held>>

Next ==
    \/ Reject \/ Group \/ Finish
    \/ \E p \in todo : Open(p) \/ Join(p) \/ Split(p)

Spec == Init /\ [][Next]_vars

----------------------------------------------------------------------------
(* What the plan may ask of the devices. *)

Requests == {requests[i] : i \in DOMAIN requests}
Blocks == Requests \cup (IF current = None THEN {} ELSE {current})

TypeOK ==
    /\ given \in Inputs
    /\ phase \in {"called", "planning", "planned", "rejected"}
    /\ todo \subseteq given.points /\ held \subseteq given.points
    /\ current \in BlockType \cup {None}
    /\ requests \in Seq(BlockType)

\* No request asks for more than a device answers, or for nothing.
WithinLimit ==
    \A b \in Blocks : b.last - b.first + 1 \in 1 .. Limit[b.scope]

\* No request touches an offset that was declared unsafe for its scope: not
\* through a point, and not through a gap that two points bridge.
NeverUnsafe ==
    \A b \in Blocks : \A u \in given.unsafe :
        u.scope = b.scope => ~Meets(b.first, b.last, u)

\* Every register a request reads was asked for by a point of that request or
\* lies in a gap that is declared as bridged, inside the island the request
\* names: nothing is read without a point or evidence.
Authorised ==
    \A b \in Blocks : \A o \in b.first .. b.last :
        \/ \E p \in b.points : p.offset <= o /\ o <= EndOf(p)
        \/ /\ b.island # None /\ b.island.scope = b.scope
           /\ b.island.first <= o /\ o <= b.island.last
           /\ \E g \in b.bridges : g[1] <= o /\ o <= g[2]

\* A finished plan loses no point and reads none twice: every point is either
\* held or in exactly one request, which covers all its registers.
PlannedOnce ==
    phase = "planned" =>
        \A p \in given.points :
            LET mine == {i \in DOMAIN requests : p \in requests[i].points} IN
            IF Unplannable(p) THEN mine = {}
            ELSE \E i \in DOMAIN requests :
                    /\ mine = {i}
                    /\ requests[i].first <= p.offset /\ EndOf(p) <= requests[i].last

\* What one request may read: the reference the plan is compared with.
Readable(S) ==
    \E f, l \in S :
        LET first == f.offset
            last == EndOf(l)
        IN  /\ \A p \in S : first <= p.offset /\ EndOf(p) <= last
            /\ \A p \in S : GroupOf(p) = GroupOf(f)
            /\ last - first + 1 <= Limit[f.scope]
            /\ \A o \in first .. last :
                \/ \E p \in S : p.offset <= o /\ o <= EndOf(p)
                \/ /\ IslandOf(f) # None
                   /\ IslandOf(f).first <= o /\ o <= IslandOf(f).last
                   /\ GapIsSafe(f.scope, o, o)

\* The plan makes the fewest requests there can be: no way to share the planned
\* points out among fewer requests is readable.  (Two islands with one id share
\* a group, and the planner does not bridge from one into the other.)
FewestRequests ==
    /\ phase = "planned" /\ requests # <<>>
    /\ \A i, j \in given.islands : i.id = j.id => i = j
    =>
        LET planned == given.points \ held
            fewer == 1 .. Len(requests) - 1
        IN  \A share \in [planned -> fewer] :
                \E k \in fewer :
                    LET S == {p \in planned : share[p] = k} IN S # {} /\ ~Readable(S)

====

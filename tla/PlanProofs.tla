----------------------------- MODULE PlanProofs -----------------------------
(***************************************************************************)
(* The plan is safe for every map: any points, scopes, limits, readable    *)
(* islands and unsafe intervals.  IInv is the inductive invariant: every   *)
(* block, finished or being built, is Sound by itself; the points still to *)
(* be taken lie at or after the start of the block being built; and the    *)
(* points of the map are divided between held, todo and the blocks.        *)
(***************************************************************************)
EXTENDS ExportGate, TLAPS, FiniteSetTheorems, SequenceTheorems, WellFoundedInduction

\* All that the properties say of one block, and the place of its island,
\* which the next gap is measured against.
Sound(b) ==
    /\ b \in BlockType
    /\ b.points \subseteq given.points
    /\ b.group[1] = b.scope
    /\ b.first <= b.last
    /\ b.last - b.first + 1 <= Limit[b.scope]
    /\ GapIsSafe(b.scope, b.first, b.last)
    /\ \A p \in b.points : ~Unplannable(p) /\ b.first <= p.offset /\ EndOf(p) <= b.last
    /\ b.island # None =>
        /\ b.island \in given.islands /\ b.island.scope = b.scope
        /\ b.island.first <= b.first
    /\ \A o \in b.first .. b.last :
        \/ \E p \in b.points : p.offset <= o /\ o <= EndOf(p)
        \/ /\ b.island # None
           /\ b.island.first <= o /\ o <= b.island.last
           /\ \E g \in b.bridges : g[1] <= o /\ o <= g[2]

Typed ==
    /\ given \in Inputs
    /\ phase \in {"called", "planning", "planned", "rejected"}
    /\ todo \subseteq given.points /\ held \subseteq given.points
    /\ requests \in Seq(BlockType)

BlocksSound ==
    /\ current # None => Sound(current)
    /\ \A i \in DOMAIN requests : Sound(requests[i])

TodoAhead ==
    \A p \in todo :
        /\ ~Unplannable(p)
        /\ current # None /\ GroupOf(p) = current.group => current.first <= p.offset

Divided ==
    /\ \A i \in DOMAIN requests :
        /\ requests[i].points \cap todo = {}
        /\ current # None => requests[i].points \cap current.points = {}
        /\ \A j \in DOMAIN requests : requests[i].points \cap requests[j].points # {} => i = j
    /\ current # None => current.points \cap todo = {}

Complete ==
    phase \in {"planning", "planned"} =>
        \A p \in given.points :
            \/ Unplannable(p) \/ p \in todo
            \/ current # None /\ p \in current.points
            \/ \E i \in DOMAIN requests : p \in requests[i].points

Ended == phase = "planned" => todo = {} /\ current = None
Idle == phase = "called" => current = None /\ requests = <<>>
Admitted == phase = "planning" => Valid(given)

IInv == Typed /\ BlocksSound /\ TodoAhead /\ Divided /\ Complete /\ Ended /\ Idle /\ Admitted

----------------------------------------------------------------------------
(* Lemmas about the operators of the planner. *)

\* A point of the arguments has a group, and its island holds all of it.
LEMMA PointFacts ==
    ASSUME given \in Inputs, NEW p \in given.points
    PROVE  /\ p \in Points
           /\ GroupOf(p) \in Scopes \X Nat
           /\ GroupOf(p)[1] = p.scope
           /\ IslandOf(p) \in Islands \cup {None}
           /\ IslandOf(p) # None =>
                /\ IslandOf(p) \in given.islands /\ IslandOf(p).scope = p.scope
                /\ IslandOf(p).first <= p.offset /\ EndOf(p) <= IslandOf(p).last
<1>1. p \in Points /\ given.islands \subseteq Islands
  BY InputsAssumption
<1>2. IslandOf(p) # None => IslandOf(p) \in IslandsOf(p)
  BY DEF IslandOf, TheOne
<1>3. IslandOf(p) # None =>
        /\ IslandOf(p) \in given.islands /\ IslandOf(p).scope = p.scope
        /\ IslandOf(p).first <= p.offset /\ EndOf(p) <= IslandOf(p).last
  BY <1>2 DEF IslandsOf
<1>4. IslandOf(p) \in Islands \cup {None}
  BY <1>1, <1>3
<1>5. IslandOf(p) # None => IslandOf(p).id \in Nat
  BY <1>4 DEF Islands
<1> QED
  BY <1>1, <1>3, <1>4, <1>5 DEF GroupOf, Points

\* What a plannable point is like.
LEMMA PlannableFacts ==
    ASSUME given \in Inputs, NEW p \in given.points, ~Unplannable(p)
    PROVE  /\ p.offset \in 0 .. LastOffset /\ EndOf(p) \in 0 .. LastOffset
           /\ p.offset <= EndOf(p)
           /\ EndOf(p) - p.offset + 1 <= Limit[p.scope]
           /\ GapIsSafe(p.scope, p.offset, EndOf(p))
<1>1. p \in Points
  BY PointFacts
<1>2. p.offset \in Int /\ p.span \in Nat /\ p.scope \in Scopes
  BY <1>1 DEF Points
<1>3. Limit[p.scope] \in Nat \ {0}
  BY <1>2, LimitAssumption
<1> QED
  BY <1>2, <1>3, OffsetAssumption DEF Unplannable, EndOf

\* A block of one plannable point is sound.
LEMMA BlockOfSound ==
    ASSUME given \in Inputs, NEW p \in given.points, ~Unplannable(p)
    PROVE  Sound(BlockOf(p))
<1> DEFINE b == BlockOf(p)
<1>1. /\ b.group = GroupOf(p) /\ b.scope = p.scope /\ b.island = IslandOf(p)
      /\ b.first = p.offset /\ b.last = EndOf(p)
      /\ b.points = {p} /\ b.bridges = {}
  BY DEF BlockOf
<1>2. p \in Points /\ p.scope \in Scopes
  BY PointFacts DEF Points
<1>3. b \in BlockType
  BY <1>2, PointFacts, PlannableFacts DEF BlockOf, BlockType
<1>4. \A o \in b.first .. b.last : \E q \in b.points : q.offset <= o /\ o <= EndOf(q)
  BY <1>1, PlannableFacts, OffsetAssumption
<1> QED
  BY <1>1, <1>3, <1>4, PointFacts, PlannableFacts DEF Sound

\* The block that Join makes of the block being built.
Joined(p) ==
    [current EXCEPT
        !.last = Larger(current.last, EndOf(p)),
        !.points = @ \cup {p},
        !.bridges = IF p.offset <= current.last + 1 THEN @
                    ELSE @ \cup {<<current.last + 1, p.offset - 1>>}]

\* A sound block stays sound when a plannable point joins it that does not lie
\* before it.  The new registers are those of the point, which is safe, and
\* those of a bridged gap, which lie between two ends of one island.
LEMMA JoinSound ==
    ASSUME given \in Inputs, Valid(given), NEW p \in given.points, ~Unplannable(p),
           current # None, Sound(current), current.first <= p.offset, CanJoin(p)
    PROVE  Sound(Joined(p))
<1> DEFINE c == current
           b == Joined(p)
           e == EndOf(p)
<1>1. /\ b.group = c.group /\ b.scope = c.scope /\ b.island = c.island /\ b.first = c.first
      /\ b.last = Larger(c.last, e) /\ b.points = c.points \cup {p}
      /\ b.bridges = IF p.offset <= c.last + 1 THEN c.bridges
                     ELSE c.bridges \cup {<<c.last + 1, p.offset - 1>>}
  BY DEF Sound, BlockType, Joined
<1>2. /\ c \in BlockType /\ p \in Points
      /\ c.first \in Nat /\ c.last \in 0 .. LastOffset /\ c.first <= c.last
      /\ p.offset \in 0 .. LastOffset /\ e \in 0 .. LastOffset /\ p.offset <= e
      /\ LastOffset \in Nat
  BY PointFacts, PlannableFacts, OffsetAssumption DEF Sound, BlockType
<1>3. p.scope = c.scope
  BY PointFacts DEF CanJoin, Sound
<1>4. /\ b.last \in 0 .. LastOffset /\ c.last <= b.last /\ e <= b.last /\ b.first <= b.last
      /\ b.last = c.last \/ b.last = e
      /\ b.last - b.first + 1 <= Limit[b.scope]
  BY <1>1, <1>2, <1>3 DEF Larger, CanJoin
<1>5. b.bridges \in SUBSET (Nat \X Nat)
  <2>1. c.bridges \in SUBSET (Nat \X Nat)
    BY <1>2 DEF BlockType
  <2>2. p.offset > c.last + 1 => <<c.last + 1, p.offset - 1>> \in Nat \X Nat
    BY <1>2
  <2> QED
    BY <1>1, <1>2, <2>1, <2>2
<1>6. b \in BlockType
  BY <1>1, <1>2, <1>4, <1>5 DEF BlockType, Joined
<1>7. p.offset <= c.last + 1 \/ GapIsSafe(c.scope, c.last + 1, p.offset - 1)
  BY <1>3 DEF CanJoin, CanBridge
<1>8. GapIsSafe(b.scope, b.first, b.last)
  <2>1. SUFFICES ASSUME NEW u \in given.unsafe, u.scope = c.scope
                 PROVE  ~Meets(c.first, b.last, u)
    BY <1>1 DEF GapIsSafe
  <2>2. u.first \in Nat /\ u.last \in Nat /\ u.first <= u.last
    BY InputsAssumption DEF Intervals, Valid
  <2>3. ~Meets(c.first, c.last, u)
    BY <1>2, <2>1 DEF Sound, GapIsSafe
  <2>4. ~Meets(p.offset, e, u)
    BY <1>2, <1>3, <2>1, PlannableFacts DEF GapIsSafe
  <2>5. p.offset > c.last + 1 => ~Meets(c.last + 1, p.offset - 1, u)
    BY <1>2, <1>7, <2>1 DEF GapIsSafe
  <2> QED
    BY <1>2, <1>4, <2>2, <2>3, <2>4, <2>5 DEF Meets
<1>9. \A q \in b.points : ~Unplannable(q) /\ b.first <= q.offset /\ EndOf(q) <= b.last
  <2>1. \A q \in c.points : EndOf(q) \in Int
    BY InputsAssumption DEF Sound, EndOf, Points
  <2> QED
    BY <1>1, <1>2, <1>4, <2>1 DEF Sound
<1>10. b.island # None =>
        b.island \in given.islands /\ b.island.scope = b.scope /\ b.island.first <= b.first
  BY <1>1 DEF Sound
<1>11. ASSUME NEW o \in b.first .. b.last
       PROVE  \/ \E q \in b.points : q.offset <= o /\ o <= EndOf(q)
              \/ /\ b.island # None
                 /\ b.island.first <= o /\ o <= b.island.last
                 /\ \E g \in b.bridges : g[1] <= o /\ o <= g[2]
  <2>0. o \in Int /\ b.first <= o /\ o <= b.last
    BY <1>1, <1>2, <1>4
  <2>1. CASE o <= c.last
    <3>1. o \in c.first .. c.last
      BY <1>1, <1>2, <2>0, <2>1
    <3>2. c.points \subseteq b.points /\ c.bridges \subseteq b.bridges
      BY <1>1
    <3> QED
      BY <1>1, <3>1, <3>2 DEF Sound
  <2>2. CASE p.offset <= o /\ c.last < o
    BY <1>1, <1>2, <1>4, <2>0, <2>2
  <2>3. CASE c.last < o /\ o < p.offset
    <3>1. p.offset > c.last + 1
      BY <1>2, <2>0, <2>3
    <3>2. c.island # None /\ IslandOf(p) = c.island
      BY <1>2, <3>1 DEF CanJoin, CanBridge
    <3>3. c.island.first \in Nat /\ c.island.last \in Nat
      BY <1>2, <3>2 DEF BlockType, Islands
    <3>4. c.island.first <= c.first /\ e <= c.island.last
      BY <3>2, PointFacts DEF Sound
    <3>5. <<c.last + 1, p.offset - 1>> \in b.bridges
      BY <1>1, <1>2, <3>1
    <3>6. b.island # None /\ b.island.first <= o /\ o <= b.island.last
      BY <1>1, <1>2, <2>0, <2>3, <3>2, <3>3, <3>4
    <3> QED
      BY <1>2, <2>0, <2>3, <3>5, <3>6
  <2> QED
    BY <1>2, <2>0, <2>1, <2>2, <2>3
<1>12. b.points \subseteq given.points /\ b.group[1] = b.scope
  BY <1>1 DEF Sound
<1> QED
  BY <1>4, <1>6, <1>8, <1>9, <1>10, <1>11, <1>12 DEF Sound

----------------------------------------------------------------------------
(* IInv is inductive. *)

LEMMA InitIInv == Init => IInv
<1> SUFFICES ASSUME Init PROVE IInv
  OBVIOUS
<1>1. <<>> \in Seq(BlockType) /\ DOMAIN <<>> = {}
  OBVIOUS
<1> QED
  BY <1>1 DEF Init, IInv, Typed, BlocksSound, TodoAhead, Divided, Complete, Ended, Idle, Admitted

\* A step that keeps the arguments keeps what they say of blocks and points.
LEMMA SameArguments ==
    ASSUME given' = given
    PROVE  /\ \A b : Sound(b)' <=> Sound(b)
           /\ \A p : Unplannable(p)' <=> Unplannable(p)
           /\ \A p : GroupOf(p)' = GroupOf(p)
<1>1. \A s, a, b : GapIsSafe(s, a, b)' <=> GapIsSafe(s, a, b)
  BY DEF GapIsSafe
<1>2. \A p : Unplannable(p)' <=> Unplannable(p)
  BY <1>1 DEF Unplannable
<1>3. \A p : IslandsOf(p)' = IslandsOf(p)
  BY DEF IslandsOf
<1>4. \A p : IslandOf(p)' = IslandOf(p)
  BY <1>3 DEF IslandOf
<1>5. \A p : GroupOf(p)' = GroupOf(p)
  BY <1>4 DEF GroupOf
<1>6. \A b : Sound(b)' <=> Sound(b)
  BY <1>1, <1>2 DEF Sound
<1> QED
  BY <1>2, <1>5, <1>6

\* The next point does not lie after another point of its group.
LEMMA NextIsFirst ==
    ASSUME given \in Inputs, todo \subseteq given.points, NEW p \in todo, IsNext(p)
    PROVE  \A q \in todo : GroupOf(q) = GroupOf(p) => p.offset <= q.offset
<1> SUFFICES ASSUME NEW q \in todo, GroupOf(q) = GroupOf(p)
             PROVE  p.offset <= q.offset
  OBVIOUS
<1>1. p.offset \in Int /\ q.offset \in Int
  BY PointFacts DEF Points
<1>2. GroupOf(p)[1] \in Nat /\ GroupOf(p)[2] \in Nat
  BY PointFacts, ScopesAssumption
<1> QED
  BY <1>1, <1>2 DEF IsNext, Before

\* Taking the next point puts every other point of its group after it.
LEMMA NextInv == IInv /\ [Next]_vars => IInv'
<1> SUFFICES ASSUME IInv, [Next]_vars PROVE IInv'
  OBVIOUS
<1> USE DEF IInv
<1>1. CASE UNCHANGED vars
  <2>1. given' = given
    BY <1>1 DEF vars
  <2> QED
    BY <1>1, <2>1, SameArguments DEF vars, Typed, BlocksSound, TodoAhead, Divided, Complete,
       Ended, Idle, Admitted
<1>2. CASE Reject
  <2>1. given' = given
    BY <1>2 DEF Reject
  <2> QED
    BY <1>2, <2>1, SameArguments DEF Reject, Typed, BlocksSound, TodoAhead, Divided, Complete,
       Ended, Idle, Admitted
<1>3. CASE Group
  <2>1. given' = given /\ current' = None /\ requests' = <<>> /\ phase' = "planning" /\ Valid(given)
    BY <1>3 DEF Group, Idle
  <2>2. /\ held' = {p \in given.points : Unplannable(p)}
        /\ todo' = {p \in given.points : ~Unplannable(p)}
    BY <1>3 DEF Group
  <2>3. Typed'
    BY <2>1, <2>2 DEF Typed
  <2>4. BlocksSound' /\ Divided'
    BY <2>1 DEF BlocksSound, Divided
  <2>5. TodoAhead' /\ Complete'
    BY <2>1, <2>2, SameArguments DEF TodoAhead, Complete
  <2>6. Ended' /\ Idle' /\ Admitted'
    BY <2>1 DEF Ended, Idle, Admitted, Valid, Meets
  <2> QED
    BY <2>3, <2>4, <2>5, <2>6
<1>4. ASSUME NEW p \in todo, Open(p) PROVE IInv'
  <2>1. /\ given' = given /\ phase' = phase /\ phase = "planning" /\ held' = held
        /\ requests' = requests /\ todo' = todo \ {p} /\ current = None
        /\ current' = BlockOf(p) /\ IsNext(p)
    BY <1>4 DEF Open
  <2>2. p \in given.points /\ ~Unplannable(p) /\ given \in Inputs
    BY DEF Typed, TodoAhead
  <2>3. Sound(BlockOf(p))
    BY <2>2, BlockOfSound
  <2>4. BlocksSound'
    BY <2>1, <2>3, SameArguments DEF BlocksSound
  <2>5. TodoAhead'
    BY <2>1, <2>2, SameArguments, NextIsFirst DEF TodoAhead, BlockOf, Typed
  <2>6. Divided'
    <3>1. BlockOf(p).points = {p}
      BY DEF BlockOf
    <3> QED
      BY <2>1, <3>1 DEF Divided
  <2>9. Complete'
    <3>1. BlockOf(p).points = {p} /\ BlockOf(p) = current' /\ current' # None
      BY <2>1, <2>3, NoneAssumption DEF BlockOf, Sound
    <3> QED
      BY <2>1, <3>1, SameArguments DEF Complete
  <2>7. Typed' /\ Ended' /\ Idle'
    BY <2>1 DEF Typed, Ended, Idle
  <2>8. Admitted'
    BY <2>1 DEF Admitted, Valid, Meets
  <2> QED
    BY <2>4, <2>5, <2>6, <2>7, <2>8, <2>9
<1>5. ASSUME NEW p \in todo, Join(p) PROVE IInv'
  <2>1. /\ given' = given /\ phase' = phase /\ phase = "planning" /\ held' = held
        /\ requests' = requests /\ todo' = todo \ {p} /\ current # None
        /\ current' = Joined(p) /\ IsNext(p) /\ CanJoin(p)
    BY <1>5 DEF Join, Joined
  <2>2. p \in given.points /\ ~Unplannable(p) /\ given \in Inputs /\ Valid(given)
    BY <2>1 DEF Typed, TodoAhead, Admitted
  <2>3. Sound(current) /\ current.first <= p.offset
    BY <2>1 DEF BlocksSound, TodoAhead, CanJoin
  <2>4. Sound(Joined(p))
    BY <2>1, <2>2, <2>3, JoinSound
  <2>5. /\ Joined(p).points = current.points \cup {p} /\ Joined(p).first = current.first
        /\ Joined(p).group = current.group
    BY <2>3 DEF Joined, Sound, BlockType
  <2>6. BlocksSound'
    BY <2>1, <2>4, SameArguments DEF BlocksSound
  <2>7. TodoAhead'
    BY <2>1, <2>5, SameArguments DEF TodoAhead
  <2>8. Divided'
    BY <2>1, <2>5 DEF Divided
  <2>11. Complete'
    BY <2>1, <2>4, <2>5, SameArguments, NoneAssumption DEF Complete, Sound
  <2>9. Typed' /\ Ended' /\ Idle'
    BY <2>1 DEF Typed, Ended, Idle
  <2>10. Admitted'
    BY <2>1 DEF Admitted, Valid, Meets
  <2> QED
    BY <2>6, <2>7, <2>8, <2>9, <2>10, <2>11
<1>6. ASSUME NEW p \in todo, Split(p) PROVE IInv'
  <2>1. /\ given' = given /\ phase' = phase /\ phase = "planning" /\ held' = held
        /\ requests' = Append(requests, current) /\ todo' = todo \ {p} /\ current # None
        /\ current' = BlockOf(p) /\ IsNext(p)
    BY <1>6 DEF Split
  <2>2. p \in given.points /\ ~Unplannable(p) /\ given \in Inputs
    BY DEF Typed, TodoAhead
  <2>3. Sound(BlockOf(p)) /\ Sound(current)
    BY <2>1, <2>2, BlockOfSound DEF BlocksSound
  <2>4. current \in BlockType /\ requests \in Seq(BlockType)
    BY <2>3 DEF Sound, Typed
  <2>5. /\ requests' \in Seq(BlockType)
        /\ DOMAIN requests' = DOMAIN requests \cup {Len(requests) + 1}
        /\ Len(requests) + 1 \notin DOMAIN requests
        /\ \A i \in DOMAIN requests : requests'[i] = requests[i]
        /\ requests'[Len(requests) + 1] = current
    BY <2>1, <2>4
  <2>6. BlocksSound'
    BY <2>1, <2>3, <2>5, SameArguments DEF BlocksSound
  <2>7. TodoAhead'
    BY <2>1, <2>2, SameArguments, NextIsFirst DEF TodoAhead, BlockOf, Typed
  <2>8. BlockOf(p).points = {p} /\ BlockOf(p) = current'
    BY <2>1 DEF BlockOf
  <2>9. Divided'
    BY <2>1, <2>5, <2>8 DEF Divided
  <2>10. Complete'
    BY <2>1, <2>3, <2>5, <2>8, SameArguments, NoneAssumption DEF Complete, Sound
  <2>11. Typed' /\ Ended' /\ Idle'
    BY <2>1, <2>5 DEF Typed, Ended, Idle
  <2>12. Admitted'
    BY <2>1 DEF Admitted, Valid, Meets
  <2> QED
    BY <2>6, <2>7, <2>9, <2>10, <2>11, <2>12
<1>7. CASE Finish
  <2>1. /\ given' = given /\ phase' = "planned" /\ phase = "planning" /\ held' = held
        /\ todo' = todo /\ todo = {} /\ current' = None
        /\ requests' = IF current = None THEN requests ELSE Append(requests, current)
    BY <1>7 DEF Finish
  <2>2. CASE current = None
    BY <2>1, <2>2, SameArguments DEF Typed, BlocksSound, TodoAhead, Divided, Complete,
       Ended, Idle, Admitted
  <2>3. CASE current # None
    <3>1. Sound(current) /\ current \in BlockType /\ requests \in Seq(BlockType)
      BY <2>3 DEF BlocksSound, Sound, Typed
    <3>2. /\ requests' \in Seq(BlockType)
          /\ DOMAIN requests' = DOMAIN requests \cup {Len(requests) + 1}
          /\ \A i \in DOMAIN requests : requests'[i] = requests[i]
          /\ requests'[Len(requests) + 1] = current
      BY <2>1, <2>3, <3>1
    <3>3. BlocksSound'
      BY <2>1, <3>1, <3>2, SameArguments DEF BlocksSound
    <3>4. Divided'
      BY <2>1, <2>3, <3>2 DEF Divided
    <3>5. Complete'
      BY <2>1, <2>3, <3>2, SameArguments DEF Complete
    <3> QED
      BY <2>1, <3>2, <3>3, <3>4, <3>5 DEF Typed, TodoAhead, Ended, Idle, Admitted
  <2> QED
    BY <2>2, <2>3
<1> QED
  BY <1>1, <1>2, <1>3, <1>4, <1>5, <1>6, <1>7 DEF Next

----------------------------------------------------------------------------
(* The theorems. *)

\* The invariant holds in every reachable state.
THEOREM Invariance == Spec => []IInv
  BY InitIInv, NextInv, PTL DEF Spec

LEMMA BlocksAreSound == IInv => \A b \in Blocks : Sound(b)
  BY DEF IInv, BlocksSound, Blocks, Requests

\* Every variable keeps its type, for every map.
THEOREM TypeCorrect == Spec => []TypeOK
<1>1. IInv => TypeOK
  BY DEF IInv, Typed, BlocksSound, Sound, TypeOK
<1> QED
  BY <1>1, Invariance, PTL

\* No request asks for more than the limit of its scope.
THEOREM WithinLimitAlways == Spec => []WithinLimit
<1>1. IInv => WithinLimit
  <2> SUFFICES ASSUME IInv, NEW b \in Blocks
               PROVE  b.last - b.first + 1 \in 1 .. Limit[b.scope]
    BY DEF WithinLimit
  <2>1. Sound(b)
    BY BlocksAreSound
  <2>2. b.first \in Nat /\ b.last \in Nat /\ Limit[b.scope] \in Nat
    BY <2>1, OffsetAssumption, LimitAssumption DEF Sound, BlockType
  <2> QED
    BY <2>1, <2>2 DEF Sound
<1> QED
  BY <1>1, Invariance, PTL

\* No request touches an unsafe offset, through a point or through a gap.
THEOREM NeverUnsafeAlways == Spec => []NeverUnsafe
<1>1. IInv => NeverUnsafe
  BY BlocksAreSound DEF NeverUnsafe, Sound, GapIsSafe
<1> QED
  BY <1>1, Invariance, PTL

\* Nothing is read without a point that asks for it or evidence that allows it.
THEOREM AuthorisedAlways == Spec => []Authorised
<1>1. IInv => Authorised
  BY BlocksAreSound DEF Authorised, Sound
<1> QED
  BY <1>1, Invariance, PTL

\* A finished plan loses no point and reads none twice.
THEOREM PlannedOnceAlways == Spec => []PlannedOnce
<1>1. IInv => PlannedOnce
  <2> SUFFICES ASSUME IInv, phase = "planned", NEW p \in given.points
               PROVE  LET mine == {i \in DOMAIN requests : p \in requests[i].points} IN
                      IF Unplannable(p) THEN mine = {}
                      ELSE \E i \in DOMAIN requests :
                            /\ mine = {i}
                            /\ requests[i].first <= p.offset
                            /\ EndOf(p) <= requests[i].last
    BY DEF PlannedOnce
  <2>1. \A i \in DOMAIN requests : Sound(requests[i])
    BY DEF IInv, BlocksSound
  <2>2. CASE Unplannable(p)
    BY <2>1, <2>2 DEF Sound
  <2>3. CASE ~Unplannable(p)
    <3>1. PICK i \in DOMAIN requests : p \in requests[i].points
      BY <2>3 DEF IInv, Complete, Ended
    <3>2. \A j \in DOMAIN requests : p \in requests[j].points => j = i
      BY <3>1 DEF IInv, Divided
    <3> QED
      BY <2>1, <2>3, <3>1, <3>2 DEF Sound
  <2> QED
    BY <2>2, <2>3
<1> QED
  BY <1>1, Invariance, PTL


----------------------------------------------------------------------------
(***************************************************************************)
(* Fewest requests.  FewInv adds to IInv that the planner is greedy: the   *)
(* blocks are in plan order, and each was opened by a point that the block *)
(* before it could not take.  No request of any plan may read two of these *)
(* points, so no plan has fewer requests than there are of them.           *)
(***************************************************************************)

\* The blocks in the order they were opened.
Row == IF current = None THEN requests ELSE Append(requests, current)

\* Point p ends behind block b and is too far off, or behind a gap that must
\* not be read.
Barred(b, p) ==
    GroupOf(p) = b.group =>
        /\ b.last < EndOf(p)
        /\ \/ EndOf(p) - b.first + 1 > Limit[p.scope]
           \/ /\ b.last + 1 < p.offset
              /\ ~ /\ b.island # None /\ IslandOf(p) = b.island
                   /\ GapIsSafe(p.scope, b.last + 1, p.offset - 1)

\* Point p opened the k-th block of a row.
Opens(row, p, k) ==
    /\ p \in row[k].points
    /\ row[k].first = p.offset /\ row[k].group = GroupOf(p) /\ row[k].island = IslandOf(p)
    /\ \A q \in row[k].points \ {p} : Before(p, q)
    /\ k > 1 => Barred(row[k - 1], p)
    /\ \A m \in 1 .. k - 1 : row[m].group = GroupOf(p) => row[m].last < EndOf(p)

\* The blocks are in plan order, those that come in front of the rest of the
\* points, and each was opened by a point that the block before could not take.
Greedy(row, rest) ==
    /\ \A k \in DOMAIN row : \A p \in row[k].points :
          /\ GroupOf(p) = row[k].group
          /\ \A q \in rest : Before(p, q)
          /\ \A m \in DOMAIN row : k < m => \A q \in row[m].points : Before(p, q)
    /\ \A k \in DOMAIN row : \E p \in row[k].points : Opens(row, p, k)

InOrder == Greedy(Row, todo)
Unbuilt == phase = "planning" /\ current = None => requests = <<>>
Sorted == phase \in {"planning", "planned"} =>
    Valid(given) /\ held = {p \in given.points : Unplannable(p)}

FewInv == IInv /\ InOrder /\ Unbuilt /\ Sorted

\* Between two points of a group there are only points of that group.
LEMMA Between ==
    ASSUME given \in Inputs, NEW p \in given.points, NEW q \in given.points,
           NEW r \in given.points, Before(p, q), Before(q, r), GroupOf(p) = GroupOf(r)
    PROVE  GroupOf(q) = GroupOf(p)
<1>1. \A x \in given.points : /\ GroupOf(x) = <<GroupOf(x)[1], GroupOf(x)[2]>>
                              /\ GroupOf(x)[1] \in Nat /\ GroupOf(x)[2] \in Nat
  BY PointFacts, ScopesAssumption
<1>2. PICK g, h : g = GroupOf(p) /\ h = GroupOf(q) OBVIOUS
<1>3. /\ g[1] < h[1] \/ (g[1] = h[1] /\ g[2] < h[2]) \/ g = h
      /\ h[1] < g[1] \/ (h[1] = g[1] /\ h[2] < g[2]) \/ g = h
  BY <1>2 DEF Before
<1>4. g[1] \in Nat /\ g[2] \in Nat /\ h[1] \in Nat /\ h[2] \in Nat BY <1>1, <1>2
<1> QED BY <1>2, <1>3, <1>4

\* In a group the earlier point does not lie after the later one.
LEMMA Ascending ==
    ASSUME given \in Inputs, NEW p \in given.points, NEW q \in given.points,
           Before(p, q), GroupOf(p) = GroupOf(q)
    PROVE  p.offset <= q.offset
<1>1. GroupOf(p)[1] \in Nat /\ GroupOf(p)[2] \in Nat
  BY PointFacts, ScopesAssumption
<1>2. p.offset \in Int /\ q.offset \in Int
  BY PointFacts DEF Points
<1> QED BY <1>1, <1>2 DEF Before

\* Nothing but the arguments decides plan order and what is barred.
LEMMA SameOrder ==
    ASSUME given' = given
    PROVE  /\ \A p : IslandOf(p)' = IslandOf(p)
           /\ \A p, q : Before(p, q)' <=> Before(p, q)
           /\ \A b, p : Barred(b, p)' <=> Barred(b, p)
           /\ Valid(given)' <=> Valid(given)
<1>1. \A s, a, b : GapIsSafe(s, a, b)' <=> GapIsSafe(s, a, b)
  BY DEF GapIsSafe
<1>2. \A p : IslandOf(p)' = IslandOf(p)
  BY DEF IslandOf, IslandsOf
<1>3. \A p : GroupOf(p)' = GroupOf(p)
  BY SameArguments
<1>4. \A p, q : Before(p, q)' <=> Before(p, q)
  BY <1>3 DEF Before
<1>5. \A b, p : Barred(b, p)' <=> Barred(b, p)
  BY <1>1, <1>2, <1>3 DEF Barred
<1>6. Valid(given)' <=> Valid(given)
  BY DEF Valid, Meets
<1> QED BY <1>2, <1>4, <1>5, <1>6

\* A point that cannot join the block being built is barred from it.
LEMMA RefusedIsBarred ==
    ASSUME given \in Inputs, NEW p \in given.points, ~Unplannable(p),
           current # None, Sound(current), ~CanJoin(p)
    PROVE  Barred(current, p)
<1>1. /\ current.first \in Nat /\ current.last \in Nat
      /\ current.last - current.first + 1 <= Limit[current.scope]
      /\ current.group[1] = current.scope /\ current.scope \in Scopes
  BY OffsetAssumption DEF Sound, BlockType
<1>2. /\ p.offset \in Nat /\ EndOf(p) \in Nat /\ p.offset <= EndOf(p)
  BY PlannableFacts, OffsetAssumption
<1>3. SUFFICES ASSUME GroupOf(p) = current.group
               PROVE  /\ current.last < EndOf(p)
                      /\ \/ EndOf(p) - current.first + 1 > Limit[p.scope]
                         \/ /\ current.last + 1 < p.offset
                            /\ ~ /\ current.island # None /\ IslandOf(p) = current.island
                                 /\ GapIsSafe(p.scope, current.last + 1, p.offset - 1)
  BY DEF Barred
<1>4. p.scope = current.scope BY <1>1, <1>3, PointFacts
<1>5. Limit[p.scope] \in Nat BY <1>1, <1>4, LimitAssumption
<1>6. CASE ~CanBridge(p)
  BY <1>1, <1>2, <1>6 DEF CanBridge
<1>7. CASE ~(Larger(current.last, EndOf(p)) - current.first + 1 <= Limit[p.scope])
  BY <1>1, <1>2, <1>4, <1>5, <1>7 DEF Larger
<1> QED BY <1>3, <1>6, <1>7 DEF CanJoin

\* The next point, barred from the last block, opens a block of its own.
LEMMA Opening ==
    ASSUME given \in Inputs, NEW row \in Seq(BlockType), \A k \in DOMAIN row : Sound(row[k]),
           NEW rest \in SUBSET given.points, NEW p \in rest, ~Unplannable(p),
           \A q \in rest \ {p} : Before(p, q), Greedy(row, rest),
           row # <<>> => Barred(row[Len(row)], p)
    PROVE  Greedy(Append(row, BlockOf(p)), rest \ {p})
<1> DEFINE n == Len(row)
           new == Append(row, BlockOf(p))
<1>1. /\ n \in Nat /\ DOMAIN row = 1 .. n /\ DOMAIN new = 1 .. n + 1
      /\ \A k \in 1 .. n : new[k] = row[k]
      /\ new[n + 1] = BlockOf(p)
  <2>1. Sound(BlockOf(p)) BY BlockOfSound
  <2>2. BlockOf(p) \in BlockType BY <2>1 DEF Sound
  <2> QED BY <2>2
<1>2. /\ BlockOf(p).points = {p} /\ BlockOf(p).first = p.offset
      /\ BlockOf(p).group = GroupOf(p) /\ BlockOf(p).island = IslandOf(p)
  BY DEF BlockOf
<1> HIDE DEF n, new
<1>3. ASSUME NEW k \in 1 .. n + 1, NEW x \in new[k].points
      PROVE  /\ GroupOf(x) = new[k].group
             /\ \A q \in rest \ {p} : Before(x, q)
             /\ \A m \in 1 .. n + 1 : k < m => \A q \in new[m].points : Before(x, q)
  <2>1. CASE k = n + 1 BY <1>1, <1>2, <2>1
  <2>2. CASE k # n + 1
    <3>1. k \in 1 .. n /\ x \in row[k].points BY <1>1, <1>3, <2>2
    <3>2. ASSUME NEW m \in 1 .. n + 1, k < m, NEW q \in new[m].points PROVE Before(x, q)
      <4>1. CASE m = n + 1 BY <1>1, <1>2, <3>1, <3>2, <4>1 DEF Greedy
      <4>2. CASE m # n + 1 BY <1>1, <3>1, <3>2, <4>2 DEF Greedy
      <4> QED BY <4>1, <4>2
    <3> QED BY <1>1, <3>1, <3>2 DEF Greedy
  <2> QED BY <2>1, <2>2
<1>4. ASSUME NEW m \in 1 .. n, row[m].group = GroupOf(p) PROVE row[m].last < EndOf(p)
  <2>1. n \in DOMAIN row /\ m \in DOMAIN row /\ row # <<>> BY <1>1
  <2>2. Sound(row[n]) /\ Sound(row[m]) BY <2>1
  <2>3. /\ row[n].last \in Int /\ row[m].last \in Int /\ EndOf(p) \in Int
    <3>1. row[n].last \in Int /\ row[m].last \in Int
      <4>1. ASSUME NEW b, Sound(b) PROVE b.last \in Int
        BY <4>1, OffsetAssumption DEF Sound, BlockType
      <4> QED BY <2>2, <4>1
    <3>2. p \in given.points OBVIOUS
    <3>3. EndOf(p) \in 0 .. LastOffset BY <3>2, PlannableFacts
    <3> QED BY <3>1, <3>3, OffsetAssumption
  <2>4. CASE m = n BY <1>4, <2>1, <2>4 DEF Barred, n
  <2>5. CASE m # n
    <3>1. m \in 1 .. n - 1 /\ m < n BY <1>1, <2>5
    <3>2. PICK h \in row[n].points : Opens(row, h, n) BY <2>1 DEF Greedy
    <3>3. PICK g \in row[m].points : Opens(row, g, m) BY <2>1 DEF Greedy
    <3>4. Before(g, h) /\ Before(h, p) BY <2>1, <3>1, <3>2, <3>3 DEF Greedy
    <3>5. g \in given.points /\ h \in given.points /\ ~Unplannable(h) /\ EndOf(h) <= row[n].last
      BY <2>2, <3>2, <3>3 DEF Sound
    <3>6. GroupOf(g) = GroupOf(p) BY <1>4, <3>3 DEF Opens
    <3>7. GroupOf(h) = GroupOf(p) BY <3>4, <3>5, <3>6, Between
    <3>8. row[n].group = GroupOf(p) BY <3>2, <3>7 DEF Opens
    <3>9. row[m].last < EndOf(h) BY <1>4, <3>1, <3>2, <3>7 DEF Opens
    <3>10. row[n].last < EndOf(p) BY <2>1, <3>8 DEF Barred, n
    <3>11. EndOf(h) \in Int BY <3>5, PlannableFacts
    <3> QED BY <2>3, <3>5, <3>9, <3>10, <3>11
  <2> QED BY <2>4, <2>5
<1>5. ASSUME NEW k \in 1 .. n + 1 PROVE \E x \in new[k].points : Opens(new, x, k)
  <2>1. CASE k = n + 1
    <3>1. k > 1 => row # <<>> /\ new[k - 1] = row[Len(row)] BY <1>1, <2>1 DEF n
    <3>2. \A m \in 1 .. k - 1 : new[m].group = GroupOf(p) => new[m].last < EndOf(p)
      BY <1>1, <1>4, <2>1
    <3>3. Opens(new, p, k) BY <1>1, <1>2, <2>1, <3>1, <3>2 DEF Opens
    <3> QED BY <3>3 DEF Opens
  <2>2. CASE k # n + 1
    <3>1. k \in 1 .. n /\ \A m \in 1 .. k : new[m] = row[m] BY <1>1, <2>2
    <3>2. PICK x \in row[k].points : Opens(row, x, k) BY <1>1, <3>1 DEF Greedy
    <3>3. k > 1 => new[k - 1] = row[k - 1] BY <3>1
    <3>4. \A m \in 1 .. k - 1 : new[m] = row[m] BY <3>1
    <3>5. new[k] = row[k] BY <3>1
    <3>6. Opens(new, x, k) BY <3>2, <3>3, <3>4, <3>5 DEF Opens
    <3> QED BY <3>2, <3>5, <3>6
  <2> QED BY <2>1, <2>2
<1> QED BY <1>1, <1>3, <1>5 DEF Greedy, new

\* The next point joins the last block.
LEMMA Joining ==
    ASSUME NEW row \in Seq(BlockType), NEW b \in BlockType, NEW c \in BlockType,
           NEW rest, NEW p \in rest,
           \A q \in rest \ {p} : Before(p, q), Greedy(Append(row, b), rest),
           GroupOf(p) = b.group, c.points = b.points \cup {p},
           c.first = b.first, c.group = b.group, c.island = b.island
    PROVE  Greedy(Append(row, c), rest \ {p})
<1> DEFINE n == Len(row)
           old == Append(row, b)
           new == Append(row, c)
<1>1. /\ n \in Nat /\ DOMAIN old = 1 .. n + 1 /\ DOMAIN new = 1 .. n + 1
      /\ \A k \in 1 .. n : new[k] = old[k]
      /\ old[n + 1] = b /\ new[n + 1] = c
  OBVIOUS
<1>2. Greedy(old, rest) OBVIOUS
<1> HIDE DEF n, old, new
<1>3. ASSUME NEW k \in 1 .. n + 1, NEW x \in new[k].points
      PROVE  /\ GroupOf(x) = new[k].group
             /\ \A q \in rest \ {p} : Before(x, q)
             /\ \A m \in 1 .. n + 1 : k < m => \A q \in new[m].points : Before(x, q)
  <2>1. CASE k = n + 1
    BY <1>1, <1>2, <1>3, <2>1 DEF Greedy
  <2>2. CASE k # n + 1
    <3>1. k \in 1 .. n /\ x \in old[k].points BY <1>1, <1>3, <2>2
    <3>2. ASSUME NEW m \in 1 .. n + 1, k < m, NEW q \in new[m].points PROVE Before(x, q)
      <4>1. CASE q = p BY <1>1, <1>2, <3>1, <4>1 DEF Greedy
      <4>2. CASE q # p
        <5>1. q \in old[m].points BY <1>1, <3>2, <4>2
        <5> QED BY <1>1, <1>2, <3>1, <3>2, <5>1 DEF Greedy
      <4> QED BY <4>1, <4>2
    <3> QED BY <1>1, <1>2, <3>1, <3>2 DEF Greedy
  <2> QED BY <2>1, <2>2
<1>4. ASSUME NEW k \in 1 .. n + 1 PROVE \E x \in new[k].points : Opens(new, x, k)
  <2>1. PICK x \in old[k].points : Opens(old, x, k) BY <1>1, <1>2 DEF Greedy
  <2>2. \A m \in 1 .. k - 1 : new[m] = old[m] BY <1>1
  <2>3. k > 1 => new[k - 1] = old[k - 1] BY <1>1
  <2>4. /\ x \in new[k].points /\ new[k].first = old[k].first /\ new[k].group = old[k].group
        /\ new[k].island = old[k].island
    BY <1>1, <2>1
  <2>5. \A q \in new[k].points \ {x} : Before(x, q)
    <3>1. SUFFICES ASSUME NEW q \in new[k].points \ {x} PROVE Before(x, q) OBVIOUS
    <3>2. CASE q \in old[k].points BY <2>1, <3>1, <3>2 DEF Opens
    <3>3. CASE q \notin old[k].points
      <4>1. q = p BY <1>1, <3>1, <3>3
      <4> QED BY <1>1, <1>2, <2>1, <4>1 DEF Greedy
    <3> QED BY <3>2, <3>3
  <2>6. Opens(new, x, k) BY <2>1, <2>2, <2>3, <2>4, <2>5 DEF Opens
  <2> QED BY <2>4, <2>6
<1> QED BY <1>1, <1>3, <1>4 DEF Greedy, new

\* Before the first point there is no block.
LEMMA InitFewInv == Init => FewInv
<1> SUFFICES ASSUME Init PROVE FewInv OBVIOUS
<1>1. Row = <<>> /\ DOMAIN Row = {} BY DEF Init, Row
<1> QED BY <1>1, InitIInv DEF Init, FewInv, InOrder, Greedy, Unbuilt, Sorted

\* In a step that keeps the arguments the row is in order if the operators,
\* taken of the new row, say so.
LEMMA OrderKept ==
    ASSUME given' = given, NEW row, NEW rest, row = Row', rest = todo', Greedy(row, rest)
    PROVE  InOrder'
<1>1. Greedy(row, rest)'
  BY SameArguments, SameOrder DEF Greedy, Opens
<1> QED BY <1>1 DEF InOrder

\* Every action keeps the planner greedy.
LEMMA FewStep == FewInv /\ [Next]_vars => FewInv'
<1> SUFFICES ASSUME FewInv, [Next]_vars PROVE FewInv' OBVIOUS
<1>1. IInv /\ IInv' BY NextInv DEF FewInv
<1>2. InOrder /\ Unbuilt /\ Sorted BY DEF FewInv
<1>3. given \in Inputs /\ requests \in Seq(BlockType) /\ todo \subseteq given.points
  BY <1>1 DEF IInv, Typed
<1>4. current # None => Sound(current) /\ current \in BlockType
  BY <1>1 DEF IInv, BlocksSound, Sound
<1>5. /\ Row \in Seq(BlockType)
      /\ \A k \in DOMAIN Row : Sound(Row[k])
      /\ current # None => Row # <<>> /\ Row[Len(Row)] = current
  <2>1. CASE current = None BY <1>1, <1>3, <2>1 DEF Row, IInv, BlocksSound
  <2>2. CASE current # None BY <1>1, <1>3, <1>4, <2>2 DEF Row, IInv, BlocksSound
  <2> QED BY <2>1, <2>2
<1>6. \A p \in todo : p \in given.points /\ ~Unplannable(p)
  BY <1>1 DEF IInv, Typed, TodoAhead
<1>7. CASE UNCHANGED vars
  <2>1. given' = given /\ Row' = Row /\ todo' = todo BY <1>7 DEF vars, Row
  <2>2. InOrder' BY <1>2, <2>1, OrderKept DEF InOrder
  <2> QED BY <1>1, <1>2, <1>7, <2>1, <2>2, SameArguments, SameOrder
          DEF vars, FewInv, Unbuilt, Sorted
<1>8. CASE Reject
  <2>1. given' = given /\ Row' = Row /\ todo' = todo BY <1>8 DEF Reject, Row
  <2>2. InOrder' BY <1>2, <2>1, OrderKept DEF InOrder
  <2> QED BY <1>1, <1>8, <2>2 DEF Reject, FewInv, Unbuilt, Sorted
<1>9. CASE Group
  <2>1. given' = given /\ Valid(given) /\ current' = None /\ requests' = <<>>
        /\ held' = {p \in given.points : Unplannable(p)}
    BY <1>1, <1>9 DEF Group, IInv, Idle
  <2>2. Row' = <<>> BY <2>1 DEF Row
  <2>3. \A rest : Greedy(<<>>, rest) BY DEF Greedy
  <2>4. InOrder' BY <2>1, <2>2, <2>3, OrderKept
  <2> QED BY <1>1, <2>1, <2>4, SameArguments, SameOrder DEF FewInv, Unbuilt, Sorted
<1>10. ASSUME NEW p \in todo, Open(p) PROVE FewInv'
  <2>1. /\ given' = given /\ phase = "planning" /\ phase' = phase /\ held' = held
        /\ current = None /\ current' = BlockOf(p) /\ requests' = requests
        /\ todo' = todo \ {p} /\ \A q \in todo \ {p} : Before(p, q)
    BY <1>10 DEF Open, IsNext
  <2>2. BlockOf(p) \in BlockType /\ BlockOf(p) # None
    BY <1>3, <1>6, BlockOfSound, NoneAssumption DEF Sound
  <2>3. requests = <<>> /\ Row = <<>> /\ Row' = Append(Row, BlockOf(p))
    BY <1>2, <2>1, <2>2 DEF Unbuilt, Row
  <2>4. Greedy(Append(Row, BlockOf(p)), todo \ {p})
    <3>1. PICK row, rest : row = Row /\ rest = todo OBVIOUS
    <3> QED BY <1>2, <1>3, <1>5, <1>6, <2>1, <2>3, <3>1, Opening DEF InOrder
  <2>5. InOrder' BY <2>1, <2>3, <2>4, OrderKept
  <2> QED BY <1>1, <1>2, <2>1, <2>2, <2>5, SameArguments, SameOrder DEF FewInv, Unbuilt, Sorted
<1>11. ASSUME NEW p \in todo, Join(p) PROVE FewInv'
  <2>1. /\ given' = given /\ phase = "planning" /\ phase' = phase /\ held' = held
        /\ current # None /\ current' = Joined(p) /\ requests' = requests
        /\ todo' = todo \ {p} /\ (\A q \in todo \ {p} : Before(p, q))
        /\ GroupOf(p) = current.group
    BY <1>11 DEF Join, Joined, IsNext, CanJoin
  <2>3. Sound(Joined(p))
    <3>1. Valid(given) BY <1>2, <2>1 DEF Sorted
    <3>2. current.first <= p.offset BY <1>1, <2>1 DEF IInv, TodoAhead
    <3> QED BY <1>3, <1>4, <1>6, <1>11, <2>1, <3>1, <3>2, JoinSound DEF Join
  <2>4. Joined(p) \in BlockType /\ Joined(p) # None BY <2>3, NoneAssumption DEF Sound
  <2>5. /\ Joined(p).points = current.points \cup {p} /\ Joined(p).first = current.first
        /\ Joined(p).group = current.group /\ Joined(p).island = current.island
    BY <1>4, <2>1 DEF Joined, BlockType
  <2>6. Row = Append(requests, current) /\ Row' = Append(requests, Joined(p))
    BY <2>1, <2>4 DEF Row
  <2>7. Greedy(Append(requests, Joined(p)), todo \ {p})
    BY <1>2, <1>3, <1>4, <2>1, <2>4, <2>5, <2>6, Joining DEF InOrder
  <2>8. InOrder' BY <2>1, <2>6, <2>7, OrderKept
  <2> QED BY <1>1, <1>2, <2>1, <2>4, <2>8, SameArguments, SameOrder DEF FewInv, Unbuilt, Sorted
<1>12. ASSUME NEW p \in todo, Split(p) PROVE FewInv'
  <2>1. /\ given' = given /\ phase = "planning" /\ phase' = phase /\ held' = held
        /\ current # None /\ current' = BlockOf(p) /\ requests' = Append(requests, current)
        /\ todo' = todo \ {p} /\ (\A q \in todo \ {p} : Before(p, q))
        /\ ~CanJoin(p)
    BY <1>12 DEF Split, IsNext
  <2>2. BlockOf(p) \in BlockType /\ BlockOf(p) # None
    BY <1>3, <1>6, BlockOfSound, NoneAssumption DEF Sound
  <2>3. Row' = Append(Row, BlockOf(p)) BY <2>1, <2>2 DEF Row
  <2>4. Barred(Row[Len(Row)], p)
    BY <1>3, <1>4, <1>5, <1>6, <2>1, RefusedIsBarred
  <2>5. Greedy(Append(Row, BlockOf(p)), todo \ {p})
    BY <1>2, <1>3, <1>5, <1>6, <2>1, <2>4, Opening DEF InOrder
  <2>6. InOrder' BY <2>1, <2>3, <2>5, OrderKept
  <2> QED BY <1>1, <1>2, <2>1, <2>2, <2>6, SameArguments, SameOrder DEF FewInv, Unbuilt, Sorted
<1>13. CASE Finish
  <2>1. /\ given' = given /\ todo' = todo /\ held' = held /\ phase = "planning"
        /\ phase' = "planned" /\ Row' = Row
    BY <1>13 DEF Finish, Row
  <2>2. InOrder' BY <1>2, <2>1, OrderKept DEF InOrder
  <2> QED BY <1>1, <1>2, <2>1, <2>2, SameArguments, SameOrder DEF FewInv, Unbuilt, Sorted
<1> QED BY <1>7, <1>8, <1>9, <1>10, <1>11, <1>12, <1>13 DEF Next

\* Islands with distinct ids: points of one group lie in the same one.
LEMMA OneIsland ==
    ASSUME given \in Inputs, \A i, j \in given.islands : i.id = j.id => i = j,
           NEW p \in given.points, NEW q \in given.points, GroupOf(p) = GroupOf(q)
    PROVE  IslandOf(p) = IslandOf(q)
<1>1. /\ IslandOf(p) # None => IslandOf(p) \in given.islands /\ IslandOf(p).id # 0
      /\ IslandOf(q) # None => IslandOf(q) \in given.islands /\ IslandOf(q).id # 0
  BY PointFacts, NoneAssumption DEF Islands
<1>2. GroupOf(p)[2] = GroupOf(q)[2] OBVIOUS
<1>3. /\ GroupOf(p)[2] = IF IslandOf(p) = None THEN 0 ELSE IslandOf(p).id
      /\ GroupOf(q)[2] = IF IslandOf(q) = None THEN 0 ELSE IslandOf(q).id
  BY DEF GroupOf
<1> QED BY <1>1, <1>2, <1>3

\* An interval is safe if each of its registers is.
LEMMA SafeByRegister ==
    ASSUME given \in Inputs, Valid(given), NEW s, NEW a \in Nat, NEW b \in Nat,
           \A o \in a .. b : GapIsSafe(s, o, o)
    PROVE  GapIsSafe(s, a, b)
<1>1. SUFFICES ASSUME a <= b, NEW u \in given.unsafe, u.scope = s, Meets(a, b, u)
               PROVE  FALSE
  BY DEF GapIsSafe
<1>2. u.first \in Nat /\ u.last \in Nat /\ u.first <= u.last
  BY InputsAssumption DEF Intervals, Valid
<1>3. a <= u.last /\ u.first <= b BY <1>1 DEF Meets
<1>4. PICK o \in a .. b : u.first <= o /\ o <= u.last
  <2>1. CASE a <= u.first BY <1>1, <1>2, <1>3, <2>1
  <2>2. CASE u.first < a BY <1>1, <1>2, <1>3, <2>2
  <2> QED BY <1>2, <2>1, <2>2
<1>5. GapIsSafe(s, o, o) BY <1>4
<1> QED BY <1>1, <1>4, <1>5 DEF GapIsSafe, Meets

\* No request may read two points that opened blocks of the plan: it would
\* reach over what kept the second of the blocks from being one with the first.
LEMMA OpenersApart ==
    ASSUME FewInv, phase = "planned", \A i, j \in given.islands : i.id = j.id => i = j,
           NEW S \in SUBSET (given.points \ held), Readable(S),
           NEW i \in DOMAIN requests, NEW j \in DOMAIN requests, i < j,
           NEW x \in S, Opens(requests, x, i), NEW y \in S, Opens(requests, y, j)
    PROVE  FALSE
<1>1. /\ given \in Inputs /\ Valid(given) /\ held = {p \in given.points : Unplannable(p)}
      /\ todo = {} /\ current = None /\ requests \in Seq(BlockType)
      /\ \A k \in DOMAIN requests : Sound(requests[k])
  BY DEF FewInv, IInv, Typed, Ended, BlocksSound, Sorted
<1>2. Greedy(requests, todo) BY <1>1 DEF FewInv, InOrder, Row
<1>3. /\ Len(requests) \in Nat /\ DOMAIN requests = 1 .. Len(requests)
      /\ i \in Nat \ {0} /\ j \in Nat \ {0} /\ i + 1 \in DOMAIN requests
      /\ i \in 1 .. j - 1 /\ (i + 1 # j => i + 1 \in 1 .. j - 1)
  BY <1>1
<1>4. \A k \in DOMAIN requests :
        /\ requests[k].first \in Nat /\ requests[k].last \in Nat
        /\ requests[k].first <= requests[k].last
        /\ \A p \in requests[k].points : p \in given.points /\ EndOf(p) <= requests[k].last
  <2>1. SUFFICES ASSUME NEW k \in DOMAIN requests
                 PROVE  /\ requests[k].first \in Nat /\ requests[k].last \in Nat
                        /\ requests[k].first <= requests[k].last
                        /\ \A p \in requests[k].points :
                              p \in given.points /\ EndOf(p) <= requests[k].last
    OBVIOUS
  <2>2. Sound(requests[k]) BY <1>1
  <2>3. requests[k].first \in Nat /\ requests[k].last \in Nat
    BY <2>2, OffsetAssumption DEF Sound, BlockType
  <2> QED BY <2>2, <2>3 DEF Sound
<1>5. \A p \in given.points : ~Unplannable(p) =>
        p.offset \in Nat /\ EndOf(p) \in Nat /\ p.offset <= EndOf(p)
  BY <1>1, PlannableFacts, OffsetAssumption
<1>6. \A k \in DOMAIN requests : \A p \in requests[k].points : ~Unplannable(p)
  BY <1>1 DEF Sound
<1>7. \A p \in S : p \in given.points /\ ~Unplannable(p) BY <1>1
<1>8. PICK f, l \in S :
        /\ \A p \in S : f.offset <= p.offset /\ EndOf(p) <= EndOf(l)
        /\ \A p \in S : GroupOf(p) = GroupOf(f)
        /\ EndOf(l) - f.offset + 1 <= Limit[f.scope]
        /\ \A o \in f.offset .. EndOf(l) :
             \/ \E p \in S : p.offset <= o /\ o <= EndOf(p)
             \/ /\ IslandOf(f) # None
                /\ IslandOf(f).first <= o /\ o <= IslandOf(f).last
                /\ GapIsSafe(f.scope, o, o)
  BY DEF Readable
<1>9. PICK z \in requests[i + 1].points : Opens(requests, z, i + 1) /\ (j = i + 1 => z = y)
  <2>1. CASE j = i + 1 BY <2>1 DEF Opens
  <2>2. CASE j # i + 1 BY <1>2, <1>3, <2>2 DEF Greedy
  <2> QED BY <2>1, <2>2
<1>10. z \in given.points /\ ~Unplannable(z) BY <1>1, <1>3, <1>6, <1>9 DEF Sound
<1>11. x \in requests[i].points /\ y \in requests[j].points BY DEF Opens
<1>12. Before(x, z) BY <1>2, <1>3, <1>9, <1>11 DEF Greedy
<1>13. j # i + 1 => Before(z, y) BY <1>2, <1>3, <1>9, <1>11 DEF Greedy
<1>14. GroupOf(x) = GroupOf(f) /\ GroupOf(y) = GroupOf(f) /\ GroupOf(z) = GroupOf(f)
  <2>1. GroupOf(x) = GroupOf(f) /\ GroupOf(y) = GroupOf(f) BY <1>8
  <2>2. CASE j = i + 1 BY <1>9, <2>1, <2>2
  <2>3. CASE j # i + 1 BY <1>1, <1>7, <1>10, <1>12, <1>13, <2>1, <2>3, Between
  <2> QED BY <2>1, <2>2, <2>3
<1>15. x.offset <= z.offset BY <1>1, <1>7, <1>10, <1>12, <1>14, Ascending
<1>16. z.offset <= y.offset
  <2>1. CASE j = i + 1 BY <1>5, <1>7, <1>9, <2>1
  <2>2. CASE j # i + 1 BY <1>1, <1>7, <1>10, <1>13, <1>14, <2>2, Ascending
  <2> QED BY <2>1, <2>2
<1>17. EndOf(z) <= EndOf(l)
  <2>1. EndOf(y) <= EndOf(l) BY <1>8
  <2>2. CASE j = i + 1 BY <1>9, <2>1, <2>2
  <2>3. CASE j # i + 1
    <3>1. requests[i + 1].group = GroupOf(y) BY <1>9, <1>14 DEF Opens
    <3>2. requests[i + 1].last < EndOf(y) BY <1>3, <2>3, <3>1 DEF Opens
    <3>3. EndOf(z) <= requests[i + 1].last BY <1>3, <1>4, <1>9
    <3> QED BY <1>3, <1>4, <1>5, <1>7, <1>10, <2>1, <3>2, <3>3
  <2> QED BY <2>2, <2>3
<1>18. /\ requests[i].first = x.offset /\ requests[i].group = GroupOf(z)
       /\ requests[i].island = IslandOf(x)
  BY <1>14 DEF Opens
<1>19. Barred(requests[i], z)
  <2>1. i + 1 > 1 /\ (i + 1) - 1 = i BY <1>3
  <2> QED BY <1>9, <2>1 DEF Opens
<1>20. z.scope = f.scope BY <1>1, <1>7, <1>10, <1>14, PointFacts
<1>21. f.offset \in Nat /\ EndOf(l) \in Nat /\ x.offset \in Nat /\ y.offset \in Nat
       /\ z.offset \in Nat /\ EndOf(z) \in Nat /\ EndOf(y) \in Nat /\ y.offset <= EndOf(y)
       /\ f.offset <= x.offset /\ EndOf(y) <= EndOf(l)
  BY <1>5, <1>7, <1>8, <1>10
<1>22. Limit[f.scope] \in Nat
  BY <1>1, <1>7, PointFacts, LimitAssumption DEF Points
<1>23. ~(EndOf(z) - requests[i].first + 1 > Limit[z.scope])
  BY <1>8, <1>17, <1>18, <1>20, <1>21, <1>22
<1>24. /\ requests[i].last + 1 < z.offset
       /\ ~ /\ requests[i].island # None /\ IslandOf(z) = requests[i].island
            /\ GapIsSafe(z.scope, requests[i].last + 1, z.offset - 1)
  BY <1>18, <1>19, <1>23 DEF Barred
<1>25. requests[i].last \in Nat /\ x.offset <= requests[i].last
  BY <1>4, <1>18
<1>26. ASSUME NEW o \in requests[i].last + 1 .. z.offset - 1
       PROVE  IslandOf(f) # None /\ GapIsSafe(f.scope, o, o)
  <2>1. o \in f.offset .. EndOf(l) /\ o \in Nat
    BY <1>16, <1>21, <1>25
  <2>2. requests[i].last < o /\ o < z.offset BY <1>21, <1>25
  <2>3. ASSUME NEW p \in S, p.offset <= o, o <= EndOf(p) PROVE FALSE
    <3>1. p.offset \in Nat /\ EndOf(p) \in Nat /\ p \in given.points /\ GroupOf(p) = GroupOf(f)
      BY <1>5, <1>7, <1>8
    <3>2. PICK m \in DOMAIN requests : p \in requests[m].points
      BY <1>1, <1>7 DEF FewInv, IInv, Complete
    <3>3. m \in 1 .. Len(requests) BY <1>3
    <3>4. requests[m].group = GroupOf(f) BY <1>2, <3>1, <3>2 DEF Greedy
    <3>5. EndOf(p) <= requests[m].last BY <1>4, <3>2
    <3>6. CASE m = i BY <1>25, <2>1, <2>2, <2>3, <3>1, <3>5, <3>6
    <3>7. CASE m < i
      <4>1. m \in 1 .. i - 1 BY <1>3, <3>3, <3>7
      <4>2. requests[m].last < EndOf(x) BY <1>14, <3>4, <4>1 DEF Opens
      <4>3. EndOf(x) <= requests[i].last BY <1>4, <1>11
      <4>4. EndOf(x) \in Nat /\ requests[m].last \in Nat BY <1>4, <1>5, <1>7
      <4> QED BY <1>25, <2>1, <2>2, <2>3, <3>1, <3>5, <4>2, <4>3, <4>4
    <3>8. CASE m > i
      <4>1. z = p \/ Before(z, p)
        <5>1. CASE m = i + 1 BY <1>9, <3>2, <5>1 DEF Opens
        <5>2. CASE m # i + 1
          <6>1. i + 1 < m BY <1>3, <3>3, <3>8, <5>2
          <6> QED BY <1>2, <1>3, <1>9, <3>2, <6>1 DEF Greedy
        <5> QED BY <5>1, <5>2
      <4>2. z.offset <= p.offset
        <5>1. CASE z = p BY <1>21, <5>1
        <5>2. CASE Before(z, p)
          <6>1. given \in Inputs /\ z \in given.points /\ p \in given.points
            BY <1>1, <1>10, <3>1
          <6>2. GroupOf(z) = GroupOf(p) BY <1>14, <3>1
          <6> QED BY <5>2, <6>1, <6>2, Ascending
        <5> QED BY <4>1, <5>1, <5>2
      <4> QED BY <1>21, <2>1, <2>2, <2>3, <3>1, <4>2
    <3> QED BY <1>3, <3>3, <3>6, <3>7, <3>8
  <2> QED BY <1>8, <2>1, <2>3
<1>27. IslandOf(f) # None
  <2>1. requests[i].last + 1 \in requests[i].last + 1 .. z.offset - 1
    BY <1>21, <1>24, <1>25
  <2> QED BY <1>26, <2>1
<1>28. IslandOf(x) = IslandOf(f) /\ IslandOf(z) = IslandOf(f)
  BY <1>1, <1>7, <1>10, <1>14, OneIsland
<1>29. GapIsSafe(z.scope, requests[i].last + 1, z.offset - 1)
  <2>1. requests[i].last + 1 \in Nat /\ z.offset - 1 \in Nat BY <1>21, <1>24, <1>25
  <2> QED BY <1>1, <1>20, <1>26, <2>1, SafeByRegister
<1> QED BY <1>18, <1>24, <1>27, <1>28, <1>29

\* The blocks of the plan outnumber the requests of no other plan: two of the
\* points that opened them would be in one of its requests.
LEMMA FewestHold == FewInv => FewestRequests
<1> DEFINE planned == given.points \ held
           n == Len(requests)
<1>1. SUFFICES ASSUME FewInv, phase = "planned", requests # <<>>,
                      \A i, j \in given.islands : i.id = j.id => i = j,
                      NEW share \in [planned -> 1 .. n - 1],
                      \A k \in 1 .. n - 1 :
                        LET S == {p \in planned : share[p] = k} IN S = {} \/ Readable(S)
               PROVE  FALSE
  BY DEF FewestRequests
<1>2. /\ requests \in Seq(BlockType) /\ current = None
      /\ held = {p \in given.points : Unplannable(p)}
      /\ \A k \in DOMAIN requests : Sound(requests[k])
  BY <1>1 DEF FewInv, IInv, Typed, Ended, BlocksSound, Sorted
<1>3. n \in Nat \ {0} /\ DOMAIN requests = 1 .. n BY <1>1, <1>2
<1>4. \A k \in 1 .. n : \E p \in requests[k].points : Opens(requests, p, k)
  BY <1>1, <1>2, <1>3 DEF FewInv, InOrder, Row, Greedy
<1>5. \A k \in 1 .. n : requests[k].points \subseteq planned
  BY <1>2, <1>3 DEF Sound
<1> HIDE DEF planned, n
<1> DEFINE opener == [k \in 1 .. n |-> CHOOSE p \in requests[k].points : Opens(requests, p, k)]
           where == [k \in 1 .. n |-> share[opener[k]]]
<1>6. \A k \in 1 .. n : opener[k] \in planned /\ Opens(requests, opener[k], k)
  BY <1>4, <1>5
<1> HIDE DEF opener
<1>7. where \in [1 .. n -> 1 .. n - 1] BY <1>1, <1>6
<1>8. /\ IsFiniteSet(1 .. n) /\ Cardinality(1 .. n) = n
      /\ IsFiniteSet(1 .. n - 1) /\ Cardinality(1 .. n - 1) = n - 1
  <2>1. 1 \in Int /\ n \in Int /\ n - 1 \in Int BY <1>3
  <2>2. /\ IsFiniteSet(1 .. n)
        /\ Cardinality(1 .. n) = IF 1 > n THEN 0 ELSE n - 1 + 1
        /\ IsFiniteSet(1 .. n - 1)
        /\ Cardinality(1 .. n - 1) = IF 1 > n - 1 THEN 0 ELSE (n - 1) - 1 + 1
    BY <2>1, FS_Interval
  <2> QED BY <1>3, <2>2
<1> HIDE DEF where
<1>9. PICK a, b \in 1 .. n : a # b /\ where[a] = where[b]
  <2>1. Cardinality(1 .. n - 1) < Cardinality(1 .. n) BY <1>3, <1>8
  <2> QED BY <1>7, <1>8, <2>1, FS_PigeonHole
<1>10. PICK i, j \in 1 .. n : i < j /\ where[i] = where[j] BY <1>3, <1>9
<1>11. PICK k \in 1 .. n - 1 : where[i] = k BY <1>7, <1>10
<1> DEFINE S == {p \in planned : share[p] = k}
<1>12. opener[i] \in S /\ opener[j] \in S BY <1>6, <1>10, <1>11 DEF where
<1>13. Readable(S) BY <1>1, <1>12
<1>14. S \in SUBSET (given.points \ held) BY DEF planned
<1> HIDE DEF S
<1> QED BY <1>1, <1>3, <1>6, <1>10, <1>12, <1>13, <1>14, OpenersApart

\* The greedy plan is the shortest: no other way to share the planned points out
\* over requests that may be read needs fewer, for every map, limit, island and
\* unsafe interval (compile_read_plan).
THEOREM FewestRequestsAlways == Spec => []FewestRequests
<1> QED BY InitFewInv, FewStep, FewestHold, PTL DEF Spec


----------------------------------------------------------------------------
(***************************************************************************)
(* The gate.  GateInv says that the map and the plan keep their form under *)
(* every edit and revision, and that a pack still holds the results of the *)
(* plan and the map there are: nothing changes them after it is built.     *)
(***************************************************************************)

IsBlock(b) ==
    b \in [id : {b.id}, scope : Scopes, function : {b.function}, first : Int, last : Int,
          traces : {b.traces}, bridges : {b.bridges}, interval : {b.interval}]
IsBlocks(s) ==
    /\ s \in Seq({s[k] : k \in DOMAIN s})
    /\ \A k \in DOMAIN s : IsBlock(s[k])
IsOptions(o) ==
    o \in [islands : SUBSET Islands, unsafe : {o.unsafe}, limits : [Scopes -> Nat]]
IsPlan(p) ==
    /\ p \in [map : {p.map}, options : {p.options}, options_hash : {p.options_hash},
              blocks : {p.blocks}]
    /\ IsBlocks(p.blocks)
    /\ p.options # None => IsOptions(p.options)

GateInv ==
    /\ IInv
    /\ IsMap(map)
    /\ plan # None => IsPlan(plan)
    /\ pack # None =>
        /\ plan # None
        /\ DOMAIN pack.results \subseteq Profiles
        /\ \A t \in DOMAIN pack.results :
            pack.results[t] = Result(t, map, plan, pack.mode)

\* A function on 1..n is a sequence of its values.
LEMMA SequenceOfValues ==
    ASSUME NEW n \in Nat, NEW s, s = [k \in 1..n |-> s[k]]
    PROVE  s \in Seq({s[k] : k \in DOMAIN s}) /\ DOMAIN s = 1..n
<1>1. DOMAIN s = 1..n
    OBVIOUS
<1>2. s \in [1..n -> {s[k] : k \in DOMAIN s}]
    BY <1>1
<1> QED
    BY <1>1, <1>2, SeqDef

LEMMA BlocksChanged ==
    ASSUME NEW p, IsPlan(p), NEW s, IsBlocks(s)
    PROVE  IsPlan([p EXCEPT !.blocks = s])
    BY DEF IsPlan

LEMMA OptionsChanged ==
    ASSUME NEW p, IsPlan(p), NEW o, IsOptions(o)
    PROVE  IsPlan([p EXCEPT !.options = o]) /\ IsPlan(Sealed([p EXCEPT !.options = o]))
    BY DEF IsPlan, Sealed

\* A revision leaves a map a map.
LEMMA RevisionIsMap ==
    ASSUME NEW m, IsMap(m), NEW n \in Revisions(m)
    PROVE  IsMap(n)
<1>1. ASSUME NEW S \in SUBSET Points, n = [m EXCEPT !.points = S], IsFiniteSet(S),
             \A p \in S : \E q \in m.points : p.id = q.id,
             \A p, q \in S : p.id = q.id => p = q
      PROVE  IsMap(n)
    BY <1>1 DEF IsMap
<1>2. ASSUME NEW p \in m.points, n = [m EXCEPT !.points = @ \ {p}]
      PROVE  IsMap(n)
    <2>1. IsFiniteSet(m.points \ {p})
        BY FS_RemoveElement DEF IsMap
    <2> QED
        BY <1>2, <2>1 DEF IsMap
<1>3. ASSUME NEW p \in m.points, NEW q \in Points, q.id = p.id,
             n = [m EXCEPT !.points = (@ \ {p}) \cup {q}]
      PROVE  IsMap(n)
    <2>1. n = [m EXCEPT !.points = (m.points \ {p}) \cup {q}]
        BY <1>3 DEF IsMap
    <2>2. IsFiniteSet((m.points \ {p}) \cup {q})
        BY FS_RemoveElement, FS_AddElement DEF IsMap
    <2> QED
        BY <1>1, <1>3, <2>1, <2>2 DEF IsMap
<1>4. ASSUME NEW p \in m.points
      PROVE  /\ [p EXCEPT !.offset = @ + 1] \in Points
             /\ [p EXCEPT !.offset = @ + 1].id = p.id
             /\ [p EXCEPT !.readable = FALSE] \in Points
             /\ [p EXCEPT !.readable = FALSE].id = p.id
    <2>1. p \in Points
        BY DEF IsMap
    <2>2. [p EXCEPT !.offset = @ + 1] \in Points
        BY <2>1 DEF Points
    <2>3. [p EXCEPT !.offset = @ + 1].id = p.id
        BY <2>1 DEF Points
    <2>4. [p EXCEPT !.readable = FALSE] \in Points
        BY <2>1 DEF Points
    <2>5. [p EXCEPT !.readable = FALSE].id = p.id
        BY <2>1 DEF Points
    <2> QED
        BY <2>2, <2>3, <2>4, <2>5
<1>5. ASSUME NEW d, n = [m EXCEPT !.pending = d]
      PROVE  IsMap(n)
    <2>1. n.points = m.points /\ n.meaning = m.meaning
        BY <1>5 DEF IsMap
    <2>2. n \in [points : SUBSET Points, meaning : {n.meaning}, holds : {n.holds},
                 pending : {n.pending}]
        BY <1>5 DEF IsMap
    <2> QED
        BY <2>1, <2>2 DEF IsMap
<1>6. ASSUME NEW h, n = [m EXCEPT !.holds = h]
      PROVE  IsMap(n)
    BY <1>6 DEF IsMap
<1>7. ASSUME NEW p \in m.points,
             n = [m EXCEPT !.points = (@ \ {p}) \cup {[p EXCEPT !.offset = @ + 1]}]
      PROVE  IsMap(n)
    BY <1>3, <1>4, <1>7
<1>8. ASSUME NEW p \in m.points,
             n = [m EXCEPT !.points = (@ \ {p}) \cup {[p EXCEPT !.readable = FALSE]}]
      PROVE  IsMap(n)
    BY <1>3, <1>4, <1>8
<1> QED
    BY Zenon, <1>2, <1>5, <1>6, <1>7, <1>8 DEF Revisions

\* An edit leaves a request a request.
LEMMA BlockEditIsBlock ==
    ASSUME NEW b, IsBlock(b), NEW c \in BlockEdits(b)
    PROVE  IsBlock(c)
<1>1. /\ IsBlock([b EXCEPT !.first = @ + 1])
      /\ IsBlock([b EXCEPT !.last = @ + 1])
      /\ IsBlock([b EXCEPT !.last = @ - 1])
    BY DEF IsBlock
<1>2. IsBlock([b EXCEPT !.function = 5])
    BY DEF IsBlock
<1>3. IsBlock([b EXCEPT !.bridges = {}])
    BY DEF IsBlock
<1>4. IsBlock([b EXCEPT !.interval = 500])
    BY DEF IsBlock
<1>5. \A t : IsBlock([b EXCEPT !.traces = t])
    BY DEF IsBlock
<1>7. ASSUME NEW t
      PROVE  IsBlock([b EXCEPT !.first = @ + 1, !.last = @ + 1, !.traces = t])
    <2> DEFINE c1 == [b EXCEPT !.first = @ + 1]
               c2 == [c1 EXCEPT !.last = @ + 1]
    <2>1. IsBlock(c1) /\ b.last + 1 = c1.last + 1
        BY DEF IsBlock
    <2>2. [b EXCEPT !.first = @ + 1, !.last = @ + 1, !.traces = t] = [c2 EXCEPT !.traces = t]
        BY DEF IsBlock
    <2>3. IsBlock(c2)
        <3> HIDE DEF c1
        <3> QED
            BY <2>1 DEF IsBlock
    <2> HIDE DEF c2
    <2> QED
        BY <2>2, <2>3 DEF IsBlock
<1>6. [b EXCEPT !.traces[1].offset = @ + 1]
        = [b EXCEPT !.traces = [b.traces EXCEPT ![1].offset = @ + 1]]
    BY DEF IsBlock
<1> DEFINE retraced == {[b EXCEPT !.traces = <<>>], [b EXCEPT !.traces = Tail(@)],
                [b EXCEPT !.traces = Append(@, @[1])], [b EXCEPT !.traces[1].offset = @ + 1]}
           resized == {[b EXCEPT !.first = @ + 1], [b EXCEPT !.last = @ + 1],
                [b EXCEPT !.last = @ - 1]}
           others == {[b EXCEPT !.function = 5], [b EXCEPT !.bridges = {}],
                [b EXCEPT !.interval = 500]}
           moved == [b EXCEPT !.first = @ + 1, !.last = @ + 1,
                        !.traces = [k \in DOMAIN @ |-> [@[k] EXCEPT !.offset = @ + 1]]]
<1>8. \A x \in retraced : IsBlock(x)
    BY <1>5, <1>6
<1>9. \A x \in resized : IsBlock(x)
    BY <1>1
<1>10. \A x \in others : IsBlock(x)
    BY <1>2, <1>3, <1>4
<1>11. IsBlock(moved)
    BY <1>7
<1>12. c \in retraced \cup resized \cup others \cup {moved}
    BY DEF BlockEdits
<1> HIDE DEF retraced, resized, others, moved
<1> QED
    BY <1>8, <1>9, <1>10, <1>11, <1>12

\* The options an editor may write are options.
LEMMA OptionEditIsOptions ==
    ASSUME NEW p, IsPlan(p), p.options # None, NEW o \in OptionEdits(p)
    PROVE  IsOptions(o)
    BY GateAssumption DEF IsPlan, IsOptions, OptionEdits

\* An edit leaves a plan a plan.
LEMMA EditIsPlan ==
    ASSUME NEW p, IsPlan(p), NEW q \in PlanEdits(p)
    PROVE  IsPlan(q)
<1>1. p.blocks \in Seq({p.blocks[k] : k \in DOMAIN p.blocks})
    BY DEF IsPlan, IsBlocks
<1>2. Len(p.blocks) \in Nat /\ DOMAIN p.blocks = 1..Len(p.blocks)
    BY <1>1, LenProperties
<1>3. ASSUME NEW k \in DOMAIN p.blocks, NEW b \in BlockEdits(p.blocks[k]),
             q = [p EXCEPT !.blocks[k] = b]
      PROVE  IsPlan(q)
    <2> DEFINE s == [p.blocks EXCEPT ![k] = b]
    <2>1. q = [p EXCEPT !.blocks = s]
        BY <1>3 DEF IsPlan
    <2>2. s = [j \in 1..Len(p.blocks) |-> s[j]] /\ IsBlock(b)
        BY <1>2, <1>3, BlockEditIsBlock DEF IsPlan, IsBlocks
    <2>3. IsBlocks(s)
        <3>1. s \in Seq({s[j] : j \in DOMAIN s})
            <4> HIDE DEF s
            <4> QED
                BY <1>2, <2>2, SequenceOfValues
        <3> QED
            BY <1>2, <2>2, <3>1 DEF IsPlan, IsBlocks
    <2> HIDE DEF s
    <2> QED
        BY <2>1, <2>3, BlocksChanged
<1>4. ASSUME NEW k \in DOMAIN p.blocks,
             q = [p EXCEPT !.blocks = [j \in 1..Len(@) - 1 |-> @[IF j < k THEN j ELSE j + 1]]]
      PROVE  IsPlan(q)
    <2> DEFINE n == Len(p.blocks) - 1
               s == [j \in 1..n |-> p.blocks[IF j < k THEN j ELSE j + 1]]
    <2>1. q = [p EXCEPT !.blocks = s]
        BY <1>4 DEF IsPlan
    <2>2. n \in Nat /\ s = [j \in 1..n |-> s[j]]
        BY <1>2
    <2>3. s \in Seq({s[j] : j \in DOMAIN s})
        <3> HIDE DEF n, s
        <3> QED
            BY <2>2, SequenceOfValues
    <2>4. \A j \in 1..n : (IF j < k THEN j ELSE j + 1) \in DOMAIN p.blocks
        BY <1>2
    <2>5. IsBlocks(s)
        <3>1. DOMAIN s = 1..n /\ \A j \in DOMAIN s : IsBlock(s[j])
            BY <2>4 DEF IsPlan, IsBlocks
        <3> QED
            BY <2>3, <3>1 DEF IsBlocks
    <2> HIDE DEF s
    <2> QED
        BY <2>1, <2>5, BlocksChanged
<1>5. ASSUME NEW k \in DOMAIN p.blocks, NEW n,
             q = [p EXCEPT !.blocks = Append(@, [@[k] EXCEPT !.id = n])]
      PROVE  IsPlan(q)
    <2> DEFINE b == [p.blocks[k] EXCEPT !.id = n]
               s == Append(p.blocks, b)
    <2>1. q = [p EXCEPT !.blocks = s]
        BY <1>5 DEF IsPlan
    <2>2. IsBlock(b)
        BY <1>5 DEF IsPlan, IsBlocks, IsBlock
    <2> HIDE DEF b
    <2>3. p.blocks \in Seq({p.blocks[j] : j \in DOMAIN p.blocks} \cup {b})
        BY <1>1, <1>2
    <2>4. /\ s = [j \in 1..Len(p.blocks) + 1 |-> s[j]]
          /\ \A j \in 1..Len(p.blocks) + 1 : s[j] = b \/ \E i \in DOMAIN p.blocks : s[j] = p.blocks[i]
        <3>1. s \in Seq({p.blocks[j] : j \in DOMAIN p.blocks} \cup {b}) /\ Len(s) = Len(p.blocks) + 1
            BY <2>3, AppendProperties
        <3>2. /\ DOMAIN s = 1..Len(p.blocks) + 1
              /\ \A j \in DOMAIN s : s[j] \in {p.blocks[i] : i \in DOMAIN p.blocks} \cup {b}
            <4> HIDE DEF s
            <4> QED
                BY <3>1
        <3> HIDE DEF s
        <3>3. s = [j \in DOMAIN s |-> s[j]]
            BY <3>1
        <3> QED
            BY <3>2, <3>3
    <2>5. IsBlocks(s)
        <3>1. s \in Seq({s[j] : j \in DOMAIN s})
            <4> HIDE DEF s
            <4> QED
                BY <1>2, <2>4, SequenceOfValues
        <3> QED
            BY <1>2, <2>2, <2>4, <3>1 DEF IsPlan, IsBlocks
    <2> HIDE DEF s
    <2> QED
        BY <2>1, <2>5, BlocksChanged
<1>6. /\ IsPlan([p EXCEPT !.map = None]) /\ IsPlan([p EXCEPT !.options = None])
      /\ IsPlan([p EXCEPT !.options = None, !.options_hash = None])
    BY DEF IsPlan
<1>7. ASSUME p.options # None, NEW o \in OptionEdits(p)
      PROVE  IsPlan([p EXCEPT !.options = o]) /\ IsPlan(Sealed([p EXCEPT !.options = o]))
    BY <1>7, OptionEditIsOptions, OptionsChanged
<1>8. CASE q \in BlockEdited(p)
    BY <1>3, <1>8 DEF BlockEdited
<1>9. CASE q \in BlockDropped(p)
    BY <1>4, <1>9 DEF BlockDropped
<1>10. CASE q \in BlockDoubled(p)
    <2>1. PICK k \in DOMAIN p.blocks :
            q \in {[p EXCEPT !.blocks = Append(@, [@[k] EXCEPT !.id = n])]
                    : n \in {1, Len(p.blocks) + 1}}
        BY Zenon, <1>10 DEF BlockDoubled
    <2>2. PICK n \in {1, Len(p.blocks) + 1} :
            q = [p EXCEPT !.blocks = Append(@, [@[k] EXCEPT !.id = n])]
        BY Zenon, <2>1
    <2> QED
        BY <1>5, <2>2
<1>11. CASE q \in Unbound(p)
    BY <1>6, <1>11 DEF Unbound
<1>12. CASE q \in OptionsEdited(p)
    BY <1>7, <1>12 DEF OptionsEdited
<1> QED
    BY <1>8, <1>9, <1>10, <1>11, <1>12 DEF PlanEdits

LEMMA GateInitInv == GateInit => GateInv
<1> SUFFICES ASSUME GateInit PROVE GateInv
    OBVIOUS
<1>1. PICK c \in Cases : map = c.map /\ given = Arguments(c)
    BY DEF GateInit
<1>2. IInv
    BY <1>1, InitIInv, GateAssumption DEF GateInit, Init
<1> QED
    BY <1>1, <1>2, GateAssumption DEF GateInit, GateInv

\* The plan file of a plan is a plan.
LEMMA MadeIsPlan ==
    ASSUME IInv, MakePlan
    PROVE  IsPlan(plan')
<1> DEFINE s == [k \in DOMAIN requests |-> BlockFile(requests[k], k)]
<1>1. plan' = [map |-> map, options |-> Options, options_hash |-> Options, blocks |-> s]
    BY DEF MakePlan
<1>2. requests \in Seq(BlockType) /\ given \in Inputs
    BY DEF IInv, Typed
<1>3. Len(requests) \in Nat /\ DOMAIN requests = 1..Len(requests)
    BY <1>2, LenProperties
<1>4. \A k \in DOMAIN requests : IsBlock(BlockFile(requests[k], k))
    <2> SUFFICES ASSUME NEW k \in DOMAIN requests
                 PROVE  IsBlock(BlockFile(requests[k], k))
        OBVIOUS
    <2>1. requests[k] \in BlockType
        BY <1>2, <1>3
    <2>2. /\ requests[k].scope \in Scopes
          /\ requests[k].first \in Int /\ requests[k].last \in Int
        BY <2>1, OffsetAssumption DEF BlockType
    <2> HIDE DEF s
    <2> QED
        BY <2>2 DEF BlockFile, IsBlock
<1>5. IsBlocks(s)
    <2>1. s = [k \in 1..Len(requests) |-> s[k]]
        BY <1>3
    <2>2. s \in Seq({s[k] : k \in DOMAIN s})
        <3> HIDE DEF s
        <3> QED
            BY <1>3, <2>1, SequenceOfValues
    <2> QED
        BY <1>4, <2>2 DEF IsBlocks
<1>6. IsOptions(Options)
    BY <1>2, InputsAssumption, LimitAssumption DEF IsOptions, Options
<1> HIDE DEF s
<1> QED
    BY <1>1, <1>5, <1>6 DEF IsPlan

\* Neither the planner nor an editor nor a build breaks the form of the map and
\* the plan, and nothing changes either after the pack is built.
LEMMA GateNextInv == GateInv /\ [GateNext]_gateVars => GateInv'
<1> SUFFICES ASSUME GateInv, [GateNext]_gateVars PROVE GateInv'
    OBVIOUS
<1>1. CASE PlanStep
    <2>1. IInv'
        BY <1>1, NextInv DEF PlanStep, GateInv
    <2> QED
        BY <1>1, <2>1 DEF PlanStep, GateInv
<1>2. ASSUME UNCHANGED vars PROVE IInv'
    BY <1>2, NextInv DEF GateInv
<1>3. CASE MakePlan
    <2>1. IsPlan(plan')
        BY <1>3, MadeIsPlan DEF GateInv
    <2> QED
        BY <1>2, <1>3, <2>1 DEF MakePlan, GateInv
<1>4. CASE EditPlan
    <2>1. IsPlan(plan')
        BY <1>4, EditIsPlan DEF EditPlan, GateInv
    <2> QED
        BY <1>2, <1>4, <2>1 DEF EditPlan, GateInv
<1>5. CASE ReviseMap
    <2>1. IsMap(map')
        BY <1>5, RevisionIsMap DEF ReviseMap, GateInv
    <2> QED
        BY <1>2, <1>5, <2>1 DEF ReviseMap, GateInv
<1>6. ASSUME NEW selection \in Selections, NEW mode \in {"probe", "final"},
             BuildPack(selection, mode)
      PROVE  GateInv'
    <2> DEFINE results == [t \in selection |-> Result(t, map, plan, mode)]
    <2>1. /\ plan # None /\ UNCHANGED <<vars, map, plan>>
          /\ pack'.mode = mode /\ pack'.results = results
        BY <1>6 DEF BuildPack
    <2>2. /\ DOMAIN results \subseteq Profiles
          /\ \A t \in DOMAIN results : results[t] = Result(t, map, plan, mode)
        BY GateAssumption
    <2> HIDE DEF results
    <2> QED
        BY <1>2, <2>1, <2>2 DEF GateInv
<1>7. CASE UNCHANGED gateVars
    BY <1>2, <1>7 DEF gateVars, GateInv
<1> QED
    BY <1>1, <1>3, <1>4, <1>5, <1>6, <1>7 DEF GateNext

\* The map, the plan and the pack keep their form, and the pack its plan.
THEOREM GateInvariance == GateSpec => []GateInv
    BY GateInitInv, GateNextInv, PTL DEF GateSpec


----------------------------------------------------------------------------
\* A set of natural numbers has a least element: among the intervals from 0
\* to one of them, all subsets of a finite one, none is within the shortest.
LEMMA Least ==
    ASSUME NEW T, T \subseteq Nat, T # {}
    PROVE  \E x \in T : \A y \in T : x <= y
<1>1. PICK t \in T : TRUE
    OBVIOUS
<1> DEFINE below == {0..y : y \in {z \in T : z <= t}}
<1>2. below \subseteq SUBSET (0..t) /\ below # {}
    BY <1>1
<1>3. IsWellFoundedOn(StrictSubsetOrdering(0..t), FiniteSubsetsOf(0..t))
    BY <1>1, FS_StrictSubsetOrderingWellFounded
<1>4. below \subseteq FiniteSubsetsOf(0..t)
    BY <1>1, <1>2, FS_Interval, FS_Subset DEF FiniteSubsetsOf
<1>5. PICK b \in below : \A a \in below : ~(<<a, b>> \in StrictSubsetOrdering(0..t))
    BY <1>2, <1>3, <1>4, WFMin
<1>6. PICK x \in T : x <= t /\ b = 0..x
    BY <1>5
<1>7. ASSUME NEW y \in T PROVE x <= y
    <2> SUFFICES ASSUME y < x PROVE FALSE
        BY <1>6
    <2>1. 0..y \in below
        BY <1>1, <1>6, <1>7
    <2>2. 0..y \subseteq 0..x /\ 0..y # 0..x
        BY <1>6, <1>7
    <2> QED
        BY <2>1, <2>2, <1>2, <1>5, <1>6 DEF StrictSubsetOrdering
<1> QED
    BY <1>7

\* A register between two points that no point touches lies in a gap.
LEMMA GapAround ==
    ASSUME NEW S \in SUBSET Points, NEW o \in Int, NEW p0 \in S, NEW q0 \in S,
           EndOf(p0) < o, o < q0.offset, \A r \in S : ~Within(r, o)
    PROVE  GapsOf(S) # {}
<1>1. \A r \in S : r.offset \in Int /\ EndOf(r) \in Int
    BY DEF Points, EndOf
<1>2. \A r \in S : EndOf(r) < o \/ o < r.offset
    BY <1>1 DEF Within
<1> DEFINE left == {r \in S : EndOf(r) < o}
           right == {r \in S : o < r.offset}
<1>3. PICK p \in left : \A r \in left : EndOf(r) <= EndOf(p)
    <2> DEFINE T == {o - 1 - EndOf(r) : r \in left}
    <2>1. T \subseteq Nat /\ T # {}
        BY <1>1
    <2>2. PICK x \in T : \A y \in T : x <= y
        <3> HIDE DEF T
        <3> QED
            BY <2>1, Least
    <2>3. PICK p \in left : x = o - 1 - EndOf(p)
        BY <2>2
    <2>4. \A r \in left : o - 1 - EndOf(p) <= o - 1 - EndOf(r)
        BY <2>2, <2>3
    <2> QED
        BY <1>1, <2>3, <2>4
<1>4. PICK q \in right : \A r \in right : q.offset <= r.offset
    <2> DEFINE T == {r.offset - o : r \in right}
    <2>1. T \subseteq Nat /\ T # {}
        BY <1>1
    <2>2. PICK x \in T : \A y \in T : x <= y
        <3> HIDE DEF T
        <3> QED
            BY <2>1, Least
    <2>3. PICK q \in right : x = q.offset - o
        BY <2>2
    <2>4. \A r \in right : q.offset - o <= r.offset - o
        BY <2>2, <2>3
    <2> QED
        BY <1>1, <2>3, <2>4
<1>5. /\ EndOf(p) + 1 <= q.offset - 1
      /\ \A r \in S : EndOf(r) < EndOf(p) + 1 \/ q.offset - 1 < r.offset
    BY <1>1, <1>2, <1>3, <1>4
<1>6. <<EndOf(p) + 1, q.offset - 1>> \in GapsOf(S)
    BY <1>3, <1>4, <1>5 DEF GapsOf
<1> QED
    BY <1>6

\* Files are only written for a plan that the common preflight clears.
LEMMA GeneratedIsClear ==
    ASSUME GateInv, NEW t \in Generated
    PROVE  /\ plan # None /\ pack # None /\ t \in Profiles
           /\ Preflight(map, plan, pack.mode) = {}
           /\ TargetFindings(t, map, Planned, pack.mode) = {}
<1>1. pack # None /\ t \in DOMAIN pack.results /\ pack.results[t] = "generated"
    BY DEF Generated
<1>2. Result(t, map, plan, pack.mode) = "generated" /\ plan # None /\ t \in Profiles
    BY <1>1 DEF GateInv
<1> HIDE DEF GateInv
<1>3. ASSUME NEW common, NEW target,
             (IF (IF common # {} THEN common ELSE target) = {} THEN "generated" ELSE "held")
                = "generated"
      PROVE  common = {} /\ target = {}
    BY <1>3
<1> QED
    BY <1>1, <1>2, <1>3 DEF Result, Planned

LEMMA CodeClear ==
    ASSUME NEW test \in BOOLEAN, NEW code, Code(test, code) = {}
    PROVE  ~test
    BY DEF Code

\* What each finding that is absent says.
LEMMA FormClear ==
    ASSUME NEW m, NEW b, FormFindings(m, b) = {}
    PROVE  /\ b.function = FunctionOf[b.scope]
           /\ ~(Quantity(b) < 1)
           /\ ~(Quantity(b) > ProtocolLimit[b.scope])
           /\ \A p \in m.points : p.id \in Listed(b) => p.scope = b.scope
           /\ \A p \in PointsFor(m, b) : Inside(p, b)
    BY DEF FormFindings, Code

LEMMA BlockClear ==
    ASSUME NEW m, NEW blocks, NEW mode, BlockFindings(m, blocks, mode) = {}
    PROVE  /\ \A k \in DOMAIN blocks : FormFindings(m, blocks[k]) = {}
           /\ mode = "final" /\ blocks # <<>> =>
                \A p \in m.points : p.id \in PlannedIds(m, blocks)
    BY DEF BlockFindings, Code

LEMMA PurposeClear ==
    ASSUME NEW m, NEW b, NEW options, PurposeFindings(m, b, options) = {}
    PROVE  /\ ~(Quantity(b) > options.limits[b.scope])
           /\ \A p \in ExactPoints(m, b) : Inside(p, b)
           /\ \E p \in ExactPoints(m, b) : p.offset = b.first
           /\ \E p \in ExactPoints(m, b) : EndOf(p) = b.last
           /\ GapsOf(ExactPoints(m, b)) # {} => IslandsFor(b, options) # {}
    BY DEF PurposeFindings, Code

LEMMA PlanClear ==
    ASSUME NEW m, NEW blocks, NEW options, PlanFindings(m, blocks, options) = {}
    PROVE  /\ \A k \in DOMAIN blocks : PurposeFindings(m, blocks[k], options) = {}
           /\ \A j, k \in DOMAIN blocks : j # k /\ blocks[j].scope = blocks[k].scope
                => ~Meets(blocks[j].first, blocks[j].last, blocks[k])
    BY DEF PlanFindings, Code


\* A request without findings reads no register that nothing justifies.
LEMMA RequestIsJustified ==
    ASSUME NEW m, IsMap(m), NEW b, IsBlock(b), NEW options,
           options.islands \subseteq Islands,
           FormFindings(m, b) = {}, PurposeFindings(m, b, options) = {},
           NEW o \in b.first..b.last
    PROVE  \/ \E p \in m.points :
                p.scope = b.scope /\ Within(p, o) /\ p \in PointsFor(m, b)
           \/ \E i \in options.islands :
                /\ i.scope = b.scope /\ i.first <= o /\ o <= i.last
                /\ \A u \in options.unsafe : u.scope = b.scope => ~Meets(b.first, b.last, u)
<1> DEFINE mine == ExactPoints(m, b)
<1>1. b.first \in Int /\ b.last \in Int /\ o \in Int
    BY DEF IsBlock
<1>2. mine \in SUBSET Points /\ \A p \in mine : p \in m.points /\ p.scope = b.scope
    BY DEF ExactPoints, PointsFor, IsMap
<1>3. /\ \E p \in mine : p.offset = b.first
      /\ \E p \in mine : EndOf(p) = b.last
      /\ GapsOf(mine) # {} => IslandsFor(b, options) # {}
    BY PurposeClear
<1>4. mine \subseteq PointsFor(m, b)
    BY DEF ExactPoints
<1> HIDE DEF mine
<1>5. CASE \E p \in mine : Within(p, o)
    BY <1>2, <1>4, <1>5
<1>6. CASE \A p \in mine : ~Within(p, o)
    <2>1. \A p \in mine : p.offset \in Int /\ EndOf(p) \in Int
        BY <1>2 DEF Points, EndOf
    <2>2. \E p, q \in mine : EndOf(p) < o /\ o < q.offset
        BY <1>1, <1>3, <1>6, <2>1 DEF Within
    <2>3. GapsOf(mine) # {}
        BY <1>1, <1>2, <1>6, <2>2, GapAround
    <2>4. PICK i \in IslandsFor(b, options) : TRUE
        BY <1>3, <2>3
    <2>5. /\ i \in options.islands /\ i.scope = b.scope
          /\ i.first <= b.first /\ b.last <= i.last
          /\ \A u \in options.unsafe : u.scope = b.scope => ~Meets(b.first, b.last, u)
        BY <2>4 DEF IslandsFor
    <2>6. i.first \in Int /\ i.last \in Int
        BY <2>5 DEF Islands
    <2>7. i.first <= o /\ o <= i.last
        BY <1>1, <2>5, <2>6
    <2> QED
        BY <2>5, <2>7
<1> QED
    BY <1>5, <1>6

\* Whatever was done to the plan and the map before the pack was built, a
\* client that gets files for a plan bound to its map reads no register without
\* a point or evidence, none twice, and no more at a time than the plan allows.
THEOREM ReadsAreJustifiedAlways == GateSpec => []ReadsAreJustified
<1>1. ASSUME GateInv, NEW t \in Generated, plan.map # None
      PROVE  ReadsAreJustified
    <2> DEFINE options == Authority(plan)
               blocks == plan.blocks
    <2>1. plan # None /\ Preflight(map, plan, pack.mode) = {}
        BY <1>1, GeneratedIsClear
    <2>2. IsMap(map) /\ IsPlan(plan)
        BY <1>1, <2>1 DEF GateInv
    <2>3. plan.map = map
        BY <1>1, <2>1 DEF Preflight, HashFindings, Code
    <2>4. /\ BlockFindings(map, plan.blocks, pack.mode) = {}
          /\ PlanFindings(map, plan.blocks, Authority(plan)) = {}
        BY <1>1, <2>1, <2>3 DEF Preflight, Bound
    <2>5. /\ \A k \in DOMAIN blocks : FormFindings(map, blocks[k]) = {}
          /\ \A k \in DOMAIN blocks : PurposeFindings(map, blocks[k], options) = {}
          /\ \A j, k \in DOMAIN blocks : j # k /\ blocks[j].scope = blocks[k].scope
                => ~Meets(blocks[j].first, blocks[j].last, blocks[k])
        BY <2>4, BlockClear, PlanClear
    <2>6. \A k \in DOMAIN blocks : IsBlock(blocks[k])
        BY <2>2 DEF IsPlan, IsBlocks
    <2>7. options.islands \subseteq Islands /\ options.limits \in [Scopes -> Nat]
        BY <2>2, GateAssumption DEF IsPlan, IsOptions, Authority, NoOptions
    <2> HIDE DEF options, blocks
    <2>8. ASSUME NEW k \in DOMAIN blocks
          PROVE  /\ Quantity(blocks[k]) \in 1..ProtocolLimit[blocks[k].scope]
                 /\ Quantity(blocks[k]) <= options.limits[blocks[k].scope]
                 /\ blocks[k].function = FunctionOf[blocks[k].scope]
        <3> DEFINE b == blocks[k]
        <3>1. /\ b.scope \in Scopes /\ Quantity(b) \in Int
              /\ ProtocolLimit[b.scope] \in Int /\ options.limits[b.scope] \in Int
            BY <2>6, <2>7, <2>8, GateAssumption DEF IsBlock, Quantity
        <3>2. /\ b.function = FunctionOf[b.scope]
              /\ ~(Quantity(b) < 1) /\ ~(Quantity(b) > ProtocolLimit[b.scope])
            BY <2>5, <2>8, FormClear
        <3>3. ~(Quantity(b) > options.limits[b.scope])
            BY <2>5, <2>8, PurposeClear
        <3> QED
            BY <3>1, <3>2, <3>3
    <2>9. ASSUME NEW k \in DOMAIN blocks, NEW o \in blocks[k].first..blocks[k].last
          PROVE  \/ \E p \in map.points :
                        /\ p.scope = blocks[k].scope /\ Within(p, o)
                        /\ p \in PointsFor(map, blocks[k])
                 \/ \E i \in options.islands :
                        /\ i.scope = blocks[k].scope /\ i.first <= o /\ o <= i.last
                        /\ \A u \in options.unsafe : u.scope = blocks[k].scope
                            => ~Meets(blocks[k].first, blocks[k].last, u)
        BY <2>2, <2>5, <2>6, <2>7, <2>9, RequestIsJustified
    <2>10. ASSUME NEW j \in DOMAIN blocks, NEW k \in DOMAIN blocks, j # k,
                  blocks[j].scope = blocks[k].scope
           PROVE  blocks[j].first..blocks[j].last \cap blocks[k].first..blocks[k].last = {}
        <3>1. ~Meets(blocks[j].first, blocks[j].last, blocks[k])
            BY <2>5, <2>10
        <3>2. /\ blocks[j].first \in Int /\ blocks[j].last \in Int
              /\ blocks[k].first \in Int /\ blocks[k].last \in Int
            BY <2>6, <2>10 DEF IsBlock
        <3> QED
            BY <3>1, <3>2 DEF Meets
    <2> QED
        BY <2>3, <2>8, <2>9, <2>10 DEF ReadsAreJustified, Planned, options, blocks
<1>2. GateInv => ReadsAreJustified
    BY <1>1 DEF ReadsAreJustified
<1> QED
    BY <1>2, GateInvariance, PTL


----------------------------------------------------------------------------
LEMMA PointClear ==
    ASSUME NEW m, PointFindings(m, "final") = {}, NEW p \in m.points
    PROVE  /\ p.span \in 1..125
           /\ ~(Many(m, p) /\ m.meaning[p.id].layout = None)
    BY DEF PointFindings, Code

\* A point that a final preflight clears is in some request of its scope.
LEMMA PointIsRead ==
    ASSUME NEW m, IsMap(m), NEW blocks, NEW p \in m.points,
           BlockFindings(m, blocks, "final") = {}, blocks # <<>>
    PROVE  \E k \in DOMAIN blocks :
                /\ p \in PointsFor(m, blocks[k]) /\ blocks[k].scope = p.scope
                /\ Inside(p, blocks[k])
<1>1. /\ \A k \in DOMAIN blocks : FormFindings(m, blocks[k]) = {}
      /\ p.id \in PlannedIds(m, blocks)
    BY BlockClear
<1>2. PICK k \in DOMAIN blocks :
            p.id \in Listed(blocks[k]) \/ \E q \in PointsFor(m, blocks[k]) : q.id = p.id
    BY <1>1 DEF PlannedIds
<1> DEFINE b == blocks[k]
<1> HIDE DEF b
<1>3. FormFindings(m, b) = {} /\ (p.id \in Listed(b) \/ \E q \in PointsFor(m, b) : q.id = p.id)
    BY <1>1, <1>2 DEF b
<1>4. p \in PointsFor(m, b) /\ b.scope = p.scope
    <2>1. \A q \in PointsFor(m, b) : q \in m.points
        BY DEF PointsFor
    <2>2. p.id \in Listed(b) \/ p \in PointsFor(m, b)
        BY <1>3, <2>1 DEF IsMap
    <2>3. CASE p.id \in Listed(b)
        <3>1. b.traces # <<>>
            BY <2>3 DEF Listed
        <3>2. p.scope = b.scope
            BY <1>3, <2>3, FormClear
        <3> QED
            BY <2>3, <3>1, <3>2 DEF PointsFor
    <2>4. CASE p.id \notin Listed(b)
        <3>1. b.traces = <<>>
            BY <2>2, <2>4 DEF PointsFor
        <3> QED
            BY <2>2, <2>4, <3>1 DEF PointsFor
    <2> QED
        BY <2>3, <2>4
<1>5. Inside(p, b)
    BY <1>3, <1>4, FormClear
<1> QED
    BY <1>4, <1>5 DEF b

LEMMA GavinyingClear ==
    ASSUME NEW m, NEW blocks, NEW b \in blocks, GavinyingFindings(m, blocks, "final") = {}
    PROVE  /\ \A p \in PointsFor(m, b) : ~m.meaning[p.id].shifted
           /\ None \notin GavinyingLayouts(m, b)
           /\ ~(Cardinality(GavinyingLayouts(m, b) \ {None}) > 1)
<1>1. GavinyingRequest(m, b, "final") = {}
    BY DEF GavinyingFindings
<1> QED
    BY <1>1 DEF GavinyingRequest, Code

\* One poll row takes one layout for all its values.
LEMMA GavinyingShows ==
    ASSUME NEW m, IsMap(m), PointFindings(m, "final") = {}, NEW blocks, NEW b \in blocks,
           GavinyingFindings(m, blocks, "final") = {}, NEW p \in PointsFor(m, b), Fits(m, p)
    PROVE  Meant(m, p) \in GavinyingRow(m, b)
<1> DEFINE v == m.meaning[p.id]
           layouts == GavinyingLayouts(m, b)
           endian == IF layouts = {} THEN "ABCD"
                     ELSE IF "ABCD" \in layouts THEN "ABCD" ELSE CHOOSE x \in layouts : TRUE
<1>1. p \in m.points /\ v \in Meanings
    BY DEF PointsFor, IsMap
<1>2. ~v.shifted /\ None \notin layouts /\ ~(Cardinality(layouts \ {None}) > 1)
    BY GavinyingClear
<1>3. v.shifted = FALSE
    BY <1>1, <1>2 DEF Meanings
<1>4. layouts \subseteq {"ABCD", "CDAB"}
    BY <1>2 DEF GavinyingLayouts, PointsFor, IsMap, Meanings
<1>5. Many(m, p) => v.layout \in layouts
    BY DEF GavinyingLayouts
<1> HIDE DEF layouts
<1>6. ~("ABCD" \in layouts /\ "CDAB" \in layouts)
    <2> SUFFICES ASSUME "ABCD" \in layouts, "CDAB" \in layouts PROVE FALSE
        OBVIOUS
    <2>1. layouts \ {None} = {"ABCD", "CDAB"}
        BY <1>2, <1>4
    <2>2. Cardinality({"ABCD", "CDAB"}) = 2
        <3>1. IsFiniteSet({"ABCD"}) /\ Cardinality({"ABCD"}) = 1
            BY FS_Singleton
        <3>2. Cardinality({"ABCD"} \cup {"CDAB"}) = Cardinality({"ABCD"}) + 1
            BY <3>1, FS_AddElement
        <3>3. {"ABCD"} \cup {"CDAB"} = {"ABCD", "CDAB"}
            OBVIOUS
        <3> QED
            BY <3>1, <3>2, <3>3
    <2> QED
        BY <1>2, <2>1, <2>2
<1>7. Many(m, p) => endian = v.layout
    BY <1>4, <1>5, <1>6
<1>8. Meant(m, p) = Value(p.offset, p.span, v.datatype, endian, v.scaled, FALSE)
    BY <1>3, <1>7 DEF Meant, Value, Many
<1>9. p.span = ClientWidth(m, p)
    BY DEF Fits
<1> QED
    BY <1>8, <1>9 DEF GavinyingRow, layouts

\* One command shows a run of values of one type and width.
LEMMA ProconxClear ==
    ASSUME NEW m, NEW blocks, NEW b \in blocks, ProconxFindings(m, blocks, "final") = {},
           NEW width, width = ProconxWidth(m, b, "final"), PointsFor(m, b) # {}
    PROVE  /\ \A p \in PointsFor(m, b) : ~m.meaning[p.id].scaled /\ ~m.meaning[p.id].shifted
           /\ \A p \in PointsFor(m, b) :
                Many(m, p) => m.meaning[p.id].layout \in {"ABCD", None}
           /\ ~ProconxMixedTypes(m, b)
           /\ Quantity(b) = Cardinality(PointsFor(m, b)) * width
           /\ \A p \in PointsFor(m, b) : \E k \in 0..Cardinality(PointsFor(m, b)) - 1 :
                p.offset = b.first + k * width
           /\ \A p \in PointsFor(m, b) : p.span = width
<1>1. ProconxRequest(m, b, "final") = {}
    BY DEF ProconxFindings
<1>2. /\ \A p \in PointsFor(m, b) : ~m.meaning[p.id].scaled /\ ~m.meaning[p.id].shifted
      /\ ~ProconxMixedTypes(m, b)
    BY <1>1 DEF ProconxRequest, Code
<1>3. \A p \in PointsFor(m, b) : Many(m, p) => m.meaning[p.id].layout \in {"ABCD", None}
    BY <1>1 DEF ProconxRequest, Code
<1>4. /\ Quantity(b) = Cardinality(PointsFor(m, b)) * width
      /\ {p.offset : p \in PointsFor(m, b)} =
            {b.first + k * width : k \in 0..Cardinality(PointsFor(m, b)) - 1}
      /\ \A p \in PointsFor(m, b) : p.span = width
    <2> DEFINE w == ProconxWidth(m, b, "final")
               n == Cardinality(PointsFor(m, b))
               gaps == /\ PointsFor(m, b) # {}
                       /\ \/ Quantity(b) # n * w
                          \/ {p.offset : p \in PointsFor(m, b)} # {b.first + k * w : k \in 0..n - 1}
                          \/ \E p \in PointsFor(m, b) : p.span # w
    <2>1. Code("final" = "final" /\ gaps, "MODPOLL_TYPED_BLOCK_GAPS") = {}
        BY <1>1, Zenon DEF ProconxRequest
    <2>2. ~gaps
        <3> HIDE DEF gaps
        <3>1. gaps \in BOOLEAN
            BY DEF gaps
        <3> QED
            BY <2>1, <3>1, CodeClear
    <2> QED
        BY <2>2
<1>5. \A p \in PointsFor(m, b) : \E k \in 0..Cardinality(PointsFor(m, b)) - 1 :
        p.offset = b.first + k * width
    <2> DEFINE starts == {b.first + k * width : k \in 0..Cardinality(PointsFor(m, b)) - 1}
    <2>1. SUFFICES ASSUME NEW p \in PointsFor(m, b) PROVE p.offset \in starts
        OBVIOUS
    <2>2. p.offset \in {q.offset : q \in PointsFor(m, b)}
        OBVIOUS
    <2> HIDE DEF starts
    <2> QED
        BY <1>4, <2>2 DEF starts
<1> QED
    BY <1>2, <1>3, <1>4, <1>5, Zenon

LEMMA FirstOfPoints ==
    ASSUME NEW S \in SUBSET Points, S # {}
    PROVE  FirstOf(S) \in S
<1> DEFINE T == {p.id : p \in S}
<1>1. T \subseteq Nat /\ T # {}
    BY DEF Points
<1>2. PICK x \in T : \A y \in T : x <= y
    <2> HIDE DEF T
    <2> QED
        BY <1>1, Least
<1>3. \E p \in S : \A q \in S : p.id <= q.id
    BY <1>2
<1> QED
    BY <1>3 DEF FirstOf

\* Two elements of a set of at most one are equal.
LEMMA OneElement ==
    ASSUME NEW S, IsFiniteSet(S), ~(Cardinality(S) > 1), NEW x \in S, NEW y \in S
    PROVE  x = y
<1> SUFFICES ASSUME x # y PROVE FALSE
    OBVIOUS
<1>1. Cardinality({x, y}) = 2
    <2>1. IsFiniteSet({x}) /\ Cardinality({x}) = 1
        BY FS_Singleton
    <2>2. Cardinality({x} \cup {y}) = Cardinality({x}) + 1
        BY <2>1, FS_AddElement
    <2>3. {x} \cup {y} = {x, y}
        OBVIOUS
    <2> QED
        BY <2>1, <2>2, <2>3
<1>2. Cardinality({x, y}) <= Cardinality(S) /\ Cardinality(S) \in Nat
    BY FS_Subset, FS_CardinalityType
<1> QED
    BY <1>1, <1>2

LEMMA ProductQuotient ==
    ASSUME NEW n \in Nat, NEW w \in Nat, w > 0
    PROVE  (n * w) \div w = n
    OBVIOUS

\* A set of elements of S, one for each member of T, is finite if S is.
LEMMA FewDatatypes ==
    ASSUME NEW m, IsMap(m), NEW b
    PROVE  IsFiniteSet({m.meaning[p.id].datatype : p \in PointsFor(m, b)})
<1> DEFINE Names == {"bool", "uint16", "uint32", "float32", "string", None}
           D == {m.meaning[p.id].datatype : p \in PointsFor(m, b)}
<1>1. D \subseteq Names
    BY DEF PointsFor, IsMap, Meanings
<1>2. IsFiniteSet(Names)
    <2> DEFINE ints == {"bool"} \cup {"uint16"} \cup {"uint32"}
    <2>1. IsFiniteSet({"bool"} \cup {"uint16"})
        BY FS_Singleton, FS_AddElement
    <2>2. IsFiniteSet(ints)
        BY <2>1, FS_AddElement
    <2>3. IsFiniteSet(ints \cup {"float32"} \cup {"string"})
        <3> HIDE DEF ints
        <3>1. IsFiniteSet(ints \cup {"float32"})
            BY <2>2, FS_AddElement
        <3> QED
            BY <3>1, FS_AddElement
    <2>4. IsFiniteSet(ints \cup {"float32"} \cup {"string"} \cup {None})
        <3> HIDE DEF ints
        <3> QED
            BY <2>3, FS_AddElement
    <2>5. Names = ints \cup {"float32"} \cup {"string"} \cup {None}
        OBVIOUS
    <2> QED
        BY <2>4, <2>5
<1> HIDE DEF Names, D
<1>3. IsFiniteSet(D)
    BY <1>1, <1>2, FS_Subset
<1> QED
    BY <1>3 DEF D

LEMMA ProconxShows ==
    ASSUME NEW m, IsMap(m), PointFindings(m, "final") = {}, NEW blocks, NEW b \in blocks,
           b.first \in Int, b.last \in Int, ProconxFindings(m, blocks, "final") = {},
           NEW p \in PointsFor(m, b), Fits(m, p), p.scope = b.scope
    PROVE  Meant(m, p) \in ProconxValues(m, b)
<1> DEFINE points == PointsFor(m, b)
           v == m.meaning[p.id]
           f == FirstOf(points)
           w == f.span
<1>1. points \in SUBSET Points /\ points # {} /\ p \in m.points /\ points \subseteq m.points
    BY DEF PointsFor, IsMap
<1>2. f \in points
    BY <1>1, FirstOfPoints
<1>3. w = ProconxWidth(m, b, "final")
    BY <1>1 DEF ProconxWidth
<1>4. /\ ~v.scaled /\ ~v.shifted /\ (Many(m, p) => v.layout \in {"ABCD", None})
      /\ ~ProconxMixedTypes(m, b)
      /\ Quantity(b) = Cardinality(points) * w
      /\ \E k \in 0..Cardinality(points) - 1 : p.offset = b.first + k * w
      /\ p.span = w
    <2> HIDE DEF w
    <2>1. /\ \A q \in points : ~m.meaning[q.id].scaled /\ ~m.meaning[q.id].shifted
          /\ \A q \in points : Many(m, q) => m.meaning[q.id].layout \in {"ABCD", None}
          /\ ~ProconxMixedTypes(m, b)
          /\ Quantity(b) = Cardinality(points) * w
          /\ \A q \in points : \E k \in 0..Cardinality(points) - 1 :
                q.offset = b.first + k * w
          /\ \A q \in points : q.span = w
        BY <1>1, <1>3, ProconxClear
    <2> QED
        BY <2>1
<1>5. p.span \in 1..125 /\ ~(Many(m, p) /\ v.layout = None)
    BY <1>1, PointClear
<1>6. v \in Meanings
    BY <1>1 DEF IsMap
<1>7. v.scaled = FALSE /\ v.shifted = FALSE /\ (Many(m, p) => v.layout = "ABCD")
    BY <1>4, <1>5, <1>6 DEF Meanings
<1>8. v.datatype = m.meaning[f.id].datatype
    <2> DEFINE D == {m.meaning[q.id].datatype : q \in points}
    <2>1. IsFiniteSet(D)
        BY FewDatatypes
    <2>2. ~(Cardinality(D) > 1)
        BY <1>4 DEF ProconxMixedTypes
    <2>3. v.datatype \in D /\ m.meaning[f.id].datatype \in D
        BY <1>2
    <2> HIDE DEF D
    <2> QED
        BY <2>1, <2>2, <2>3, OneElement
<1>9. PICK k \in 0..Cardinality(points) - 1 : p.offset = b.first + k * w
    BY <1>1, <1>4
<1>10. k \in 0..(Quantity(b) \div w) - 1
    <2>1. w \in Nat /\ w > 0
        BY <1>4, <1>5
    <2>2. Cardinality(points) \in Nat
        BY <1>1, FS_Subset, FS_CardinalityType DEF IsMap
    <2>3. Quantity(b) \div w = Cardinality(points)
        <3> HIDE DEF w, points
        <3> QED
            BY <1>4, <2>1, <2>2, ProductQuotient
    <2> QED
        BY <1>9, <2>3
<1>11. Meant(m, p) = Value(b.first + k * w, w, m.meaning[f.id].datatype, "ABCD", FALSE, FALSE)
    BY <1>4, <1>7, <1>8, <1>9 DEF Meant, Value, Many
<1>12. CASE b.scope \notin BitScopes
    <2>1. ClientWidth(m, f) = w
        BY <1>4, <1>8 DEF Fits, ClientWidth
    <2> QED
        BY <1>10, <1>11, <1>12, <2>1 DEF ProconxValues
<1>13. CASE b.scope \in BitScopes
    <2>1. v.datatype = "bool"
        BY <1>13 DEF Fits
    <2>2. w = 1
        BY <1>4, <2>1 DEF Fits, ClientWidth, DecodedWidth
    <2>3. Meant(m, p) = Value(p.offset, 1, "bool", None, FALSE, FALSE)
        <3>1. Meant(m, p) = Value(p.offset, 1, "bool", v.layout, FALSE, FALSE)
            BY <1>4, <1>7, <2>1, <2>2 DEF Meant
        <3>2. \A l : Value(p.offset, 1, "bool", l, FALSE, FALSE)
                    = Value(p.offset, 1, "bool", None, FALSE, FALSE)
            BY DEF Value
        <3> QED
            BY <3>1, <3>2
    <2>4. p.offset \in b.first..b.last
        <3>1. k \in 0..(Quantity(b) \div 1) - 1 /\ p.offset = b.first + k * 1
            BY <1>9, <1>10, <2>2
        <3> QED
            BY <3>1 DEF Quantity
    <2> QED
        BY <1>13, <2>3, <2>4 DEF ProconxValues
<1> QED
    BY <1>12, <1>13

LEMMA WitteShows ==
    ASSUME NEW m, IsMap(m), NEW blocks, NEW b \in blocks,
           WitteFindings(m, blocks, "final") = {}, NEW p \in PointsFor(m, b),
           Inside(p, b), b.first \in Int, b.last \in Int
    PROVE  \E o \in b.first..b.last :
                Meant(m, p) = Value(o, 1, "uint16", None, FALSE, FALSE)
<1> DEFINE v == m.meaning[p.id]
<1>1. p \in m.points /\ v \in Meanings /\ p.offset \in Int
    BY DEF PointsFor, IsMap, Points
<1>2. WitteRequest(m, b, "final") = {}
    BY DEF WitteFindings
<1>3. v.datatype = "uint16" /\ p.span = 1 /\ ~v.scaled /\ ~v.shifted
    BY <1>2 DEF WitteRequest, Code
<1>4. v.scaled = FALSE /\ v.shifted = FALSE
    BY <1>1, <1>3 DEF Meanings
<1>5. Meant(m, p) = Value(p.offset, 1, "uint16", None, FALSE, FALSE)
    <2>1. Meant(m, p) = Value(p.offset, 1, "uint16", v.layout, FALSE, FALSE)
        BY <1>3, <1>4 DEF Meant
    <2>2. \A l : Value(p.offset, 1, "uint16", l, FALSE, FALSE)
                = Value(p.offset, 1, "uint16", None, FALSE, FALSE)
        BY DEF Value
    <2> QED
        BY <2>1, <2>2
<1>6. p.offset \in b.first..b.last
    BY <1>1, <1>3 DEF Inside, EndOf
<1> QED
    BY <1>5, <1>6

\* A final client shows every point of the map, and as the map means it; the
\* command-line clients every point whose width and place fit its type.
THEOREM ShownAsMeantAlways == GateSpec => []ShownAsMeant
<1>1. ASSUME GateInv, pack # None, pack.mode = "final", NEW t \in Generated \ {"modscan"},
             NEW p \in map.points, t \in {"gavinying-cli", "proconx-cli"} => Fits(map, p)
      PROVE  \E b \in Planned : b.scope = p.scope /\ Meant(map, p) \in Shown(t, map, b)
    <2>1. /\ plan # None /\ t \in Profiles
          /\ Preflight(map, plan, "final") = {}
          /\ TargetFindings(t, map, Planned, "final") = {}
        BY <1>1, GeneratedIsClear
    <2>2. IsMap(map) /\ IsPlan(plan)
        BY <1>1, <2>1 DEF GateInv
    <2>3. plan.blocks # <<>>
        BY <2>1 DEF Preflight, MapFindings, Code
    <2>4. PointFindings(map, "final") = {} /\ BlockFindings(map, plan.blocks, "final") = {}
        BY <2>1 DEF Preflight
    <2>5. PICK k \in DOMAIN plan.blocks :
                /\ p \in PointsFor(map, plan.blocks[k]) /\ plan.blocks[k].scope = p.scope
                /\ Inside(p, plan.blocks[k])
        BY <1>1, <2>2, <2>3, <2>4, PointIsRead
    <2> DEFINE b == plan.blocks[k]
    <2>6. b \in Planned /\ b.scope = p.scope /\ p \in PointsFor(map, b) /\ Inside(p, b)
        BY <2>5 DEF Planned
    <2>7. b.first \in Int /\ b.last \in Int
        BY <2>2, <2>5 DEF IsPlan, IsBlocks, IsBlock
    <2> HIDE DEF b
    <2> SUFFICES Meant(map, p) \in Shown(t, map, b)
        BY <2>6
    <2>8. CASE t = "node-red"
        BY <2>6, <2>8 DEF Shown
    <2>9. CASE t = "gavinying-cli"
        BY <1>1, <2>1, <2>2, <2>4, <2>6, <2>9, GavinyingShows DEF Shown, TargetFindings
    <2>10. CASE t = "proconx-cli"
        BY <1>1, <2>1, <2>2, <2>4, <2>6, <2>7, <2>10, ProconxShows DEF Shown, TargetFindings
    <2>11. CASE t = "witte-desktop"
        BY <2>1, <2>2, <2>6, <2>7, <2>11, WitteShows DEF Shown, TargetFindings
    <2> QED
        BY <1>1, <2>1, <2>8, <2>9, <2>10, <2>11 DEF Profiles
<1>2. GateInv => ShownAsMeant
    BY <1>1 DEF ShownAsMeant
<1> QED
    BY <1>2, GateInvariance, PTL

----------------------------------------------------------------------------
(***************************************************************************)
(* The planner's own plans pass the gate.  AsMade says that a plan that    *)
(* nobody has changed was made of the map and arguments there are.  What   *)
(* the gate looks for follows from FewInv, and from AllSnug: a request     *)
(* ends with one of its points and bridges exactly the gaps between them.  *)
(* The traces of a request are made by a recursive function: what they are *)
(* is shown for a smallest set of points that would have others.           *)
(***************************************************************************)

\* Plan order is total and transitive.
LEMMA PlanOrder ==
    ASSUME given \in Inputs, NEW p \in given.points, NEW q \in given.points,
           NEW r \in given.points
    PROVE  /\ p # q => Before(p, q) \/ Before(q, p)
           /\ Before(p, q) /\ Before(q, r) => Before(p, r)
<1>1. \A x \in given.points :
        /\ GroupOf(x) \in Scopes \X Nat /\ GroupOf(x)[1] \in Nat /\ GroupOf(x)[2] \in Nat
        /\ x.offset \in Int /\ x.id \in Nat
  BY PointFacts, ScopesAssumption DEF Points
<1>2. \A x, y \in given.points :
        GroupOf(x) = GroupOf(y) <=> GroupOf(x)[1] = GroupOf(y)[1] /\ GroupOf(x)[2] = GroupOf(y)[2]
  BY <1>1
<1>3. p # q => p.id # q.id BY InputsAssumption
<1>4. p # q => Before(p, q) \/ Before(q, p) BY <1>1, <1>2, <1>3 DEF Before
<1>5. Before(p, q) /\ Before(q, r) => Before(p, r) BY <1>1, <1>2 DEF Before
<1> QED BY <1>4, <1>5

Earliest(S) == CHOOSE p \in S : \A q \in S \ {p} : Before(p, q)

\* Every set of points has a first one in plan order.
LEMMA EarliestIs ==
    ASSUME given \in Inputs, NEW X \in SUBSET given.points, IsFiniteSet(X), X # {}
    PROVE  Earliest(X) \in X /\ \A q \in X \ {Earliest(X)} : Before(Earliest(X), q)
<1> DEFINE Good(S) == \E p \in S : \A q \in S \ {p} : Before(p, q)
           sizes == {n \in Nat : \E S \in SUBSET given.points :
                        IsFiniteSet(S) /\ S # {} /\ Cardinality(S) = n /\ ~Good(S)}
<1>1. sizes = {}
  <2>1. SUFFICES ASSUME sizes # {} PROVE FALSE OBVIOUS
  <2>2. PICK n \in sizes : \A m \in sizes : n <= m
    <3>1. sizes \subseteq Nat OBVIOUS
    <3> HIDE DEF sizes
    <3> QED BY <2>1, <3>1, Least
  <2>3. PICK S \in SUBSET given.points :
          IsFiniteSet(S) /\ S # {} /\ Cardinality(S) = n /\ ~Good(S)
    BY <2>2
  <2>4. PICK x \in S : TRUE BY <2>3
  <2>5. /\ IsFiniteSet(S \ {x}) /\ Cardinality(S \ {x}) = n - 1 /\ n \in Nat
        /\ Cardinality(S \ {x}) \in Nat
    BY <2>2, <2>3, <2>4, FS_RemoveElement, FS_CardinalityType
  <2>6. CASE S \ {x} = {} BY <2>3, <2>4, <2>6
  <2>7. CASE S \ {x} # {}
    <3>1. Good(S \ {x})
      <4>1. SUFFICES ASSUME ~Good(S \ {x}) PROVE FALSE OBVIOUS
      <4>2. S \ {x} \in SUBSET given.points OBVIOUS
      <4>3. n - 1 \in Nat BY <2>5
      <4>4. n - 1 \in sizes BY <2>5, <2>7, <4>1, <4>2, <4>3
      <4> QED BY <2>2, <2>5, <4>4
    <3>2. PICK y \in S \ {x} : \A q \in (S \ {x}) \ {y} : Before(y, q) BY <3>1
    <3>3. x \in given.points /\ y \in given.points /\ x # y BY <2>3, <2>4, <3>2
    <3>4. CASE Before(x, y)
      <4>1. ASSUME NEW q \in S \ {x} PROVE Before(x, q)
        <5>1. CASE q = y BY <3>4, <5>1
        <5>2. CASE q # y
          <6>1. Before(y, q) BY <3>2, <4>1, <5>2
          <6>2. q \in given.points BY <4>1
          <6> QED BY <3>3, <3>4, <6>1, <6>2, PlanOrder
        <5> QED BY <5>1, <5>2
      <4> QED BY <2>3, <2>4, <4>1
    <3>5. CASE Before(y, x)
      <4>1. \A q \in S \ {y} : Before(y, q) BY <3>2, <3>5
      <4> QED BY <2>3, <3>2, <4>1
    <3> QED BY <3>3, <3>4, <3>5, PlanOrder
  <2> QED BY <2>6, <2>7
<1>2. Cardinality(X) \in Nat BY FS_CardinalityType
<1>3. Good(X)
  <2>1. SUFFICES ASSUME ~Good(X) PROVE FALSE OBVIOUS
  <2>2. Cardinality(X) \in sizes BY <1>2, <2>1
  <2> QED BY <1>1, <2>2
<1> QED BY <1>3 DEF Earliest

Lined(f, S, b) ==
    IF S = {} THEN <<>> ELSE <<Trace(Earliest(S), b)>> \o f[S \ {Earliest(S)}]

\* The function that puts the traces in order exists.
LEMMA LinedUp ==
    ASSUME given \in Inputs, NEW b, b.points \in SUBSET given.points, IsFiniteSet(b.points)
    PROVE  \E f : f = [S \in SUBSET b.points |-> Lined(f, S, b)]
<1> DEFINE Upto(n) == {S \in SUBSET b.points : Cardinality(S) <= n}
           Done(n) == \E f : f = [S \in Upto(n) |-> Lined(f, S, b)]
           bad == {n \in Nat : ~Done(n)}
<1>1. \A S \in SUBSET b.points : IsFiniteSet(S) /\ Cardinality(S) \in Nat
         /\ Cardinality(S) <= Cardinality(b.points)
  BY FS_Subset, FS_CardinalityType
<1>2. ASSUME NEW S \in SUBSET b.points, S # {}
      PROVE  /\ S \ {Earliest(S)} \in SUBSET b.points
             /\ Cardinality(S \ {Earliest(S)}) = Cardinality(S) - 1
  <2>1. IsFiniteSet(S) /\ S \in SUBSET given.points BY <1>1
  <2>2. Earliest(S) \in S BY <1>2, <2>1, EarliestIs
  <2> QED BY <2>1, <2>2, FS_RemoveElement
<1>3. bad = {}
  <2>1. SUFFICES ASSUME bad # {} PROVE FALSE OBVIOUS
  <2>2. PICK n \in bad : \A m \in bad : n <= m
    <3>1. bad \subseteq Nat OBVIOUS
    <3> HIDE DEF bad
    <3> QED BY <2>1, <3>1, Least
  <2>3. n \in Nat /\ ~Done(n) BY <2>2
  <2>4. \E f : \A S \in Upto(n) : S # {} =>
            f[S \ {Earliest(S)}] = Lined(f, S \ {Earliest(S)}, b)
    <3>1. CASE n = 0
      <4>1. \A S \in Upto(n) : S = {} BY <1>1, <3>1, FS_EmptySet
      <4> QED BY <4>1
    <3>2. CASE n # 0
      <4>1. n - 1 \in Nat /\ n - 1 \notin bad
        <5> HIDE DEF bad
        <5> QED BY <2>2, <2>3, <3>2
      <4>2. Done(n - 1) BY <4>1
      <4>3. PICK f : f = [S \in Upto(n - 1) |-> Lined(f, S, b)] BY <4>2
      <4>4. ASSUME NEW S \in Upto(n), S # {} PROVE S \ {Earliest(S)} \in Upto(n - 1)
        <5>1. Cardinality(S) \in Nat /\ Cardinality(S) <= n BY <1>1
        <5> QED BY <1>2, <2>3, <4>4, <5>1
      <4>5. \A S \in Upto(n) : S # {} =>
              f[S \ {Earliest(S)}] = Lined(f, S \ {Earliest(S)}, b)
        BY <4>3, <4>4
      <4> QED BY <4>5
    <3> QED BY <3>1, <3>2
  <2>5. PICK f : \A S \in Upto(n) : S # {} =>
            f[S \ {Earliest(S)}] = Lined(f, S \ {Earliest(S)}, b)
    BY <2>4
  <2> DEFINE g == [S \in Upto(n) |-> Lined(f, S, b)]
  <2>6. ASSUME NEW S \in Upto(n) PROVE Lined(g, S, b) = Lined(f, S, b)
    <3>1. CASE S = {} BY <3>1 DEF Lined
    <3>2. CASE S # {}
      <4>1. Cardinality(S) \in Nat /\ Cardinality(S) <= n BY <1>1
      <4>2. S \ {Earliest(S)} \in Upto(n) BY <1>2, <2>3, <3>2, <4>1
      <4>3. g[S \ {Earliest(S)}] = f[S \ {Earliest(S)}] BY <2>5, <3>2, <4>2
      <4> HIDE DEF g
      <4> QED BY <3>2, <4>3 DEF Lined
    <3> QED BY <3>1, <3>2
  <2>7. g = [S \in Upto(n) |-> Lined(g, S, b)]
    <3> DEFINE h == [S \in Upto(n) |-> Lined(g, S, b)]
    <3>1. \A S \in Upto(n) : h[S] = g[S] BY <2>6
    <3>2. h = g BY <3>1
    <3> QED BY <3>2
  <2>8. Done(n)
    <3> HIDE DEF g
    <3> QED BY <2>7
  <2> QED BY <2>3, <2>8
<1>4. Cardinality(b.points) \in Nat BY FS_CardinalityType
<1>5. Done(Cardinality(b.points)) BY <1>3, <1>4
<1>6. Upto(Cardinality(b.points)) = SUBSET b.points BY <1>1
<1> HIDE DEF Upto
<1> QED BY <1>5, <1>6

\* The traces of a block are those of its points, each once.
LEMMA TracesAre ==
    ASSUME given \in Inputs, NEW b, b.points \in SUBSET given.points, IsFiniteSet(b.points)
    PROVE  /\ TracesOf(b) \in Seq({Trace(p, b) : p \in b.points})
           /\ \A p \in b.points : \E k \in DOMAIN TracesOf(b) : TracesOf(b)[k] = Trace(p, b)
           /\ \A j, k \in DOMAIN TracesOf(b) :
                TracesOf(b)[j].id = TracesOf(b)[k].id => j = k
<1> DEFINE Right(t, S) ==
             /\ t \in Seq({Trace(p, b) : p \in S})
             /\ \A p \in S : \E k \in DOMAIN t : t[k] = Trace(p, b)
             /\ \A j, k \in DOMAIN t : t[j].id = t[k].id => j = k
<1>1. PICK f : f = [S \in SUBSET b.points |-> Lined(f, S, b)] /\ TracesOf(b) = f[b.points]
  <2> DEFINE g == CHOOSE f : f = [S \in SUBSET b.points |-> Lined(f, S, b)]
  <2>1. g = [S \in SUBSET b.points |-> Lined(g, S, b)] BY LinedUp
  <2>2. TracesOf(b) = g[b.points] BY Zenon DEF TracesOf, Lined, Earliest
  <2> HIDE DEF g
  <2> QED BY <2>1, <2>2
<1> DEFINE sizes == {n \in Nat : \E S \in SUBSET b.points : Cardinality(S) = n /\ ~Right(f[S], S)}
<1>2. sizes = {}
  <2>1. SUFFICES ASSUME sizes # {} PROVE FALSE OBVIOUS
  <2>2. PICK n \in sizes : \A m \in sizes : n <= m
    <3>1. sizes \subseteq Nat OBVIOUS
    <3> HIDE DEF sizes
    <3> QED BY <2>1, <3>1, Least
  <2>3. PICK S \in SUBSET b.points : Cardinality(S) = n /\ ~Right(f[S], S) BY <2>2
  <2>4. f[S] = Lined(f, S, b) BY <1>1
  <2>5. CASE S = {}
    <3>1. f[S] = <<>> BY <2>4, <2>5 DEF Lined
    <3>2. Right(<<>>, S) BY <2>5
    <3> QED BY <2>3, <3>1, <3>2
  <2>6. CASE S # {}
    <3>1. IsFiniteSet(S) /\ S \in SUBSET given.points BY FS_Subset
    <3>2. PICK x : x = Earliest(S) OBVIOUS
    <3>3. x \in S BY <2>6, <3>1, <3>2, EarliestIs
    <3> DEFINE R == S \ {x}
    <3>4. Cardinality(R) = n - 1 /\ Cardinality(R) \in Nat /\ n \in Nat
      BY <2>2, <2>3, <3>1, <3>3, FS_RemoveElement, FS_CardinalityType, FS_Subset
    <3>5. Right(f[R], R)
      <4>1. SUFFICES ASSUME ~Right(f[R], R) PROVE FALSE OBVIOUS
      <4>2. n - 1 \in sizes BY <3>4, <4>1
      <4> HIDE DEF sizes
      <4> QED BY <2>2, <3>4, <4>2
    <3>6. PICK t : t = f[R] OBVIOUS
    <3>7. f[S] = <<Trace(x, b)>> \o t BY <2>4, <2>6, <3>2, <3>6 DEF Lined
    <3>8. t \in Seq({Trace(p, b) : p \in R}) BY <3>5, <3>6
    <3>9. PICK u : u = f[S] OBVIOUS
    <3>10. /\ Len(t) \in Nat /\ DOMAIN t = 1 .. Len(t)
           /\ u \in Seq({Trace(p, b) : p \in S}) /\ Len(u) = Len(t) + 1
           /\ DOMAIN u = 1 .. Len(t) + 1
           /\ u[1] = Trace(x, b) /\ \A k \in 1 .. Len(t) : u[k + 1] = t[k]
      <4>1. t \in Seq({Trace(p, b) : p \in S}) BY <3>8
      <4>2. <<Trace(x, b)>> \in Seq({Trace(p, b) : p \in S}) BY <3>3
      <4> QED BY <3>7, <3>9, <4>1, <4>2
    <3>11. ASSUME NEW p \in S PROVE \E k \in DOMAIN u : u[k] = Trace(p, b)
      <4>1. CASE p = x BY <3>10, <4>1
      <4>2. CASE p # x
        <5>1. PICK k \in DOMAIN t : t[k] = Trace(p, b) BY <3>5, <3>6, <4>2
        <5>2. k + 1 \in DOMAIN u /\ u[k + 1] = Trace(p, b) BY <3>10, <5>1
        <5> QED BY <5>2
      <4> QED BY <4>1, <4>2
    <3>12. \A p, q : Trace(p, b).id = p.id BY DEF Trace
    <3>13. \A k \in 1 .. Len(t) : t[k].id # x.id
      <4>1. SUFFICES ASSUME NEW k \in 1 .. Len(t) PROVE t[k].id # x.id OBVIOUS
      <4>2. PICK p \in R : t[k] = Trace(p, b) BY <3>8, <3>10, <4>1
      <4>3. p \in given.points /\ x \in given.points /\ p # x BY <3>1, <3>3, <4>2
      <4> QED BY <3>12, <4>2, <4>3, InputsAssumption
    <3>14. ASSUME NEW j \in DOMAIN u, NEW k \in DOMAIN u, u[j].id = u[k].id PROVE j = k
      <4>1. CASE j = 1 /\ k = 1 BY <4>1
      <4>2. ASSUME NEW m \in DOMAIN u, m # 1
            PROVE  m - 1 \in 1 .. Len(t) /\ u[m] = t[m - 1]
        <5>1. m - 1 \in 1 .. Len(t) /\ m = (m - 1) + 1 BY <3>10, <4>2
        <5> QED BY <3>10, <5>1
      <4>3. u[1].id = x.id BY <3>10, <3>12
      <4>4. CASE j # 1 /\ k # 1
        <5>1. t[j - 1].id = t[k - 1].id /\ j - 1 \in DOMAIN t /\ k - 1 \in DOMAIN t
          BY <3>10, <3>14, <4>2, <4>4
        <5>2. j - 1 = k - 1 BY <3>5, <3>6, <5>1
        <5> QED BY <3>10, <5>2
      <4>5. CASE (j = 1 /\ k # 1) \/ (j # 1 /\ k = 1)
        BY <3>13, <3>14, <4>2, <4>3, <4>5
      <4> QED BY <4>1, <4>4, <4>5
    <3>15. Right(u, S) BY <3>10, <3>11, <3>14
    <3> QED BY <2>3, <3>9, <3>15
  <2> QED BY <2>5, <2>6
<1>3. Cardinality(b.points) \in Nat BY FS_CardinalityType
<1>4. Right(f[b.points], b.points)
  <2>1. SUFFICES ASSUME ~Right(f[b.points], b.points) PROVE FALSE OBVIOUS
  <2>2. Cardinality(b.points) \in sizes BY <1>3, <2>1
  <2> QED BY <1>2, <2>2
<1> QED BY <1>1, <1>4

\* A block ends where one of its points ends, and bridges all the gaps between
\* its points and nothing else.
Snug(b) ==
    /\ \E p \in b.points : EndOf(p) = b.last
    /\ b.bridges = GapsOf(b.points)

\* A block of one point ends with it and bridges nothing.
LEMMA OneSnug ==
    ASSUME given \in Inputs, NEW p \in given.points, ~Unplannable(p)
    PROVE  Snug(BlockOf(p))
<1>1. /\ BlockOf(p).points = {p} /\ BlockOf(p).last = EndOf(p) /\ BlockOf(p).bridges = {}
  BY DEF BlockOf
<1>2. p.offset \in Nat /\ EndOf(p) \in Nat /\ p.offset <= EndOf(p)
  BY PlannableFacts, OffsetAssumption
<1>3. GapsOf({p}) = {}
  <2>1. SUFFICES ASSUME NEW g \in GapsOf({p}) PROVE FALSE OBVIOUS
  <2>2. g = <<EndOf(p) + 1, p.offset - 1>> /\ g[1] <= g[2] BY <2>1 DEF GapsOf
  <2> QED BY <1>2, <2>2
<1> QED BY <1>1, <1>3 DEF Snug

\* The next point leaves the gaps as they are if it does not come later than
\* right behind the block, and else adds the one in front of it.
LEMMA JoinSnug ==
    ASSUME given \in Inputs, NEW p \in given.points, ~Unplannable(p),
           current # None, Sound(current), Snug(current),
           \A q \in current.points : q.offset <= p.offset
    PROVE  Snug(Joined(p))
<1> DEFINE c == current
           b == Joined(p)
           S == current.points
           T == S \cup {p}
<1>1. /\ b.points = T /\ b.last = Larger(c.last, EndOf(p))
      /\ b.bridges = IF p.offset <= c.last + 1 THEN c.bridges
                     ELSE c.bridges \cup {<<c.last + 1, p.offset - 1>>}
  BY DEF Sound, BlockType, Joined
<1>2. /\ c.last \in Nat /\ c.first \in Nat
  BY OffsetAssumption DEF Sound, BlockType
<1>3. \A q \in T : /\ q.offset \in Nat /\ EndOf(q) \in Nat /\ q.offset <= EndOf(q)
                   /\ q.offset <= p.offset
  <2>1. ASSUME NEW q \in T PROVE q \in given.points /\ ~Unplannable(q) BY DEF Sound
  <2>2. ASSUME NEW q \in T
        PROVE  q.offset \in Nat /\ EndOf(q) \in Nat /\ q.offset <= EndOf(q)
    BY <2>1, PlannableFacts, OffsetAssumption
  <2> QED BY <2>2
<1>4. \A q \in S : EndOf(q) <= c.last BY DEF Sound
<1>5. PICK t \in S : EndOf(t) = c.last BY DEF Snug
<1>6. \E q \in b.points : EndOf(q) = b.last
  BY <1>1, <1>2, <1>3, <1>5 DEF Larger
<1>7. c.bridges = GapsOf(S) BY DEF Snug
<1> HIDE DEF S, c, b
<1>8. ASSUME NEW g \in GapsOf(S) PROVE g \in GapsOf(T)
  <2>1. PICK x, y \in S : /\ g = <<EndOf(x) + 1, y.offset - 1>> /\ g[1] <= g[2]
                          /\ \A r \in S : EndOf(r) < g[1] \/ g[2] < r.offset
    BY <1>8 DEF GapsOf
  <2>2. g[2] = y.offset - 1 BY <2>1
  <2>3. g[2] < p.offset BY <1>3, <2>2
  <2>4. \A r \in T : EndOf(r) < g[1] \/ g[2] < r.offset BY <2>1, <2>3
  <2>5. x \in T /\ y \in T OBVIOUS
  <2> QED BY <2>1, <2>4, <2>5 DEF GapsOf
<1>9. ASSUME NEW g \in GapsOf(T), g \notin GapsOf(S)
      PROVE  g = <<c.last + 1, p.offset - 1>> /\ p.offset > c.last + 1
  <2>1. PICK x, y \in T : /\ g = <<EndOf(x) + 1, y.offset - 1>> /\ g[1] <= g[2]
                          /\ \A r \in T : EndOf(r) < g[1] \/ g[2] < r.offset
    BY <1>9 DEF GapsOf
  <2>2. g[1] = EndOf(x) + 1 /\ g[2] = y.offset - 1 BY <2>1
  <2>3. x \in S
    <3>1. SUFFICES ASSUME x = p PROVE FALSE OBVIOUS
    <3>2. y.offset <= p.offset /\ p.offset <= EndOf(p) /\ y.offset \in Nat /\ EndOf(p) \in Nat
          /\ p.offset \in Nat
      BY <1>3
    <3> QED BY <2>1, <2>2, <3>1, <3>2
  <2>4. ASSUME NEW z \in S, y.offset = z.offset PROVE FALSE
    <3>1. g = <<EndOf(x) + 1, z.offset - 1>> BY <2>1, <2>4
    <3>2. \A r \in S : EndOf(r) < g[1] \/ g[2] < r.offset BY <2>1
    <3> QED BY <1>9, <2>1, <2>3, <3>1, <3>2 DEF GapsOf
  <2>5. y = p BY <2>4
  <2>6. EndOf(t) < g[1] \/ g[2] < t.offset BY <2>1, <1>5
  <2>7. t.offset # p.offset BY <1>5, <2>4, <2>5
  <2>8. /\ t \in T /\ x \in T /\ y \in T /\ EndOf(x) <= c.last BY <1>4, <1>5, <2>3
  <2>9. EndOf(x) = c.last
    BY <1>2, <1>3, <1>5, <2>2, <2>5, <2>6, <2>7, <2>8
  <2> QED BY <1>2, <1>3, <2>1, <2>2, <2>5, <2>9
<1>10. ASSUME p.offset > c.last + 1 PROVE <<c.last + 1, p.offset - 1>> \in GapsOf(T)
  <2> DEFINE g == <<c.last + 1, p.offset - 1>>
  <2>1. p \in T /\ t \in T /\ g = <<EndOf(t) + 1, p.offset - 1>> BY <1>5
  <2>2. g[1] = c.last + 1 /\ g[2] = p.offset - 1 OBVIOUS
  <2>3. g[1] <= g[2] BY <1>2, <1>3, <1>10, <2>2
  <2>4. \A r \in T : EndOf(r) < g[1] \/ g[2] < r.offset BY <1>2, <1>3, <1>4, <2>2
  <2>5. PICK x, y \in T : g = <<EndOf(x) + 1, y.offset - 1>> BY <2>1, Zenon
  <2> HIDE DEF g, T
  <2>6. g \in {<<EndOf(q) + 1, r.offset - 1>> : q, r \in T} BY <2>5
  <2> QED BY <2>3, <2>4, <2>6 DEF GapsOf, g
<1>11. b.bridges = GapsOf(T)
  <2>1. p.offset \in Nat BY <1>3
  <2>2. p.offset <= c.last + 1 \/ p.offset > c.last + 1 BY <1>2, <2>1
  <2>3. ~(p.offset <= c.last + 1 /\ p.offset > c.last + 1) BY <1>2, <2>1
  <2>4. GapsOf(S) \subseteq GapsOf(T) BY <1>8, Zenon
  <2> HIDE DEF T
  <2>5. CASE p.offset <= c.last + 1
    <3>1. GapsOf(T) \subseteq GapsOf(S) BY <1>9, <2>3, <2>5, Zenon
    <3>2. GapsOf(T) = GapsOf(S) BY <2>4, <3>1, Zenon
    <3> QED BY <1>1, <1>7, <2>5, <3>2, Zenon
  <2>6. CASE ~(p.offset <= c.last + 1)
    <3>1. GapsOf(T) = GapsOf(S) \cup {<<c.last + 1, p.offset - 1>>}
      BY <1>9, <1>10, <2>2, <2>4, <2>6, Zenon
    <3> QED BY <1>1, <1>7, <2>6, <3>1, Zenon
  <2> QED BY <2>5, <2>6
<1> QED BY <1>1, <1>6, <1>11 DEF Snug, b

AllSnug == \A k \in DOMAIN Row : Snug(Row[k])

\* Every action keeps the blocks snug.
LEMMA AllSnugStep == FewInv /\ AllSnug /\ [Next]_vars => AllSnug'
<1> SUFFICES ASSUME FewInv, AllSnug, [Next]_vars PROVE AllSnug' OBVIOUS
<1>1. /\ given \in Inputs /\ requests \in Seq(BlockType)
      /\ \A p \in todo : p \in given.points /\ ~Unplannable(p)
      /\ current # None => Sound(current) /\ current \in BlockType
  BY DEF FewInv, IInv, Typed, TodoAhead, BlocksSound, Sound
<1>2. ASSUME Row' = Row PROVE AllSnug' BY <1>2 DEF AllSnug
<1>3. CASE UNCHANGED vars BY <1>2, <1>3 DEF vars, Row
<1>4. CASE Reject BY <1>2, <1>4 DEF Reject, Row
<1>5. CASE Group
  <2>1. Row' = <<>> BY <1>5 DEF Group, FewInv, IInv, Idle, Row
  <2> QED BY <2>1 DEF AllSnug
<1>6. ASSUME NEW p \in todo, Open(p) \/ Split(p) PROVE AllSnug'
  <2>1. BlockOf(p) \in BlockType /\ BlockOf(p) # None /\ Snug(BlockOf(p))
    BY <1>1, BlockOfSound, OneSnug, NoneAssumption DEF Sound
  <2>2. Row \in Seq(BlockType) BY <1>1 DEF Row
  <2>3. Row' = Append(Row, BlockOf(p))
    <3>1. CASE Open(p) BY <2>1, <3>1 DEF Open, Row
    <3>2. CASE Split(p) BY <2>1, <3>2 DEF Split, Row
    <3> QED BY <1>6, <3>1, <3>2
  <2>4. \A k \in DOMAIN Row' : Row'[k] = BlockOf(p) \/ (k \in DOMAIN Row /\ Row'[k] = Row[k])
    BY <2>1, <2>2, <2>3
  <2> QED BY <2>1, <2>4 DEF AllSnug
<1>7. ASSUME NEW p \in todo, Join(p) PROVE AllSnug'
  <2>1. /\ current # None /\ current' = Joined(p) /\ requests' = requests
        /\ GroupOf(p) = current.group
    BY <1>7 DEF Join, Joined, CanJoin
  <2>2. DOMAIN Row = 1 .. Len(requests) + 1 /\ Row = Append(requests, current)
        /\ Row[Len(requests) + 1] = current /\ Len(requests) \in Nat
    BY <1>1, <2>1 DEF Row
  <2>3. Snug(current)
    <3>1. Len(requests) + 1 \in DOMAIN Row BY <2>2
    <3> QED BY <2>2, <3>1 DEF AllSnug
  <2>4. \A q \in current.points : q.offset <= p.offset
    <3>1. SUFFICES ASSUME NEW q \in current.points PROVE q.offset <= p.offset OBVIOUS
    <3>2. Len(requests) + 1 \in DOMAIN Row BY <2>2
    <3>3. GroupOf(q) = current.group /\ Before(q, p)
      BY <2>2, <3>1, <3>2 DEF FewInv, InOrder, Greedy
    <3>4. q \in given.points /\ p \in given.points BY <1>1, <2>1, <3>1 DEF Sound
    <3> QED BY <1>1, <2>1, <3>3, <3>4, Ascending
  <2>5. Snug(Joined(p)) BY <1>1, <2>1, <2>3, <2>4, JoinSnug
  <2>6. Joined(p) \in BlockType /\ Joined(p) # None
    <3>1. Valid(given) BY <1>7 DEF Join, FewInv, Sorted
    <3>2. current.first <= p.offset BY <2>1 DEF FewInv, IInv, TodoAhead
    <3>3. Sound(Joined(p)) BY <1>1, <1>7, <2>1, <3>1, <3>2, JoinSound DEF Join
    <3> QED BY <3>3, NoneAssumption DEF Sound
  <2>7. Row' = Append(requests, Joined(p)) BY <2>1, <2>6 DEF Row
  <2>8. \A k \in DOMAIN Row' : Row'[k] = Joined(p) \/ (k \in DOMAIN Row /\ Row'[k] = Row[k])
    BY <1>1, <2>1, <2>2, <2>6, <2>7
  <2> QED BY <2>5, <2>8 DEF AllSnug
<1>8. CASE Finish BY <1>2, <1>8 DEF Finish, Row
<1> QED BY <1>3, <1>4, <1>5, <1>6, <1>7, <1>8 DEF Next

\* Before the first point there is no block that could be otherwise.
LEMMA InitAllSnug == Init => AllSnug
<1> SUFFICES ASSUME Init PROVE AllSnug OBVIOUS
<1>1. Row = <<>> BY DEF Init, Row
<1> QED BY <1>1 DEF AllSnug

\* The plan is finished, every point of the map is in it, and the map leaves
\* nothing open.
Written ==
    /\ FewInv /\ AllSnug /\ phase = "planned"
    /\ IsMap(map) /\ given.points = map.points /\ held = {}
    /\ Apart(map)
    /\ \A i, j \in given.islands : i.id = j.id => i = j

\* The requests of such a plan share out the points of the map.
LEMMA WrittenFacts ==
    ASSUME Written
    PROVE  /\ given \in Inputs /\ Valid(given) /\ requests \in Seq(BlockType)
           /\ DOMAIN requests = 1 .. Len(requests) /\ Len(requests) \in Nat
           /\ \A p \in given.points :
                /\ ~Unplannable(p) /\ p.scope \in Scopes
                /\ p.offset \in Nat /\ EndOf(p) \in Nat /\ p.offset <= EndOf(p)
           /\ \A p \in given.points : \E k \in DOMAIN requests : p \in requests[k].points
           /\ \A j, k \in DOMAIN requests :
                requests[j].points \cap requests[k].points # {} => j = k
<1>1. /\ given \in Inputs /\ Valid(given) /\ requests \in Seq(BlockType)
      /\ held = {p \in given.points : Unplannable(p)}
      /\ todo = {} /\ current = None
  BY DEF Written, FewInv, Sorted, IInv, Typed, Ended
<1>2. DOMAIN requests = 1 .. Len(requests) /\ Len(requests) \in Nat BY <1>1
<1>3. \A p \in given.points : ~Unplannable(p) BY <1>1 DEF Written
<1>4. \A p \in given.points :
        p.scope \in Scopes /\ p.offset \in Nat /\ EndOf(p) \in Nat /\ p.offset <= EndOf(p)
  BY <1>1, <1>3, PlannableFacts, PointFacts, OffsetAssumption
<1>5. \A p \in given.points : \E k \in DOMAIN requests : p \in requests[k].points
  BY <1>1, <1>3 DEF Written, FewInv, IInv, Complete
<1>6. \A j, k \in DOMAIN requests :
        requests[j].points \cap requests[k].points # {} => j = k
  BY DEF Written, FewInv, IInv, Divided
<1> QED BY <1>1, <1>2, <1>3, <1>4, <1>5, <1>6

\* What is known of one of its requests.
LEMMA RequestFacts ==
    ASSUME Written, NEW k \in DOMAIN requests
    PROVE  LET r == requests[k] IN
           /\ Sound(r) /\ r \in BlockType /\ r.points \in SUBSET given.points
           /\ r.scope \in Scopes /\ r.first \in Nat /\ r.last \in Nat
           /\ r.first <= r.last /\ r.last <= LastOffset
           /\ \E f \in r.points : f.offset = r.first /\ IslandOf(f) = r.island
           /\ \E t \in r.points : EndOf(t) = r.last
           /\ \A x \in r.points :
                /\ GroupOf(x) = r.group /\ x.scope = r.scope
                /\ r.first <= x.offset /\ EndOf(x) <= r.last
           /\ \A x \in r.points : \A j \in DOMAIN requests : k < j =>
                \A q \in requests[j].points : Before(x, q)
           /\ r.bridges = GapsOf(r.points)
<1>1. current = None /\ Row = requests BY DEF Written, FewInv, IInv, Ended, Row
<1>2. Sound(requests[k]) /\ Snug(requests[k])
  BY <1>1 DEF Written, FewInv, IInv, BlocksSound, AllSnug
<1>3. Greedy(requests, todo) BY <1>1 DEF Written, FewInv, InOrder
<1>4. PICK r : r = requests[k] OBVIOUS
<1>5. /\ r \in BlockType /\ r.points \in SUBSET given.points
      /\ r.scope \in Scopes /\ r.first \in Nat /\ r.last \in Nat
      /\ r.first <= r.last /\ r.last <= LastOffset
      /\ \A x \in r.points : r.first <= x.offset /\ EndOf(x) <= r.last
      /\ r.group[1] = r.scope
  BY <1>2, <1>4, OffsetAssumption DEF Sound, BlockType
<1>6. \E f \in r.points : f.offset = r.first /\ IslandOf(f) = r.island
  BY <1>3, <1>4 DEF Greedy, Opens
<1>7. /\ \E t \in r.points : EndOf(t) = r.last
      /\ r.bridges = GapsOf(r.points)
  BY <1>2, <1>4 DEF Snug
<1>8. /\ \A x \in r.points : GroupOf(x) = r.group
      /\ \A x \in r.points : \A j \in DOMAIN requests : k < j =>
            \A q \in requests[j].points : Before(x, q)
  BY <1>3, <1>4 DEF Greedy
<1>9. \A x \in r.points : x.scope = r.scope BY <1>5, <1>8, WrittenFacts, PointFacts
<1> QED BY <1>2, <1>4, <1>5, <1>6, <1>7, <1>8, <1>9

\* Islands do not overlap, so the one that holds a point is its island.
LEMMA HeldByItsIsland ==
    ASSUME Written, NEW p \in given.points, NEW i \in given.islands,
           i.scope = p.scope, i.first <= p.offset, EndOf(p) <= i.last
    PROVE  IslandOf(p) = i
<1>1. i \in IslandsOf(p) BY DEF IslandsOf
<1>2. ASSUME NEW j \in IslandsOf(p) PROVE j = i
  <2>1. /\ j \in given.islands /\ j.scope = p.scope /\ j.first <= p.offset /\ EndOf(p) <= j.last
    BY <1>2 DEF IslandsOf
  <2>2. i \in Islands /\ j \in Islands BY <2>1, WrittenFacts, InputsAssumption
  <2>3. i.first \in Nat /\ i.last \in Nat /\ j.first \in Nat /\ j.last \in Nat
    BY <2>2 DEF Islands
  <2>4. p.offset \in Nat /\ EndOf(p) \in Nat /\ p.offset <= EndOf(p) BY WrittenFacts
  <2>5. j.first <= i.last /\ i.first <= j.last BY <2>1, <2>3, <2>4
  <2> QED BY <2>1, <2>5, WrittenFacts DEF Valid, Meets
<1> QED BY <1>1, <1>2 DEF IslandOf, TheOne

\* A request that reads a register of no point of its own lies in its island,
\* and so do its points.
LEMMA BridgedByIsland ==
    ASSUME Written, NEW k \in DOMAIN requests,
           NEW o \in requests[k].first .. requests[k].last,
           \A x \in requests[k].points : ~(x.offset <= o /\ o <= EndOf(x))
    PROVE  LET r == requests[k] IN
           /\ r.island \in given.islands /\ r.island.scope = r.scope
           /\ r.island.first <= r.first /\ r.last <= r.island.last
           /\ \A x \in r.points : IslandOf(x) = r.island
<1>1. PICK r : r = requests[k] OBVIOUS
<1>2. /\ r.island # None /\ r.island \in given.islands /\ r.island.scope = r.scope
      /\ r.island.first <= r.first
  BY <1>1, RequestFacts DEF Sound
<1>3. PICK f \in r.points : IslandOf(f) = r.island BY <1>1, RequestFacts
<1>4. ASSUME NEW x \in r.points PROVE IslandOf(x) = r.island
  <2>1. x \in given.points /\ f \in given.points /\ GroupOf(x) = GroupOf(f)
    BY <1>1, RequestFacts
  <2>2. given \in Inputs /\ \A i, j \in given.islands : i.id = j.id => i = j
    BY WrittenFacts DEF Written
  <2>3. IslandOf(x) = IslandOf(f) BY <2>1, <2>2, OneIsland
  <2> QED BY <1>3, <2>3
<1>5. PICK t \in r.points : EndOf(t) = r.last BY <1>1, RequestFacts
<1>6. t \in given.points BY <1>1, RequestFacts
<1>7. r.last <= r.island.last
  BY <1>2, <1>4, <1>5, <1>6, WrittenFacts, PointFacts
<1> QED BY <1>1, <1>2, <1>4, <1>7

\* A request reads no register of a point of another request: such a point
\* would lie between two of its own, and the planner would have taken it then.
LEMMA NoStranger ==
    ASSUME Written, NEW k \in DOMAIN requests, NEW p \in given.points,
           p \notin requests[k].points, p.scope = requests[k].scope
    PROVE  ~Meets(p.offset, EndOf(p), requests[k])
<1>1. PICK r : r = requests[k] OBVIOUS
<1>2. SUFFICES ASSUME p.offset <= r.last, r.first <= EndOf(p) PROVE FALSE
  BY <1>1 DEF Meets
<1>3. /\ \A x \in given.points :
            x.offset \in Nat /\ EndOf(x) \in Nat /\ x.offset <= EndOf(x)
      /\ r.first \in Nat /\ r.last \in Nat /\ r.points \in SUBSET given.points
  BY <1>1, WrittenFacts, RequestFacts
<1>4. PICK f \in r.points : f.offset = r.first BY <1>1, RequestFacts
<1>5. PICK t \in r.points : EndOf(t) = r.last BY <1>1, RequestFacts
<1>6. \A x \in r.points : EndOf(p) < x.offset \/ EndOf(x) < p.offset
  BY <1>1, <1>3, RequestFacts DEF Written, Apart
<1>7. EndOf(f) < p.offset /\ EndOf(p) < t.offset BY <1>2, <1>3, <1>4, <1>5, <1>6
<1>8. f.offset < p.offset /\ p.offset < t.offset /\ EndOf(p) <= r.last /\ r.first <= p.offset
  BY <1>3, <1>4, <1>5, <1>7
<1>9. p.offset \in r.first .. r.last BY <1>2, <1>3, <1>8
<1>10. \A x \in r.points : ~(x.offset <= p.offset /\ p.offset <= EndOf(x))
  BY <1>3, <1>6
<1>11. /\ r.island \in given.islands /\ r.island.scope = r.scope
       /\ r.island.first <= r.first /\ r.last <= r.island.last
       /\ \A x \in r.points : IslandOf(x) = r.island
  BY <1>1, <1>9, <1>10, BridgedByIsland
<1>12. r.island.first \in Nat /\ r.island.last \in Nat
  BY <1>11, WrittenFacts, InputsAssumption DEF Islands
<1>13. IslandOf(p) = r.island
  <2>1. r.island.first <= p.offset /\ EndOf(p) <= r.island.last
    BY <1>3, <1>8, <1>11, <1>12
  <2> QED BY <1>1, <1>11, <2>1, HeldByItsIsland
<1>14. GroupOf(p) = GroupOf(f) /\ GroupOf(p) = GroupOf(t)
  <2>1. f.scope = p.scope /\ t.scope = p.scope BY <1>1, <1>4, <1>5, RequestFacts
  <2> QED BY <1>11, <1>13, <2>1 DEF GroupOf
<1>15. ~Before(p, f) /\ ~Before(t, p)
  <2>1. GroupOf(p)[1] \in Nat /\ GroupOf(p)[2] \in Nat
    BY WrittenFacts, PointFacts, ScopesAssumption
  <2> QED BY <1>3, <1>8, <1>14, <2>1 DEF Before
<1>16. PICK j \in DOMAIN requests : p \in requests[j].points BY WrittenFacts
<1>17. j # k BY <1>16
<1>18. j < k \/ k < j BY <1>17, WrittenFacts
<1> QED BY <1>1, <1>15, <1>16, <1>18, RequestFacts

\* What the plan file says of a request.
LEMMA FileFacts ==
    ASSUME Written, NEW k \in DOMAIN requests
    PROVE  LET r == requests[k]
               b == BlockFile(r, k)
           IN /\ b.id = k /\ b.scope = r.scope /\ b.function = FunctionOf[r.scope]
              /\ b.first = r.first /\ b.last = r.last
              /\ b.bridges =
                    {[first |-> g[1], last |-> g[2], island |-> r.island] : g \in r.bridges}
              /\ Listed(b) = {p.id : p \in r.points}
              /\ PointsFor(map, b) = r.points /\ ExactPoints(map, b) = r.points
              /\ r.points # {}
              /\ \A i \in DOMAIN b.traces : \E x \in r.points : b.traces[i] = Trace(x, b)
              /\ \A i, j \in DOMAIN b.traces : b.traces[i].id = b.traces[j].id => i = j
<1>1. PICK r : r = requests[k] OBVIOUS
<1>2. PICK b : b = BlockFile(r, k) OBVIOUS
<1>3. /\ b.id = k /\ b.scope = r.scope /\ b.function = FunctionOf[r.scope]
      /\ b.first = r.first /\ b.last = r.last /\ b.traces = TracesOf(r)
      /\ b.bridges = {[first |-> g[1], last |-> g[2], island |-> r.island] : g \in r.bridges}
  BY <1>2 DEF BlockFile
<1>4. /\ r.points \in SUBSET given.points /\ r.points # {}
      /\ \A x \in r.points : x.scope = r.scope
  BY <1>1, RequestFacts
<1>5. given.points = map.points /\ IsFiniteSet(map.points)
      /\ \A p, q \in map.points : p.id = q.id => p = q
  BY DEF Written, IsMap
<1>6. IsFiniteSet(r.points) BY <1>4, <1>5, FS_Subset
<1>7. PICK t : t = b.traces OBVIOUS
<1>8. /\ t \in Seq({Trace(p, r) : p \in r.points})
      /\ \A p \in r.points : \E i \in DOMAIN t : t[i] = Trace(p, r)
      /\ \A i, j \in DOMAIN t : t[i].id = t[j].id => i = j
  <2>1. given \in Inputs BY WrittenFacts
  <2>2. /\ TracesOf(r) \in Seq({Trace(p, r) : p \in r.points})
        /\ \A p \in r.points : \E i \in DOMAIN TracesOf(r) : TracesOf(r)[i] = Trace(p, r)
        /\ \A i, j \in DOMAIN TracesOf(r) : TracesOf(r)[i].id = TracesOf(r)[j].id => i = j
    BY <1>4, <1>6, <2>1, TracesAre
  <2>3. t = TracesOf(r) BY <1>3, <1>7
  <2> QED BY <2>2, <2>3, Zenon
<1>9. \A x : Trace(x, r) = Trace(x, b) /\ Trace(x, b).id = x.id BY <1>3 DEF Trace
<1>10. ASSUME NEW i \in DOMAIN t PROVE \E x \in r.points : t[i] = Trace(x, b)
  <2>1. t[i] \in {Trace(p, r) : p \in r.points} BY <1>8, <1>10
  <2> QED BY <1>9, <2>1
<1>11. Listed(b) = {p.id : p \in r.points}
  <2>1. \A i \in DOMAIN t : t[i].id \in {p.id : p \in r.points} BY <1>9, <1>10
  <2>2. \A p \in r.points : \E i \in DOMAIN t : t[i].id = p.id BY <1>8, <1>9
  <2> QED BY <1>7, <2>1, <2>2 DEF Listed
<1>12. t # <<>>
  <2>1. PICK p \in r.points : TRUE BY <1>4
  <2>2. DOMAIN t # {} BY <1>8, <2>1
  <2> QED BY <2>2
<1>13. PointsFor(map, b) = {p \in map.points : p.id \in Listed(b)} BY <1>7, <1>12 DEF PointsFor
<1>14. PointsFor(map, b) = r.points
  BY <1>4, <1>5, <1>11, <1>13
<1>15. ExactPoints(map, b) = r.points BY <1>3, <1>4, <1>14 DEF ExactPoints
<1> QED BY <1>1, <1>2, <1>3, <1>4, <1>7, <1>8, <1>10, <1>11, <1>14, <1>15

\* A request is well formed, and its points lie in it.
LEMMA FormAccepted ==
    ASSUME Written, NEW k \in DOMAIN requests
    PROVE  FormFindings(map, BlockFile(requests[k], k)) = {}
<1>1. PICK r, b : r = requests[k] /\ b = BlockFile(r, k) OBVIOUS
<1>2. /\ b.scope = r.scope /\ b.function = FunctionOf[r.scope]
      /\ b.first = r.first /\ b.last = r.last
      /\ Listed(b) = {p.id : p \in r.points} /\ PointsFor(map, b) = r.points
  BY <1>1, FileFacts
<1>3. /\ r.scope \in Scopes /\ r.first \in Nat /\ r.last \in Nat /\ r.first <= r.last
      /\ r.last <= LastOffset /\ r.points \in SUBSET given.points
      /\ r.last - r.first + 1 <= Limit[r.scope]
  BY <1>1, RequestFacts DEF Sound
<1>4. \A x \in r.points : x.scope = r.scope /\ r.first <= x.offset /\ EndOf(x) <= r.last
  BY <1>1, RequestFacts
<1>5. given.points = map.points /\ \A p, q \in map.points : p.id = q.id => p = q
  BY DEF Written, IsMap
<1>6. /\ FunctionOf[r.scope] \in 1 .. 4
      /\ Limit[r.scope] \in Nat /\ ProtocolLimit[r.scope] \in Nat
      /\ Limit[r.scope] <= ProtocolLimit[r.scope]
  BY <1>3, GateAssumption, LimitAssumption
<1>7. ~(Quantity(b) < 1) /\ ~(Quantity(b) > ProtocolLimit[b.scope]) /\ ~(b.last > LastOffset)
  BY <1>2, <1>3, <1>6, OffsetAssumption DEF Quantity
<1>8. Listed(b) \subseteq {p.id : p \in map.points} BY <1>2, <1>3, <1>5
<1>9. ~\E p \in map.points : p.id \in Listed(b) /\ p.scope # b.scope
  BY <1>2, <1>3, <1>4, <1>5
<1>10. ~\E p \in PointsFor(map, b) : ~Inside(p, b) BY <1>2, <1>4 DEF Inside
<1> QED BY <1>1, <1>2, <1>6, <1>7, <1>8, <1>9, <1>10 DEF FormFindings, Code

\* Its gaps are bridged by its island, and that is the island the gate finds.
LEMMA BridgesAccepted ==
    ASSUME Written, NEW k \in DOMAIN requests
    PROVE  LET r == requests[k]
               b == BlockFile(r, k)
           IN /\ GapsOf(r.points) # {} => IslandsFor(b, Options) # {}
              /\ b.bridges = ExpectedBridges(map, b, Options)
<1>1. PICK r, b : r = requests[k] /\ b = BlockFile(r, k) OBVIOUS
<1>2. /\ b.scope = r.scope /\ b.function = FunctionOf[r.scope]
      /\ b.first = r.first /\ b.last = r.last /\ ExactPoints(map, b) = r.points
      /\ b.bridges = {[first |-> g[1], last |-> g[2], island |-> r.island] : g \in r.bridges}
  BY <1>1, FileFacts
<1>3. /\ r.first \in Nat /\ r.last \in Nat /\ r.first <= r.last
      /\ r.points \in SUBSET given.points /\ r.bridges = GapsOf(r.points)
  BY <1>1, RequestFacts
<1>4. Options.islands = given.islands /\ Options.unsafe = given.unsafe BY DEF Options
<1>5. ASSUME NEW g \in GapsOf(r.points) PROVE IslandsFor(b, Options) = {r.island}
  <2>1. PICK x, y \in r.points : g = <<EndOf(x) + 1, y.offset - 1>> /\ g[1] <= g[2]
    BY <1>5 DEF GapsOf
  <2>2. \A z \in r.points : EndOf(z) < g[1] \/ g[2] < z.offset BY <1>5 DEF GapsOf
  <2>3. g[1] = EndOf(x) + 1 /\ g[2] = y.offset - 1 BY <2>1
  <2>4. \A z \in r.points :
          /\ z.offset \in Nat /\ EndOf(z) \in Nat /\ z.offset <= EndOf(z)
          /\ r.first <= z.offset /\ EndOf(z) <= r.last
    BY <1>1, <1>3, RequestFacts, WrittenFacts
  <2>5. g[1] \in r.first .. r.last BY <1>3, <2>1, <2>3, <2>4
  <2>6. \A z \in r.points : ~(z.offset <= g[1] /\ g[1] <= EndOf(z)) BY <2>1, <2>2, <2>3, <2>4
  <2>7. /\ r.island \in given.islands /\ r.island.scope = r.scope
        /\ r.island.first <= r.first /\ r.last <= r.island.last
    BY <1>1, <2>5, <2>6, BridgedByIsland
  <2>8. \A u \in given.unsafe : u.scope = b.scope => ~Meets(b.first, b.last, u)
    BY <1>1, <1>2, <1>3, RequestFacts DEF Sound, GapIsSafe
  <2>9. r.island \in IslandsFor(b, Options)
    BY <1>2, <1>4, <2>7, <2>8 DEF IslandsFor
  <2>10. ASSUME NEW i \in IslandsFor(b, Options) PROVE i = r.island
    <3>1. i \in given.islands /\ i.scope = r.scope /\ i.first <= r.first /\ r.last <= i.last
      BY <1>2, <1>4, <2>10 DEF IslandsFor
    <3>2. i \in Islands /\ r.island \in Islands BY <2>7, <3>1, WrittenFacts, InputsAssumption
    <3>3. i.first \in Nat /\ i.last \in Nat /\ r.island.first \in Nat /\ r.island.last \in Nat
      BY <3>2 DEF Islands
    <3>4. i.first <= r.island.last /\ r.island.first <= i.last BY <1>3, <2>7, <3>1, <3>3
    <3> QED BY <2>7, <3>1, <3>4, WrittenFacts DEF Valid, Meets
  <2> QED BY <2>9, <2>10
<1>6. CASE GapsOf(r.points) = {}
  <2>1. b.bridges = {} BY <1>2, <1>3, <1>6
  <2>2. ExpectedBridges(map, b, Options) = {} BY <1>2, <1>6 DEF ExpectedBridges
  <2> QED BY <1>1, <1>6, <2>1, <2>2
<1>7. CASE GapsOf(r.points) # {}
  <2>1. IslandsFor(b, Options) = {r.island} BY <1>5, <1>7
  <2>2. TheOne(IslandsFor(b, Options)) = r.island BY <2>1 DEF TheOne
  <2>3. ExpectedBridges(map, b, Options) =
            {[first |-> g[1], last |-> g[2], island |-> r.island] : g \in GapsOf(r.points)}
    BY <1>2, <2>1, <2>2 DEF ExpectedBridges
  <2> QED BY <1>1, <1>2, <1>3, <2>1, <2>3
<1> QED BY <1>6, <1>7

\* A request reads what its points and its bridges need, and nothing else.
LEMMA PurposeAccepted ==
    ASSUME Written, NEW k \in DOMAIN requests
    PROVE  PurposeFindings(map, BlockFile(requests[k], k), Options) = {}
<1>1. PICK r, b : r = requests[k] /\ b = BlockFile(r, k) OBVIOUS
<1>2. /\ b.scope = r.scope /\ b.first = r.first /\ b.last = r.last
      /\ ExactPoints(map, b) = r.points /\ r.points # {}
      /\ \A i \in DOMAIN b.traces : \E x \in r.points : b.traces[i] = Trace(x, b)
      /\ \A i, j \in DOMAIN b.traces : b.traces[i].id = b.traces[j].id => i = j
  BY <1>1, FileFacts
<1>3. /\ r.scope \in Scopes /\ r.first \in Nat /\ r.last \in Nat
      /\ r.points \in SUBSET given.points /\ r.last - r.first + 1 <= Limit[r.scope]
  BY <1>1, RequestFacts DEF Sound
<1>4. /\ \E f \in r.points : f.offset = r.first
      /\ \E t \in r.points : EndOf(t) = r.last
      /\ \A x \in r.points : r.first <= x.offset /\ EndOf(x) <= r.last
  BY <1>1, RequestFacts
<1>5. given.points = map.points /\ \A p, q \in map.points : p.id = q.id => p = q
  BY DEF Written, IsMap
<1>6. ~(Quantity(b) > Options.limits[b.scope])
  BY <1>2, <1>3, LimitAssumption DEF Quantity, Options
<1>7. ~(\/ \E p \in r.points : ~Inside(p, b)
        \/ \A p \in r.points : p.offset # b.first
        \/ \A p \in r.points : EndOf(p) # b.last)
  BY <1>2, <1>4 DEF Inside
<1>8. ~(GapsOf(r.points) # {} /\ IslandsFor(b, Options) = {})
      /\ b.bridges = ExpectedBridges(map, b, Options)
  BY <1>1, BridgesAccepted
<1>9. ~\E p \in map.points \ r.points :
          p.scope = b.scope /\ Meets(p.offset, EndOf(p), b)
  <2>1. SUFFICES ASSUME NEW p \in map.points \ r.points, p.scope = b.scope
                 PROVE  ~Meets(p.offset, EndOf(p), b)
    OBVIOUS
  <2>2. ~Meets(p.offset, EndOf(p), r) BY <1>1, <1>2, <1>5, <2>1, NoStranger
  <2> QED BY <1>2, <2>2 DEF Meets
<1>10. ~\E i \in DOMAIN b.traces : \E p \in {p \in map.points : p.id = b.traces[i].id} :
          b.traces[i] # Trace(p, b)
  <2>1. SUFFICES ASSUME NEW i \in DOMAIN b.traces, NEW p \in map.points,
                        p.id = b.traces[i].id
                 PROVE  b.traces[i] = Trace(p, b)
    OBVIOUS
  <2>2. PICK x \in r.points : b.traces[i] = Trace(x, b) BY <1>2
  <2>3. Trace(x, b).id = x.id BY DEF Trace
  <2>4. x = p BY <1>3, <1>5, <2>1, <2>2, <2>3
  <2> QED BY <2>2, <2>4
<1> QED BY <1>1, <1>2, <1>6, <1>7, <1>8, <1>9, <1>10 DEF PurposeFindings, Code

\* Requests of one scope do not meet.
LEMMA ApartAccepted ==
    ASSUME Written, NEW j \in DOMAIN requests, NEW k \in DOMAIN requests, j # k,
           requests[j].scope = requests[k].scope
    PROVE  ~Meets(requests[j].first, requests[j].last, requests[k])
<1>1. PICK q, r : q = requests[j] /\ r = requests[k] OBVIOUS
<1>2. /\ q.first \in Nat /\ q.last \in Nat /\ r.first \in Nat /\ r.last \in Nat
      /\ q.points \in SUBSET given.points /\ r.points \in SUBSET given.points
      /\ q.points \cap r.points = {}
  BY <1>1, RequestFacts, WrittenFacts
<1>3. SUFFICES ASSUME q.first <= r.last, r.first <= q.last PROVE FALSE
  BY <1>1 DEF Meets
<1>4. PICK f \in q.points : f.offset = q.first /\ f.scope = q.scope BY <1>1, RequestFacts
<1>5. PICK g \in r.points : g.offset = r.first /\ g.scope = r.scope BY <1>1, RequestFacts
<1>6. ~Meets(f.offset, EndOf(f), r) /\ ~Meets(g.offset, EndOf(g), q)
  BY <1>1, <1>2, <1>4, <1>5, NoStranger
<1>7. /\ f.offset <= EndOf(f) /\ g.offset <= EndOf(g) /\ EndOf(f) \in Nat /\ EndOf(g) \in Nat
  BY <1>2, WrittenFacts
<1> QED BY <1>2, <1>3, <1>4, <1>5, <1>6, <1>7 DEF Meets

\* The plan file has no finding.
LEMMA FileAccepted ==
    ASSUME Written, Settled(map), map # None, Options # None, NEW file,
           file = [map |-> map, options |-> Options, options_hash |-> Options,
                   blocks |-> [k \in DOMAIN requests |-> BlockFile(requests[k], k)]],
           NEW mode \in {"probe", "final"}
    PROVE  Preflight(map, file, mode) = {}
<1> DEFINE blocks == [k \in DOMAIN requests |-> BlockFile(requests[k], k)]
<1>1. /\ file.map = map /\ file.options = Options /\ file.options_hash = Options
      /\ file.blocks = blocks
  OBVIOUS
<1>2. DOMAIN blocks = DOMAIN requests
      /\ \A k \in DOMAIN requests : blocks[k] = BlockFile(requests[k], k)
  OBVIOUS
<1> HIDE DEF blocks
<1>3. HashFindings(map, file, mode) = {} BY <1>1 DEF HashFindings, Code
<1>4. Bound(map, file) BY <1>1 DEF Bound
<1>5. OptionFindings(file) = {} BY <1>1 DEF OptionFindings, Code
<1>6. map.points # {} /\ map.holds = {} BY DEF Settled, MapFindings, Code
<1>7. blocks # <<>>
  <2>1. PICK p \in map.points : TRUE BY <1>6
  <2>2. DOMAIN requests # {} BY <2>1, WrittenFacts DEF Written
  <2> QED BY <1>2, <2>2
<1>8. MapFindings(map, blocks, mode) = {} BY <1>6, <1>7 DEF MapFindings, Code
<1>9. PointFindings(map, mode) = {}
  <2>1. PointFindings(map, mode) \subseteq PointFindings(map, "final")
    BY DEF PointFindings, Code
  <2> QED BY <2>1 DEF Settled
<1>10. BlockFindings(map, blocks, mode) = {}
  <2>1. \A k \in DOMAIN blocks : FormFindings(map, blocks[k]) = {} BY <1>2, FormAccepted
  <2>2. \A j, k \in DOMAIN blocks : j # k => blocks[j].id # blocks[k].id BY <1>2, FileFacts
  <2>3. ASSUME NEW p \in map.points PROVE p.id \in PlannedIds(map, blocks)
    <3>1. PICK k \in DOMAIN requests : p \in requests[k].points BY WrittenFacts DEF Written
    <3>2. p.id \in Listed(blocks[k]) BY <1>2, <3>1, FileFacts
    <3> QED BY <1>2, <3>2 DEF PlannedIds
  <2> QED BY <2>1, <2>2, <2>3 DEF BlockFindings, Code
<1>11. PlanFindings(map, blocks, Options) = {}
  <2>1. \A k \in DOMAIN blocks : PurposeFindings(map, blocks[k], Options) = {}
    BY <1>2, PurposeAccepted
  <2>2. \A k \in DOMAIN blocks :
          /\ blocks[k].scope = requests[k].scope
          /\ blocks[k].first = requests[k].first /\ blocks[k].last = requests[k].last
          /\ ExactPoints(map, blocks[k]) = requests[k].points
    BY <1>2, FileFacts
  <2>3. \A j, k \in DOMAIN blocks : j # k /\ blocks[j].scope = blocks[k].scope
          => ~Meets(blocks[j].first, blocks[j].last, blocks[k])
    BY <1>2, <2>2, ApartAccepted DEF Meets
  <2>4. \A j, k \in DOMAIN blocks : j # k =>
          ExactPoints(map, blocks[j]) \cap ExactPoints(map, blocks[k]) = {}
    BY <1>2, <2>2, WrittenFacts
  <2> QED BY <2>1, <2>3, <2>4 DEF PlanFindings, Code
<1>12. Authority(file) = Options BY <1>1 DEF Authority
<1> QED BY <1>1, <1>3, <1>4, <1>5, <1>8, <1>9, <1>10, <1>11, <1>12 DEF Preflight

\* A plan that nobody has changed was made of this map and these arguments.
AsMade ==
    /\ FewInv /\ AllSnug /\ IsMap(map) /\ changes \in Nat
    /\ changes = 0 => \E c \in Cases : map = c.map /\ given = Arguments(c)
    /\ plan # None => phase = "planned"
    /\ PlannedIsAccepted

\* The plan command writes a plan that the gate accepts.
LEMMA MadeIsAccepted ==
    ASSUME AsMade, MakePlan
    PROVE  PlannedIsAccepted'
<1>1. /\ phase = "planned" /\ given' = given /\ map' = map /\ held' = held /\ changes' = changes
      /\ plan' = [map |-> map, options |-> Options, options_hash |-> Options,
                  blocks |-> [k \in DOMAIN requests |-> BlockFile(requests[k], k)]]
  BY DEF MakePlan, vars
<1>2. SUFFICES ASSUME changes = 0, Settled(map), Apart(map), held = {},
                      \A i, j \in given.islands : i.id = j.id => i = j,
                      NEW mode \in {"probe", "final"}
               PROVE  Preflight(map, plan', mode) = {}
  <2>1. Settled(map)' <=> Settled(map) BY <1>1 DEF Settled, MapFindings, PointFindings, Many
  <2>2. Apart(map)' <=> Apart(map) BY <1>1 DEF Apart
  <2>3. PICK file : file = plan' OBVIOUS
  <2> QED BY <1>1, <1>2, <2>1, <2>2 DEF PlannedIsAccepted
<1>3. PICK c \in Cases : map = c.map /\ given = Arguments(c) BY <1>2 DEF AsMade
<1>4. given.points = Plannable(map) BY <1>3 DEF Arguments
<1>5. map.holds = {} BY <1>2 DEF Settled, MapFindings, Code
<1>6. Plannable(map) = map.points BY <1>5 DEF Plannable
<1>7. Written BY <1>1, <1>2, <1>4, <1>6 DEF AsMade, Written
<1>8. map # None /\ Options # None BY <1>3, GateAssumption DEF Options, Arguments
<1> QED BY <1>1, <1>2, <1>7, <1>8, FileAccepted

\* Before there is a plan, the arguments are those of the map.
LEMMA AsMadeInit == GateInit => AsMade
<1> SUFFICES ASSUME GateInit PROVE AsMade OBVIOUS
<1>1. PICK c \in Cases : map = c.map /\ given = Arguments(c) BY DEF GateInit
<1>2. Init BY <1>1, GateAssumption DEF GateInit, Init
<1>3. FewInv /\ AllSnug /\ IsMap(map)
  BY <1>1, <1>2, GateAssumption, InitFewInv, InitAllSnug
<1> QED BY <1>1, <1>3 DEF GateInit, AsMade, PlannedIsAccepted

\* Any edit or revision counts as a change, and a build changes nothing.
LEMMA AsMadeStep == AsMade /\ [GateNext]_gateVars => AsMade'
<1> SUFFICES ASSUME AsMade, [GateNext]_gateVars PROVE AsMade' OBVIOUS
<1>1. ASSUME [Next]_vars PROVE FewInv' /\ AllSnug'
  BY <1>1, FewStep, AllSnugStep DEF AsMade
<1>2. ASSUME UNCHANGED <<vars, map, plan, changes>> PROVE AsMade'
  <2>1. FewInv' /\ AllSnug' BY <1>1, <1>2
  <2>2. UNCHANGED <<given, phase, held, map, plan, changes>> BY <1>2 DEF vars
  <2>3. Settled(map)' <=> Settled(map)
    BY <2>2 DEF Settled, MapFindings, PointFindings, Many
  <2>4. Apart(map)' <=> Apart(map) BY <2>2 DEF Apart
  <2>5. PlannedIsAccepted' BY <2>2, <2>3, <2>4 DEF AsMade, PlannedIsAccepted
  <2> QED BY <2>1, <2>2, <2>5 DEF AsMade
<1>3. CASE PlanStep
  <2>1. Next /\ UNCHANGED <<map, plan, changes>> BY <1>3 DEF PlanStep
  <2>2. plan = None
    BY <2>1 DEF AsMade, Next, Reject, Group, Finish, Open, Join, Split
  <2>3. FewInv' /\ AllSnug' BY <1>1, <2>1
  <2>4. given' = given
    BY <2>1 DEF Next, Reject, Group, Finish, Open, Join, Split
  <2> QED BY <2>1, <2>2, <2>3, <2>4 DEF AsMade, PlannedIsAccepted
<1>4. CASE MakePlan
  <2>1. PlannedIsAccepted' BY <1>4, MadeIsAccepted
  <2>2. UNCHANGED <<vars, map, changes>> /\ phase = "planned" BY <1>4 DEF MakePlan
  <2>3. FewInv' /\ AllSnug' BY <1>1, <2>2
  <2> QED BY <2>1, <2>2, <2>3 DEF AsMade, vars
<1>5. ASSUME EditPlan \/ ReviseMap PROVE AsMade'
  <2>1. UNCHANGED vars /\ plan # None /\ changes' = changes + 1
    BY <1>5 DEF EditPlan, ReviseMap
  <2>2. changes' \in Nat /\ changes' # 0 BY <2>1 DEF AsMade
  <2>3. IsMap(map') BY <1>5, RevisionIsMap DEF EditPlan, ReviseMap, AsMade
  <2>4. FewInv' /\ AllSnug' BY <1>1, <2>1
  <2> QED BY <2>1, <2>2, <2>3, <2>4 DEF AsMade, PlannedIsAccepted, vars
<1>6. ASSUME NEW selection \in Selections, NEW mode \in {"probe", "final"},
             BuildPack(selection, mode)
      PROVE  AsMade'
  <2>1. UNCHANGED <<vars, map, plan, changes>> BY <1>6 DEF BuildPack
  <2> QED BY <1>2, <2>1
<1>7. CASE UNCHANGED gateVars
  <2>1. UNCHANGED <<vars, map, plan, changes>> BY <1>7 DEF gateVars
  <2> QED BY <1>2, <2>1
<1> QED BY <1>3, <1>4, <1>5, <1>6, <1>7 DEF GateNext

\* The gate refuses no plan as the planner made it, of a map that leaves nothing
\* open and whose points share no register (preflight_common).
THEOREM PlannedIsAcceptedAlways == GateSpec => []PlannedIsAccepted
<1>1. AsMade => PlannedIsAccepted BY DEF AsMade
<1> QED BY <1>1, AsMadeInit, AsMadeStep, PTL DEF GateSpec

====

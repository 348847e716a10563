---------------------------- MODULE NodeRedProofs ----------------------------
(***************************************************************************)
(* Proofs about the generated flow and its campaign, for every plan, retry *)
(* limit, number of rounds, trigger and fate of a read.  A capture holds   *)
(* one run and the probe reads a block once whatever the world does, and a *)
(* passed campaign has what it reports; one read at a time, and the run in *)
(* plan order, need triggers that wait for the capture of the run before   *)
(* (Polling = FALSE).                                                      *)
(***************************************************************************)
EXTENDS NodeRedCampaign, TLAPS, FiniteSetTheorems, WellFoundedInduction

----------------------------------------------------------------------------
(* The invariant, in parts.                                                *)

\* s is a sequence, of whatever it holds.
IsSeq(s) == s \in Seq({s[i] : i \in DOMAIN s})
\* What a sequence holds.
Held(s) == {s[i] : i \in DOMAIN s}

\* The samples are records of the reads ordered, none of which is None, and the
\* file on disk is a capture document.
Recorded ==
    /\ samples \in Seq([run : Nat, read : BOOLEAN, decoded : BOOLEAN, of : Requests])
    /\ None \notin sent
    /\ file \in Documents \cup {None}

\* The type invariant, and what it leaves open: that the histories are finite
\* and the queues are sequences.
Typed ==
    /\ TypeOK /\ Recorded
    /\ IsSeq(inbox) /\ IsSeq(samples) /\ IsSeq(completed) /\ IsFiniteSet(sent)

\* The flow context holds samples and completed ids of the run it is in only,
\* and a sample of every block it lists.
Own ==
    /\ \A i \in DOMAIN completed : completed[i][1] = run
    /\ \A i \in DOMAIN completed : completed[i][2] # None =>
          \E j \in DOMAIN samples : samples[j].of.block = completed[i][2]

\* A block is in the queue once, and in probe mode only if the run has not
\* asked for it.
Fresh ==
    /\ \A q \in sent : q.run <= run
    /\ \A i, j \in DOMAIN queue : queue[i] = queue[j] => i = j
    /\ limit = 0 => \A q \in sent : q.run = run => q.block \notin Held(queue)

\* A watchdog's message is dropped by the terminal gate; all others count.
Live(m) == ~(m.to = "terminal-gate" /\ m.body = "timeout")

\* Two live messages are on their way together only when they come from the two
\* outputs of one read, in the order those two travel.
Follows(a, b) ==
    \/ a.to = "response-gate" /\ b.to = "read-error" /\ a.body = b.body
    \/ a.to = "read-error" /\ b.to = "derive" /\ a.body # "failed"
    \/ a.to = "read-error" /\ b.to = "terminal-gate"
    \/ a.to = "terminal-gate" /\ b.to \in {"terminal-gate", "handoff"}

\* All live messages are on their way in that order.
Ordered(s) ==
    \A i, j \in DOMAIN s : i < j /\ Live(s[i]) /\ Live(s[j]) => Follows(s[i], s[j])

\* What a message on its way says of the flow: one that ends a read names a
\* block, one that has passed the terminal gate has closed the active read, and
\* only a trigger that has been counted asks for a start.
Said(m) ==
    /\ m.to \in {"response-gate", "read-error", "derive", "terminal-gate"} /\ Live(m)
          => m.req.block # None
    /\ m.to = "handoff" => active = None
    /\ m.to = "continue" => m.body # "start"
    /\ m.to = "sequencer" /\ m.body = "start" => run < triggers

\* A read is out or a message is on its way.
Busy == wire # {} \/ \E m \in Held(inbox) : Live(m)

\* While a read is out nothing else moves, and while anything moves the capture
\* a trigger waits for is not on disk.
Quiet ==
    /\ Ordered(inbox)
    /\ \A m \in Held(inbox) : Said(m)
    /\ wire # {} => \A m \in Held(inbox) : ~Live(m)
    /\ run <= triggers
    /\ file # None => file.run \in Nat /\ file.run <= run
    /\ Busy => ~(run = triggers /\ Published)
    /\ OneInFlight

----------------------------------------------------------------------------
(* Sequences.                                                              *)

\* What is held by a queue whose head is taken and which gets x at its end.
LEMMA TakenPut ==
    ASSUME NEW s, IsSeq(s), s # <<>>, NEW x
    PROVE  LET t == Tail(s) \o <<x>> IN
           /\ IsSeq(t) /\ Len(s) \in Nat /\ Len(s) >= 1 /\ DOMAIN s = 1..Len(s)
           /\ DOMAIN t = 1..Len(s) /\ t[Len(s)] = x
           /\ \A i \in 1..Len(s) - 1 : t[i] = s[i + 1]
           /\ Head(s) = s[1] /\ Head(s) \in Held(s)
           /\ Held(t) \subseteq Held(s) \cup {x}
<1> DEFINE S == Held(s) \cup {x}  t == Tail(s) \o <<x>>
<1>1. s \in Seq(S) BY DEF IsSeq, Held
<1>2. x \in S OBVIOUS
<1> HIDE DEF S
<1>3. Len(s) \in Nat /\ Len(s) >= 1 /\ DOMAIN s = 1..Len(s) /\ Head(s) = s[1] BY <1>1
<1>4. Tail(s) \in Seq(S) /\ Len(Tail(s)) = Len(s) - 1 /\ <<x>> \in Seq(S) BY <1>1, <1>2
<1>5. t \in Seq(S) /\ Len(t) = Len(s) /\ DOMAIN t = 1..Len(s) BY <1>3, <1>4
<1>6. t[Len(s)] = x BY <1>3, <1>4
<1>7. \A i \in 1..Len(s) - 1 : t[i] = s[i + 1] BY <1>1, <1>3, <1>4
<1> HIDE DEF t
<1>8. IsSeq(t) BY <1>5 DEF IsSeq
<1>9. Held(t) \subseteq Held(s) \cup {x} BY <1>3, <1>5, <1>6, <1>7 DEF Held
<1>10. Head(s) \in Held(s) BY <1>3 DEF Held
<1> QED BY <1>3, <1>5, <1>6, <1>7, <1>8, <1>9, <1>10 DEF t

\* What is held by a queue whose head is taken.
LEMMA Taken ==
    ASSUME NEW s, IsSeq(s), s # <<>>
    PROVE  LET t == Tail(s) IN
           /\ IsSeq(t) /\ Len(s) \in Nat /\ Len(s) >= 1 /\ DOMAIN s = 1..Len(s)
           /\ t \o <<>> = t
           /\ DOMAIN t = 1..Len(s) - 1
           /\ \A i \in 1..Len(s) - 1 : t[i] = s[i + 1]
           /\ Head(s) = s[1] /\ Head(s) \in Held(s)
           /\ Held(t) \subseteq Held(s)
<1> DEFINE S == Held(s)  t == Tail(s)
<1>1. s \in Seq(S) BY DEF IsSeq, Held
<1> HIDE DEF S
<1>3. Len(s) \in Nat /\ Len(s) >= 1 /\ DOMAIN s = 1..Len(s) /\ Head(s) = s[1] BY <1>1
<1>4. t \in Seq(S) /\ Len(t) = Len(s) - 1 /\ DOMAIN t = 1..Len(s) - 1 BY <1>1, <1>3
<1>5. t \o <<>> = t BY <1>4
<1>7. \A i \in 1..Len(s) - 1 : t[i] = s[i + 1] BY <1>1, <1>3
<1> HIDE DEF t
<1>8. IsSeq(t) BY <1>4 DEF IsSeq
<1>9. Held(t) \subseteq Held(s) BY <1>3, <1>4, <1>7 DEF Held
<1>10. Head(s) \in Held(s) BY <1>3 DEF Held
<1> QED BY <1>3, <1>4, <1>5, <1>7, <1>8, <1>9, <1>10 DEF t

\* What is held by a sequence that gets x at its end.
LEMMA Appended ==
    ASSUME NEW s, IsSeq(s), NEW x
    PROVE  LET t == Append(s, x) IN
           /\ IsSeq(t) /\ Len(s) \in Nat /\ DOMAIN s = 1..Len(s)
           /\ DOMAIN t = DOMAIN s \cup {Len(s) + 1} /\ t[Len(s) + 1] = x
           /\ \A i \in DOMAIN s : t[i] = s[i]
           /\ Held(t) = Held(s) \cup {x}
<1> DEFINE S == Held(s) \cup {x}  t == Append(s, x)
<1>1. s \in Seq(S) BY DEF IsSeq, Held
<1>2. x \in S OBVIOUS
<1> HIDE DEF S
<1>3. Len(s) \in Nat /\ DOMAIN s = 1..Len(s) BY <1>1
<1>4. t \in Seq(S) /\ Len(t) = Len(s) + 1 /\ DOMAIN t = 1..Len(s) + 1 BY <1>1, <1>2
<1>5. t[Len(s) + 1] = x /\ \A i \in DOMAIN s : t[i] = s[i] BY <1>1, <1>2, <1>3
<1>6. DOMAIN t = DOMAIN s \cup {Len(s) + 1} BY <1>3, <1>4
<1> HIDE DEF t
<1>7. IsSeq(t) BY <1>4 DEF IsSeq
<1>8. Held(t) = Held(s) \cup {x} BY <1>3, <1>5, <1>6 DEF Held
<1> QED BY <1>3, <1>5, <1>6, <1>7, <1>8 DEF t

LEMMA TwoAppended ==
    ASSUME NEW s, IsSeq(s), NEW a, NEW b
    PROVE  s \o <<a, b>> = Append(Append(s, a), b)
<1> DEFINE S == Held(s) \cup {a, b}
<1>1. s \in Seq(S) BY DEF IsSeq, Held
<1>2. a \in S /\ b \in S OBVIOUS
<1> HIDE DEF S
<1> QED BY <1>1, <1>2

LEMMA EmptyQueue ==
    /\ IsSeq(<<>>) /\ Held(<<>>) = {} /\ DOMAIN <<>> = {} /\ \A S : <<>> \in Seq(S)
BY DEF IsSeq, Held

----------------------------------------------------------------------------
(* The order of the messages of one read.                                  *)

LEMMA OrderTakenPut ==
    ASSUME NEW s, IsSeq(s), s # <<>>, Ordered(s), NEW x,
           \A j \in DOMAIN s : j > 1 /\ Live(s[j]) /\ Live(x) => Follows(s[j], x)
    PROVE  Ordered(Tail(s) \o <<x>>)
<1> DEFINE t == Tail(s) \o <<x>>
<1>1. /\ Len(s) \in Nat /\ Len(s) >= 1 /\ DOMAIN s = 1..Len(s)
      /\ DOMAIN t = 1..Len(s) /\ t[Len(s)] = x
      /\ \A i \in 1..Len(s) - 1 : t[i] = s[i + 1]
  BY TakenPut
<1> HIDE DEF t
<1> SUFFICES ASSUME NEW i \in DOMAIN t, NEW j \in DOMAIN t, i < j, Live(t[i]), Live(t[j])
             PROVE  Follows(t[i], t[j])
  BY DEF Ordered, t
<1>2. i \in 1..Len(s) - 1 /\ i + 1 \in DOMAIN s /\ t[i] = s[i + 1] BY <1>1
<1>3. CASE j = Len(s)
  <2>1. t[j] = x BY <1>1, <1>3
  <2>2. i + 1 > 1 BY <1>2
  <2> QED BY <1>2, <2>1, <2>2
<1>4. CASE j # Len(s)
  <2>1. j \in 1..Len(s) - 1 /\ j + 1 \in DOMAIN s /\ t[j] = s[j + 1] /\ i + 1 < j + 1
    BY <1>1, <1>2, <1>4
  <2> QED BY <1>2, <2>1 DEF Ordered
<1> QED BY <1>3, <1>4

LEMMA OrderTaken ==
    ASSUME NEW s, IsSeq(s), s # <<>>, Ordered(s)
    PROVE  Ordered(Tail(s))
<1> DEFINE t == Tail(s)
<1>1. /\ Len(s) \in Nat /\ Len(s) >= 1 /\ DOMAIN s = 1..Len(s)
      /\ DOMAIN t = 1..Len(s) - 1
      /\ \A i \in 1..Len(s) - 1 : t[i] = s[i + 1]
  BY Taken
<1> HIDE DEF t
<1> SUFFICES ASSUME NEW i \in DOMAIN t, NEW j \in DOMAIN t, i < j, Live(t[i]), Live(t[j])
             PROVE  Follows(t[i], t[j])
  BY DEF Ordered, t
<1>2. /\ i + 1 \in DOMAIN s /\ t[i] = s[i + 1] /\ j + 1 \in DOMAIN s /\ t[j] = s[j + 1]
      /\ i + 1 < j + 1
  BY <1>1
<1> QED BY <1>2 DEF Ordered

LEMMA OrderAppended ==
    ASSUME NEW s, IsSeq(s), Ordered(s), NEW x,
           \A m \in Held(s) : Live(m) /\ Live(x) => Follows(m, x)
    PROVE  Ordered(Append(s, x))
<1> DEFINE t == Append(s, x)
<1>1. /\ Len(s) \in Nat /\ DOMAIN s = 1..Len(s)
      /\ DOMAIN t = DOMAIN s \cup {Len(s) + 1} /\ t[Len(s) + 1] = x
      /\ \A i \in DOMAIN s : t[i] = s[i]
  BY Appended
<1> HIDE DEF t
<1> SUFFICES ASSUME NEW i \in DOMAIN t, NEW j \in DOMAIN t, i < j, Live(t[i]), Live(t[j])
             PROVE  Follows(t[i], t[j])
  BY DEF Ordered, t
<1>2. i \in DOMAIN s /\ t[i] = s[i] BY <1>1
<1>3. CASE j = Len(s) + 1 BY <1>1, <1>2, <1>3 DEF Held
<1>4. CASE j # Len(s) + 1 BY <1>1, <1>2, <1>4 DEF Ordered
<1> QED BY <1>3, <1>4

\* When the head is of a kind that nothing follows, nothing else is live.
LEMMA Alone ==
    ASSUME NEW s, IsSeq(s), s # <<>>, Ordered(s),
           Head(s).to \in {"derive", "handoff", "capture", "continue", "sequencer"}
    PROVE  \A j \in DOMAIN s : j > 1 => ~Live(s[j])
<1>1. Head(s) = s[1] /\ 1 \in DOMAIN s BY Taken
<1>2. Live(s[1]) BY <1>1 DEF Live
<1> SUFFICES ASSUME NEW j \in DOMAIN s, j > 1, Live(s[j]) PROVE FALSE
  OBVIOUS
<1>3. Follows(s[1], s[j]) BY <1>1, <1>2, Taken DEF Ordered
<1> QED BY <1>1, <1>3 DEF Follows

----------------------------------------------------------------------------
(* Types.                                                                  *)

LEMMA PlanFacts ==
    /\ Plan \in Seq(Blocks) /\ None \notin Blocks
    /\ \A i, j \in DOMAIN Plan : Plan[i] = Plan[j] => i = j
<1>1. Plan \in Seq(Blocks \ {None}) BY PlanAssumption DEF Blocks
<1>2. Plan \in Seq(Blocks) BY <1>1
<1>3. \A i \in DOMAIN Plan : Plan[i] # None BY <1>1
<1>4. None \notin Blocks BY <1>3 DEF Blocks
<1> QED BY <1>2, <1>4, PlanAssumption

LEMMA HeadTyped ==
    ASSUME Typed, inbox # <<>>
    PROVE  /\ Req \in sent \cup {None}
           /\ Req # None => Req \in Requests /\ Req.block \in Blocks
                            /\ Req.attempt \in Nat /\ Req.attempt <= limit
           /\ limit \in Nat
<1>1. Head(inbox) = inbox[1] /\ 1 \in DOMAIN inbox BY Taken DEF Typed
<1>2. Req \in sent \cup {None} BY <1>1 DEF Typed, TypeOK, Req
<1>3. limit \in Nat BY LimitAssumption DEF Typed, TypeOK
<1> HIDE DEF Req
<1>4. Req # None => Req \in Requests /\ Req.attempt <= limit BY <1>2 DEF Typed, TypeOK
<1> QED BY <1>2, <1>3, <1>4 DEF Requests

LEMMA EmittedTyped ==
    ASSUME Typed, inbox # <<>>, NEW x, x.req \in sent' \cup {None}, Emit(<<x>>),
           sent \subseteq sent'
    PROVE  IsSeq(inbox') /\ \A i \in DOMAIN inbox' : inbox'[i].req \in sent' \cup {None}
<1>1. inbox' = Tail(inbox) \o <<x>> /\ IsSeq(inbox) BY DEF Emit, Typed
<1>2. IsSeq(inbox') /\ Held(inbox') \subseteq Held(inbox) \cup {x} BY <1>1, TakenPut
<1>3. \A m \in Held(inbox) : m.req \in sent \cup {None} BY DEF Typed, TypeOK, Held
<1>4. \A i \in DOMAIN inbox' : inbox'[i] \in Held(inbox') BY DEF Held
<1> QED BY <1>2, <1>3, <1>4

LEMMA DroppedTyped ==
    ASSUME Typed, inbox # <<>>, Emit(<<>>), sent \subseteq sent'
    PROVE  IsSeq(inbox') /\ \A i \in DOMAIN inbox' : inbox'[i].req \in sent' \cup {None}
<1>1. inbox' = Tail(inbox) /\ IsSeq(inbox) BY Taken DEF Emit, Typed
<1>2. IsSeq(inbox') /\ Held(inbox') \subseteq Held(inbox) BY <1>1, Taken
<1>3. \A m \in Held(inbox) : m.req \in sent \cup {None} BY DEF Typed, TypeOK, Held
<1>4. \A i \in DOMAIN inbox' : inbox'[i] \in Held(inbox') BY DEF Held
<1> QED BY <1>2, <1>3, <1>4

LEMMA AppendedTyped ==
    ASSUME Typed, NEW s, IsSeq(s), NEW x, x.req \in sent \cup {None},
           \A i \in DOMAIN s : s[i].req \in sent \cup {None}
    PROVE  /\ IsSeq(Append(s, x))
           /\ \A i \in DOMAIN Append(s, x) : Append(s, x)[i].req \in sent \cup {None}
<1>1. IsSeq(Append(s, x)) /\ Held(Append(s, x)) = Held(s) \cup {x} BY Appended
<1>2. \A m \in Held(s) : m.req \in sent \cup {None} BY DEF Held
<1>3. \A i \in DOMAIN Append(s, x) : Append(s, x)[i] \in Held(Append(s, x)) BY DEF Held
<1> QED BY <1>1, <1>2, <1>3

LEMMA MsgFields ==
    ASSUME NEW to, NEW body, NEW req
    PROVE  Msg(to, body, req).to = to /\ Msg(to, body, req).body = body
           /\ Msg(to, body, req).req = req
BY DEF Msg

\* The message nodes between the answer and the capture.
Relays ==
    ReadErrorLane \/ ResponseGate \/ Derive \/ TerminalGate \/ Handoff \/ Continue

\* A relay drops the message at the head or passes it on with its request.
LEMMA RelayEffect ==
    ASSUME Relays
    PROVE  /\ inbox # <<>>
           /\ Emit(<<>>) \/ \E to, body : Emit(<<Msg(to, body, Req)>>)
           /\ active' \in {active, None} /\ watch' \in {watch, FALSE}
           /\ UNCHANGED <<running, queue, run, samples, completed, limit, wire, file,
                          sent, triggers>>
<1>1. CASE ReadErrorLane
  BY <1>1 DEF ReadErrorLane, Arrived, context, outside
<1>2. CASE ResponseGate
  BY <1>2 DEF ResponseGate, Arrived, context, outside
<1>3. CASE Derive BY <1>3 DEF Derive, Arrived, context, outside
<1>4. CASE TerminalGate BY <1>4 DEF TerminalGate, Arrived, outside
<1>5. CASE Handoff BY <1>5 DEF Handoff, Arrived, context
<1>6. CASE Continue BY <1>6 DEF Continue, Arrived, context, outside
<1> QED BY <1>1, <1>2, <1>3, <1>4, <1>5, <1>6 DEF Relays

\* The read that send() orders.
Ordering(block, attempt) ==
    LET q == [no |-> Cardinality(sent) + 1, run |-> run',
              block |-> block, attempt |-> attempt]
    IN  /\ active' = block /\ wire' = wire \cup {q} /\ sent' = sent \cup {q}
        /\ watch' = TRUE /\ Emit(<<>>)

LEMMA SendEffect ==
    ASSUME NEW block, NEW attempt, NEW now, Send(block, attempt, now)
    PROVE  \/ /\ now # None /\ active' = now /\ UNCHANGED outside
              /\ Emit(<<Msg("capture", "in-flight", None)>>)
           \/ now = None /\ Ordering(block, attempt)
BY DEF Send, Status, Ordering

\* The three ends of next(): no block is left, one is active, one is ordered.
RunsOut(blocks) ==
    /\ blocks = <<>> /\ running' = FALSE /\ queue' = <<>> /\ active' = None
    /\ UNCHANGED outside /\ Emit(<<Msg("capture", "drained", None)>>)
Waits(blocks, now, on) ==
    /\ blocks # <<>> /\ running' = on /\ queue' = Tail(blocks)
    /\ now # None /\ active' = now /\ UNCHANGED outside
    /\ Emit(<<Msg("capture", "in-flight", None)>>)
Orders(blocks, now, on) ==
    /\ blocks # <<>> /\ running' = on /\ queue' = Tail(blocks)
    /\ now = None /\ Ordering(Head(blocks), 0)

LEMMA NextBlockEffect ==
    ASSUME NEW blocks, NEW now, NEW on, NextBlock(blocks, now, on)
    PROVE  RunsOut(blocks) \/ Waits(blocks, now, on) \/ Orders(blocks, now, on)
<1>1. CASE blocks = <<>> BY <1>1 DEF NextBlock, Finalize, Status, RunsOut
<1>2. CASE blocks # <<>>
  <2>1. running' = on /\ queue' = Tail(blocks) /\ Send(Head(blocks), 0, now)
    BY <1>2 DEF NextBlock
  <2> QED BY <1>2, <2>1, SendEffect DEF Waits, Orders
<1> QED BY <1>1, <1>2

\* What a step of the sequencer leaves in the variables send() and next() write.
Dispatched ==
    /\ queue' \in Seq(Blocks) /\ running' \in BOOLEAN
    /\ active' \in Blocks \cup {None} /\ watch' \in BOOLEAN
    /\ sent' \subseteq Requests /\ wire' \subseteq sent' /\ IsFiniteSet(sent')
    /\ \A q \in sent' : q.attempt <= limit /\ q # None
    /\ IsSeq(inbox') /\ \A i \in DOMAIN inbox' : inbox'[i].req \in sent' \cup {None}
    /\ sent \subseteq sent'

LEMMA StatusTyped ==
    ASSUME Typed, inbox # <<>>, NEW body, Emit(<<Msg("capture", body, None)>>),
           UNCHANGED outside, queue' \in Seq(Blocks), running' \in BOOLEAN,
           active' \in Blocks \cup {None}
    PROVE  Dispatched
<1>1. Msg("capture", body, None).req = None BY MsgFields
<1>2. sent' = sent /\ wire' = wire /\ watch' = watch BY DEF outside
<1>3. IsSeq(inbox') /\ \A i \in DOMAIN inbox' : inbox'[i].req \in sent' \cup {None}
  BY <1>1, <1>2, EmittedTyped
<1> QED BY <1>2, <1>3 DEF Dispatched, Typed, TypeOK, Recorded

LEMMA OrderingTyped ==
    ASSUME Typed, inbox # <<>>, NEW block \in Blocks, NEW attempt \in Nat,
           attempt <= limit, run' \in Nat, Ordering(block, attempt),
           queue' \in Seq(Blocks), running' \in BOOLEAN
    PROVE  Dispatched
<1> DEFINE q == [no |-> Cardinality(sent) + 1, run |-> run',
                 block |-> block, attempt |-> attempt]
<1>1. /\ active' = block /\ wire' = wire \cup {q} /\ sent' = sent \cup {q}
      /\ watch' = TRUE /\ Emit(<<>>)
  BY DEF Ordering
<1>2. Cardinality(sent) \in Nat BY FS_CardinalityType DEF Typed
<1>3. q \in Requests /\ q.attempt <= limit /\ q # None
  BY <1>2, NoneAssumption DEF Requests
<1> HIDE DEF q
<1>4. IsFiniteSet(sent') BY <1>1, FS_AddElement DEF Typed
<1>5. IsSeq(inbox') /\ \A i \in DOMAIN inbox' : inbox'[i].req \in sent' \cup {None}
  BY <1>1, DroppedTyped
<1>6. sent' \subseteq Requests /\ wire' \subseteq sent' /\ sent \subseteq sent'
  BY <1>1, <1>3 DEF Typed, TypeOK
<1>7. \A r \in sent' : r.attempt <= limit /\ r # None
  BY <1>1, <1>3 DEF Typed, TypeOK, Recorded
<1> QED BY <1>1, <1>4, <1>5, <1>6, <1>7 DEF Dispatched

LEMMA NextBlockTyped ==
    ASSUME Typed, inbox # <<>>, NEW blocks \in Seq(Blocks), NEW now \in Blocks \cup {None},
           NEW on \in BOOLEAN, run' \in Nat, NextBlock(blocks, now, on)
    PROVE  Dispatched
<1>1. CASE RunsOut(blocks)
  <2>1. queue' \in Seq(Blocks) BY <1>1, EmptyQueue DEF RunsOut
  <2> QED BY <1>1, <2>1, StatusTyped DEF RunsOut
<1>2. CASE Waits(blocks, now, on)
  <2>1. queue' \in Seq(Blocks) BY <1>2 DEF Waits
  <2> QED BY <1>2, <2>1, StatusTyped DEF Waits
<1>3. CASE Orders(blocks, now, on)
  <2>1. queue' \in Seq(Blocks) /\ Head(blocks) \in Blocks BY <1>3 DEF Orders
  <2>2. 0 \in Nat /\ 0 <= limit BY HeadTyped
  <2>3. running' \in BOOLEAN /\ Ordering(Head(blocks), 0) BY <1>3 DEF Orders
  <2> QED BY <2>1, <2>2, <2>3, OrderingTyped, Zenon
<1> QED BY <1>1, <1>2, <1>3, NextBlockEffect

\* A sequencer step that leaves the samples of its run is well typed.
LEMMA DispatchedTyped ==
    ASSUME Typed, Dispatched, UNCHANGED <<limit, file, triggers>>, run' \in Nat,
           \/ run' = run /\ UNCHANGED <<samples, completed>>
           \/ samples' = <<>> /\ completed' = <<>>
    PROVE  Typed'
<1>1. CASE run' = run /\ UNCHANGED <<samples, completed>>
  BY <1>1, Zenon DEF Dispatched, Typed, TypeOK, Recorded
<1>2. CASE samples' = <<>> /\ completed' = <<>>
  BY <1>2, EmptyQueue, Zenon DEF Dispatched, Typed, TypeOK, Recorded
<1> QED BY <1>1, <1>2

\* What the capture node writes is a capture document.
LEMMA Written ==
    ASSUME Typed, WriteCapture
    PROVE  file' \in Documents /\ file' # None
<1> DEFINE f == [run |-> run, state |-> Body, completed |-> completed, samples |-> samples]
<1>1. file' = f /\ Body \in {"drained", "cancelled"} BY DEF WriteCapture
<1>2. run \in Nat /\ completed \in Seq((0 .. run) \X (Blocks \cup {None}))
  BY DEF Typed, TypeOK
<1>3. (0 .. run) \X (Blocks \cup {None}) \subseteq Nat \X (Blocks \cup {None}) BY <1>2
<1>4. completed \in Seq(Nat \X (Blocks \cup {None})) BY <1>2, <1>3
<1>5. f \in Documents BY <1>1, <1>2, <1>4 DEF Documents, Typed, Recorded
<1> HIDE DEF f
<1> QED BY <1>1, <1>5, NoneAssumption

LEMMA TypedStep == Typed /\ [Next]_vars => Typed'
<1> SUFFICES ASSUME Typed, [Next]_vars PROVE Typed'
  OBVIOUS
<1>0. limit \in Nat /\ run \in Nat BY LimitAssumption DEF Typed, TypeOK
<1>1. CASE Relays
  <2>1. /\ inbox # <<>>
        /\ Emit(<<>>) \/ \E to, body : Emit(<<Msg(to, body, Req)>>)
        /\ active' \in {active, None} /\ watch' \in {watch, FALSE}
        /\ UNCHANGED <<running, queue, run, samples, completed, limit, wire, file,
                       sent, triggers>>
    BY <1>1, RelayEffect
  <2>2. IsSeq(inbox') /\ \A i \in DOMAIN inbox' : inbox'[i].req \in sent' \cup {None}
    <3>1. CASE Emit(<<>>) BY <2>1, <3>1, DroppedTyped
    <3>2. ASSUME NEW to, NEW body, Emit(<<Msg(to, body, Req)>>)
          PROVE  IsSeq(inbox') /\ \A i \in DOMAIN inbox' : inbox'[i].req \in sent' \cup {None}
      <4>1. Msg(to, body, Req).req \in sent' \cup {None} BY <2>1, HeadTyped, MsgFields
      <4> QED BY <2>1, <3>2, <4>1, EmittedTyped
    <3> QED BY <2>1, <3>1, <3>2
  <2> QED BY <2>1, <2>2 DEF Typed, TypeOK, Recorded
<1>2. CASE WriteCapture
  <2>1. inbox # <<>> /\ Emit(<<>>) /\ UNCHANGED <<context, outside, limit, triggers>>
    BY <1>2 DEF WriteCapture, Arrived
  <2>2. IsSeq(inbox') /\ \A i \in DOMAIN inbox' : inbox'[i].req \in sent' \cup {None}
    BY <2>1, DroppedTyped DEF outside
  <2>3. Recorded' BY <1>2, <2>1, Written DEF Typed, Recorded, context, outside
  <2> QED BY <2>1, <2>2, <2>3 DEF Typed, TypeOK, context, outside
<1>3. CASE Record
  <2>1. PICK body : Emit(<<Msg("continue", body, Req)>>)
    BY <1>3 DEF Record
  <2>2. inbox # <<>> /\ active' = None
        /\ UNCHANGED <<running, queue, run, outside, limit, file, triggers>>
    BY <1>3 DEF Record, Arrived
  <2>3. IsSeq(inbox') /\ \A i \in DOMAIN inbox' : inbox'[i].req \in sent' \cup {None}
    <3>1. Msg("continue", body, Req).req \in sent' \cup {None}
      BY <2>2, HeadTyped, MsgFields DEF outside
    <3> QED BY <2>1, <2>2, <3>1, EmittedTyped DEF outside
  <2>4. IsSeq(samples') /\ \A i \in DOMAIN samples' :
            samples'[i].of \in sent /\ samples'[i].run = run /\ samples'[i].read \in BOOLEAN
            /\ samples'[i].decoded \in BOOLEAN
    <3>1. CASE samples' = samples BY <3>1 DEF Typed, TypeOK
    <3>2. CASE samples' # samples
      <4> DEFINE x == [run |-> run, read |-> Body \in Derived,
                     decoded |-> Body # "undecoded", of |-> Req]
      <4>1. samples' = Append(samples, x) /\ Req # None BY <1>3, <3>2 DEF Record
      <4>2. x.of \in sent /\ x.run = run /\ x.read \in BOOLEAN /\ x.decoded \in BOOLEAN
        BY <2>2, <4>1, HeadTyped
      <4> HIDE DEF x
      <4>3. \A i \in DOMAIN samples' :
                (i \in DOMAIN samples /\ samples'[i] = samples[i]) \/ samples'[i] = x
        BY <4>1, Appended DEF Typed
      <4>4. IsSeq(samples') BY <4>1, Appended DEF Typed
      <4> QED BY <4>2, <4>3, <4>4 DEF Typed, TypeOK
    <3> QED BY <3>1, <3>2
  <2>5. IsSeq(completed') /\ completed' \in Seq((0 .. run) \X (Blocks \cup {None}))
    <3>1. CASE completed' = completed BY <3>1 DEF Typed, TypeOK
    <3>2. CASE completed' # completed
      <4> DEFINE x == <<run, IF Req = None THEN None ELSE Req.block>>
      <4>1. completed' = Append(completed, x) BY <1>3, <3>2 DEF Record
      <4>2. x \in (0 .. run) \X (Blocks \cup {None}) BY <1>0, <2>2, HeadTyped
      <4> HIDE DEF x
      <4>3. IsSeq(completed') BY <4>1, Appended DEF Typed
      <4> QED BY <4>1, <4>2, <4>3 DEF Typed, TypeOK
    <3> QED BY <3>1, <3>2
  <2>6. Recorded'
    <3>1. CASE samples' = samples BY <2>2, <3>1 DEF Typed, Recorded, outside
    <3>2. CASE samples' # samples
      <4> DEFINE x == [run |-> run, read |-> Body \in Derived,
                     decoded |-> Body # "undecoded", of |-> Req]
      <4>1. samples' = Append(samples, x) /\ Req # None BY <1>3, <3>2 DEF Record
      <4>2. Req \in Requests BY <2>2, <4>1, HeadTyped
      <4>3. x \in [run : Nat, read : BOOLEAN, decoded : BOOLEAN, of : Requests]
        BY <1>0, <4>2
      <4> HIDE DEF x
      <4> QED BY <2>2, <4>1, <4>3 DEF Typed, Recorded, outside
    <3> QED BY <3>1, <3>2
  <2> QED BY <2>2, <2>3, <2>4, <2>5, <2>6 DEF Typed, TypeOK, outside
<1>4. CASE Sequence
  <2>1. inbox # <<>> /\ UNCHANGED <<limit, file, triggers>>
        /\ (StartPlan \/ StartRefused \/ Cancel \/ Retry \/ Advance)
    BY <1>4 DEF Sequence, Arrived
  <2>2. /\ queue \in Seq(Blocks) /\ running \in BOOLEAN /\ active \in Blocks \cup {None}
        /\ <<>> \in Seq(Blocks)
    BY EmptyQueue DEF Typed, TypeOK
  <2>3. CASE StartPlan
    <3>1. /\ run' = run + 1 /\ samples' = <<>> /\ completed' = <<>>
          /\ NextBlock(Plan, None, TRUE)
      BY <2>3 DEF StartPlan
    <3>2. run' \in Nat BY <1>0, <3>1
    <3>3. Plan \in Seq(Blocks) /\ None \in Blocks \cup {None} /\ TRUE \in BOOLEAN BY PlanFacts
    <3>4. Dispatched BY <2>1, <3>1, <3>2, <3>3, NextBlockTyped
    <3> QED BY <2>1, <3>1, <3>2, <3>4, DispatchedTyped
  <2>4. CASE StartRefused
    <3>1. Emit(<<Msg("capture", "already-running", None)>>) /\ UNCHANGED outside
          /\ UNCHANGED context
      BY <2>4 DEF StartRefused, Status
    <3>2. UNCHANGED <<queue, running, active, run, samples, completed>>
      BY <3>1 DEF context
    <3>3. Dispatched BY <2>1, <2>2, <3>1, <3>2, StatusTyped
    <3> QED BY <1>0, <2>1, <3>2, <3>3, DispatchedTyped
  <2>5. CASE Cancel
    <3>1. /\ Emit(<<Msg("capture", "cancelled", None)>>) /\ UNCHANGED outside
          /\ running' = FALSE /\ queue' = <<>> /\ active' = None
          /\ UNCHANGED <<run, samples, completed>>
      BY <2>5 DEF Cancel, Finalize, Status
    <3>2. Dispatched BY <2>1, <2>2, <3>1, StatusTyped
    <3> QED BY <1>0, <2>1, <3>1, <3>2, DispatchedTyped
  <2>6. CASE Retry
    <3>1. UNCHANGED <<run, samples, completed>> BY <2>6 DEF Retry
    <3>2. CASE Req = None \/ Req.attempt + 1 > limit
      <4>1. NextBlock(queue, active, running) BY <2>6, <3>2 DEF Retry
      <4>2. Dispatched BY <1>0, <2>1, <2>2, <3>1, <4>1, NextBlockTyped
      <4> QED BY <1>0, <2>1, <3>1, <4>2, DispatchedTyped
    <3>3. CASE ~(Req = None \/ Req.attempt + 1 > limit)
      <4>1. Send(Req.block, Req.attempt + 1, active) /\ UNCHANGED <<running, queue>>
        BY <2>6, <3>3 DEF Retry
      <4>2. /\ Req.block \in Blocks /\ Req.attempt + 1 \in Nat /\ Req.attempt + 1 <= limit
        BY <1>0, <2>1, <3>3, HeadTyped
      <4>3. CASE Emit(<<Msg("capture", "in-flight", None)>>) /\ UNCHANGED outside
                 /\ active' = active
        <5>1. Dispatched BY <2>1, <2>2, <4>1, <4>3, StatusTyped
        <5> QED BY <1>0, <2>1, <3>1, <5>1, DispatchedTyped
      <4>4. CASE Ordering(Req.block, Req.attempt + 1)
        <5>1. Dispatched BY <1>0, <2>1, <2>2, <3>1, <4>1, <4>2, <4>4, OrderingTyped
        <5> QED BY <1>0, <2>1, <3>1, <5>1, DispatchedTyped
      <4> QED BY <4>1, <4>3, <4>4, SendEffect
    <3> QED BY <3>2, <3>3
  <2>7. CASE Advance
    <3>1. UNCHANGED <<run, samples, completed>> /\ NextBlock(queue, active, running)
      BY <2>7 DEF Advance
    <3>2. Dispatched BY <1>0, <2>1, <2>2, <3>1, NextBlockTyped
    <3> QED BY <1>0, <2>1, <3>1, <3>2, DispatchedTyped
  <2> QED BY <2>1, <2>3, <2>4, <2>5, <2>6, <2>7
<1>5. ASSUME NEW c \in Commands, Trigger(c) PROVE Typed'
  <2>1. /\ inbox' = Append(inbox, Msg("sequencer", c, None)) /\ triggers' = triggers + 1
        /\ UNCHANGED <<context, outside, limit, file>>
    BY <1>5 DEF Trigger
  <2>2. Msg("sequencer", c, None).req = None BY MsgFields
  <2>3. IsSeq(inbox') /\ \A i \in DOMAIN inbox' : inbox'[i].req \in sent \cup {None}
    BY <2>1, <2>2, AppendedTyped DEF Typed, TypeOK
  <2> QED BY <2>1, <2>3 DEF Typed, TypeOK, Recorded, context, outside
<1>6. ASSUME NEW q \in wire, NEW o \in Outcomes, Answer(q, o) PROVE Typed'
  <2>1. wire' = wire \ {q} /\ UNCHANGED <<context, limit, watch, file, sent, triggers>>
    BY <1>6 DEF Answer
  <2>2. IsSeq(inbox') /\ \A i \in DOMAIN inbox' : inbox'[i].req \in sent \cup {None}
    <3> DEFINE a == Msg("response-gate", o, q)  b == Msg("read-error", o, q)
    <3>1. a.req \in sent /\ b.req \in sent BY MsgFields DEF Typed, TypeOK
    <3> HIDE DEF a, b
    <3>2. CASE inbox' = inbox BY <3>2 DEF Typed, TypeOK
    <3>3. CASE inbox' = Append(Append(inbox, a), b)
      <4> DEFINE s == Append(inbox, a)
      <4>1. IsSeq(s) /\ \A i \in DOMAIN s : s[i].req \in sent \cup {None}
        BY <3>1, AppendedTyped DEF Typed, TypeOK
      <4> HIDE DEF s
      <4>2. IsSeq(Append(s, b)) /\ \A i \in DOMAIN Append(s, b) :
                Append(s, b)[i].req \in sent \cup {None}
        BY <3>1, <4>1, AppendedTyped
      <4> QED BY <3>3, <4>2 DEF s
    <3>4. inbox' \in {inbox, inbox \o <<a, b>>} BY <1>6 DEF Answer, a, b
    <3>5. inbox \o <<a, b>> = Append(Append(inbox, a), b) BY TwoAppended DEF Typed
    <3> QED BY <3>2, <3>3, <3>4, <3>5
  <2> QED BY <2>1, <2>2 DEF Typed, TypeOK, Recorded, context
<1>7. CASE WatchdogFires
  <2>1. /\ inbox' = Append(inbox, Msg("terminal-gate", "timeout", None)) /\ watch' = FALSE
        /\ UNCHANGED <<context, limit, wire, file, sent, triggers>>
    BY <1>7 DEF WatchdogFires
  <2>2. Msg("terminal-gate", "timeout", None).req = None BY MsgFields
  <2>3. IsSeq(inbox') /\ \A i \in DOMAIN inbox' : inbox'[i].req \in sent \cup {None}
    BY <2>1, <2>2, AppendedTyped DEF Typed, TypeOK
  <2> QED BY <2>1, <2>3 DEF Typed, TypeOK, Recorded, context
<1>8. CASE UNCHANGED vars
  BY <1>8 DEF vars, context, outside, Typed, TypeOK, Recorded
<1> QED
  BY <1>1, <1>2, <1>3, <1>4, <1>5, <1>6, <1>7, <1>8 DEF Next, Deliver, Relays

----------------------------------------------------------------------------
(* What a capture holds.                                                   *)

Captures == Own /\ CaptureOfOneRun /\ CompletedHasSample

LEMMA CapturesUnchanged ==
    ASSUME Captures, UNCHANGED <<run, samples, completed, file>>
    PROVE  Captures'
BY DEF Captures, Own, CaptureOfOneRun, CompletedHasSample

LEMMA CapturesStep == Typed /\ Captures /\ [Next]_vars => Captures'
<1> SUFFICES ASSUME Typed, Captures, [Next]_vars PROVE Captures'
  OBVIOUS
<1>1. CASE Relays BY <1>1, RelayEffect, CapturesUnchanged
<1>2. CASE WriteCapture
  <2>1. UNCHANGED <<run, samples, completed>> BY <1>2 DEF WriteCapture, context
  <2>2. Own' BY <2>1 DEF Captures, Own
  <2>3. /\ file'.run = run /\ file'.samples = samples /\ file'.completed = completed
    BY <1>2 DEF WriteCapture
  <2>4. CaptureOfOneRun' BY <2>3 DEF CaptureOfOneRun, Captures, Own, Typed, TypeOK
  <2>5. CompletedHasSample' BY <2>3 DEF CompletedHasSample, Captures, Own
  <2> QED BY <2>2, <2>4, <2>5 DEF Captures
<1>3. CASE Record
  <2>1. file' = file /\ run' = run BY <1>3 DEF Record
  <2>2. CaptureOfOneRun' /\ CompletedHasSample'
    BY <2>1 DEF Captures, CaptureOfOneRun, CompletedHasSample
  <2> DEFINE x == [run |-> run, read |-> Body \in Derived,
                     decoded |-> Body # "undecoded", of |-> Req]
             id == <<run, IF Req = None THEN None ELSE Req.block>>
  <2>3. samples' = IF Req = None THEN samples ELSE Append(samples, x)
    BY <1>3 DEF Record
  <2>4. completed' = completed \/ completed' = Append(completed, id)
    BY <1>3 DEF Record
  <2>5. x.of = Req /\ id[1] = run /\ id[2] = (IF Req = None THEN None ELSE Req.block)
    OBVIOUS
  <2> HIDE DEF x, id
  <2>6. \A j \in DOMAIN samples : j \in DOMAIN samples' /\ samples'[j] = samples[j]
    BY <2>3, Appended DEF Typed
  <2>7. Req # None => \E j \in DOMAIN samples' : samples'[j].of.block = Req.block
    BY <2>3, <2>5, Appended DEF Typed
  <2>8. \A i \in DOMAIN completed' :
            (i \in DOMAIN completed /\ completed'[i] = completed[i]) \/ completed'[i] = id
    BY <2>4, Appended DEF Typed
  <2>9. \A i \in DOMAIN completed' : completed'[i][1] = run
    BY <2>5, <2>8 DEF Captures, Own
  <2>10. \A i \in DOMAIN completed' : completed'[i][2] # None =>
            \E j \in DOMAIN samples' : samples'[j].of.block = completed'[i][2]
    <3> SUFFICES ASSUME NEW i \in DOMAIN completed', completed'[i][2] # None
                 PROVE  \E j \in DOMAIN samples' : samples'[j].of.block = completed'[i][2]
      OBVIOUS
    <3>1. CASE completed'[i] = id BY <2>5, <2>7, <3>1
    <3>2. CASE i \in DOMAIN completed /\ completed'[i] = completed[i]
      BY <2>6, <3>2 DEF Captures, Own
    <3> QED BY <2>8, <3>1, <3>2
  <2> QED BY <2>1, <2>2, <2>9, <2>10 DEF Captures, Own
<1>4. CASE Sequence
  <2>1. file' = file /\ (StartPlan \/ StartRefused \/ Cancel \/ Retry \/ Advance)
    BY <1>4 DEF Sequence
  <2>2. CASE StartPlan
    <3>1. samples' = <<>> /\ completed' = <<>> BY <2>2 DEF StartPlan
    <3> QED BY <2>1, <3>1, EmptyQueue DEF Captures, Own, CaptureOfOneRun, CompletedHasSample
  <2>3. CASE StartRefused BY <2>1, <2>3, CapturesUnchanged DEF StartRefused, context
  <2>4. CASE Cancel BY <2>1, <2>4, CapturesUnchanged DEF Cancel
  <2>5. CASE Retry BY <2>1, <2>5, CapturesUnchanged DEF Retry
  <2>6. CASE Advance BY <2>1, <2>6, CapturesUnchanged DEF Advance
  <2> QED BY <2>1, <2>2, <2>3, <2>4, <2>5, <2>6
<1>5. ASSUME NEW c \in Commands, Trigger(c) PROVE Captures'
  BY <1>5, CapturesUnchanged DEF Trigger, context
<1>6. ASSUME NEW q \in wire, NEW o \in Outcomes, Answer(q, o) PROVE Captures'
  BY <1>6, CapturesUnchanged DEF Answer, context
<1>7. CASE WatchdogFires BY <1>7, CapturesUnchanged DEF WatchdogFires, context
<1>8. CASE UNCHANGED vars BY <1>8, CapturesUnchanged DEF vars, context
<1> QED
  BY <1>1, <1>2, <1>3, <1>4, <1>5, <1>6, <1>7, <1>8 DEF Next, Deliver, Relays

----------------------------------------------------------------------------
(* What the probe reads.                                                   *)

LEMMA FreshUnchanged ==
    ASSUME Fresh, ProbeReadsOnce, UNCHANGED <<run, queue, sent, limit>>
    PROVE  Fresh' /\ ProbeReadsOnce'
BY DEF Fresh, ProbeReadsOnce, Held

\* next() orders a block that the run has not asked for yet.
LEMMA FreshNext ==
    ASSUME Typed, ProbeReadsOnce, limit' = limit, run' \in Nat,
           NEW blocks \in Seq(Blocks), NEW now, NEW on, NextBlock(blocks, now, on),
           \A i, j \in DOMAIN blocks : blocks[i] = blocks[j] => i = j,
           \A q \in sent : q.run <= run',
           limit = 0 => \A q \in sent : q.run = run' => q.block \notin Held(blocks)
    PROVE  Fresh' /\ ProbeReadsOnce'
<1>0. \A q \in sent : q \in Requests BY DEF Typed, TypeOK
<1>1. CASE RunsOut(blocks)
  <2>1. queue' = <<>> /\ sent' = sent BY <1>1 DEF RunsOut, outside
  <2>2. Held(queue') = {} /\ DOMAIN queue' = {} BY <2>1, EmptyQueue
  <2> QED BY <2>1, <2>2 DEF Fresh, ProbeReadsOnce, Held
<1>2. ASSUME blocks # <<>>, queue' = Tail(blocks)
      PROVE  /\ \A i, j \in DOMAIN queue' : queue'[i] = queue'[j] => i = j
             /\ Held(queue') \subseteq Held(blocks)
             /\ Head(blocks) \in Held(blocks) /\ Head(blocks) \notin Held(queue')
  <2>1. /\ Len(blocks) \in Nat /\ Len(blocks) >= 1 /\ DOMAIN blocks = 1..Len(blocks)
        /\ DOMAIN queue' = 1..Len(blocks) - 1 /\ Head(blocks) = blocks[1]
        /\ \A i \in 1..Len(blocks) - 1 : queue'[i] = blocks[i + 1]
    BY <1>2
  <2>2. \A i \in 1..Len(blocks) - 1 : i + 1 \in DOMAIN blocks /\ i + 1 # 1 BY <2>1
  <2>3. \A i, j \in DOMAIN queue' : queue'[i] = queue'[j] => i = j
    <3> SUFFICES ASSUME NEW i \in DOMAIN queue', NEW j \in DOMAIN queue',
                        queue'[i] = queue'[j]
                 PROVE  i = j
      OBVIOUS
    <3>1. blocks[i + 1] = blocks[j + 1] /\ i + 1 \in DOMAIN blocks /\ j + 1 \in DOMAIN blocks
      BY <2>1, <2>2
    <3>2. i + 1 = j + 1 BY <3>1
    <3> QED BY <2>1, <3>2
  <2>4. 1 \in DOMAIN blocks BY <2>1
  <2>5. Held(queue') \subseteq Held(blocks) BY <2>1, <2>2 DEF Held
  <2>6. Head(blocks) \notin Held(queue')
    <3> SUFFICES ASSUME NEW i \in DOMAIN queue', queue'[i] = Head(blocks) PROVE FALSE
      BY DEF Held
    <3>1. blocks[i + 1] = blocks[1] /\ i + 1 \in DOMAIN blocks /\ i + 1 # 1 BY <2>1, <2>2
    <3> QED BY <2>4, <3>1
  <2> QED BY <2>1, <2>3, <2>4, <2>5, <2>6 DEF Held
<1>3. CASE Waits(blocks, now, on)
  <2>1. blocks # <<>> /\ queue' = Tail(blocks) /\ sent' = sent BY <1>3 DEF Waits, outside
  <2>2. limit = 0 => \A q \in sent : q.run = run' => q.block \notin Held(queue')
    BY <1>2, <2>1
  <2>3. Held(queue)' = Held(queue') BY DEF Held
  <2>4. Fresh' BY <1>2, <2>1, <2>2, <2>3 DEF Fresh
  <2>5. ProbeReadsOnce' BY <2>1 DEF ProbeReadsOnce
  <2> QED BY <2>4, <2>5
<1>4. CASE Orders(blocks, now, on)
  <2> DEFINE r == [no |-> Cardinality(sent) + 1, run |-> run',
                   block |-> Head(blocks), attempt |-> 0]
  <2>1. blocks # <<>> /\ queue' = Tail(blocks) /\ sent' = sent \cup {r}
    BY <1>4 DEF Orders, Ordering
  <2>2. r.run = run' /\ r.block = Head(blocks) OBVIOUS
  <2> HIDE DEF r
  <2>3. \A q \in sent' : q.run <= run' BY <2>1, <2>2
  <2>4. limit = 0 => \A q \in sent' : q.run = run' => q.block \notin Held(queue')
    BY <1>2, <2>1, <2>2
  <2>5. Held(queue)' = Held(queue') BY DEF Held
  <2>6. Fresh' BY <1>2, <2>1, <2>3, <2>4, <2>5 DEF Fresh
  <2>7. limit = 0 => \A q \in sent : ~(q.run = r.run /\ q.block = r.block)
    BY <1>2, <2>1, <2>2
  <2>8. ProbeReadsOnce' BY <2>1, <2>7 DEF ProbeReadsOnce
  <2> QED BY <2>6, <2>8
<1> QED BY <1>1, <1>3, <1>4, NextBlockEffect

LEMMA FreshStep == Typed /\ Fresh /\ ProbeReadsOnce /\ [Next]_vars => Fresh' /\ ProbeReadsOnce'
<1> SUFFICES ASSUME Typed, Fresh, ProbeReadsOnce, [Next]_vars
             PROVE  Fresh' /\ ProbeReadsOnce'
  OBVIOUS
<1>0. /\ run \in Nat /\ queue \in Seq(Blocks) /\ limit \in Nat
      /\ \A q \in sent : q.run \in Nat /\ q.run <= run
  BY LimitAssumption DEF Typed, TypeOK, Requests, Fresh
<1>1. CASE Relays BY <1>1, RelayEffect, FreshUnchanged
<1>2. CASE WriteCapture BY <1>2, FreshUnchanged DEF WriteCapture, context, outside
<1>3. CASE Record BY <1>3, FreshUnchanged DEF Record, outside
<1>4. CASE Sequence
  <2>1. inbox # <<>> /\ limit' = limit
        /\ (StartPlan \/ StartRefused \/ Cancel \/ Retry \/ Advance)
    BY <1>4 DEF Sequence, Arrived
  <2>2. CASE StartPlan
    <3>1. run' = run + 1 /\ NextBlock(Plan, None, TRUE) BY <2>2 DEF StartPlan
    <3>2. /\ run' \in Nat /\ \A q \in sent : q.run <= run' /\ q.run # run'
      BY <1>0, <3>1
    <3>3. Plan \in Seq(Blocks) /\ \A i, j \in DOMAIN Plan : Plan[i] = Plan[j] => i = j
      BY PlanFacts
    <3> QED BY <2>1, <3>1, <3>2, <3>3, FreshNext, Zenon
  <2>3. CASE StartRefused
    BY <2>1, <2>3, FreshUnchanged DEF StartRefused, Status, context, outside
  <2>4. CASE Cancel
    <3>1. queue' = <<>> /\ sent' = sent /\ run' = run
      BY <2>4 DEF Cancel, Finalize, Status, outside
    <3>2. Held(queue') = {} /\ DOMAIN queue' = {} BY <3>1, EmptyQueue
    <3> QED BY <2>1, <3>1, <3>2 DEF Fresh, ProbeReadsOnce, Held
  <2>5. ASSUME NextBlock(queue, active, running), run' = run
        PROVE  Fresh' /\ ProbeReadsOnce'
    <3>1. /\ \A i, j \in DOMAIN queue : queue[i] = queue[j] => i = j
          /\ limit = 0 => \A q \in sent : q.run = run' => q.block \notin Held(queue)
          /\ run' \in Nat /\ \A q \in sent : q.run <= run'
      BY <1>0, <2>5 DEF Fresh
    <3> QED BY <1>0, <2>1, <2>5, <3>1, FreshNext, Zenon
  <2>6. CASE Retry
    <3>1. run' = run BY <2>6 DEF Retry
    <3>2. CASE Req = None \/ Req.attempt + 1 > limit
      BY <2>5, <2>6, <3>1, <3>2 DEF Retry
    <3>3. CASE ~(Req = None \/ Req.attempt + 1 > limit)
      <4>1. Send(Req.block, Req.attempt + 1, active) /\ queue' = queue
        BY <2>6, <3>3 DEF Retry
      <4>2. limit # 0 BY <2>1, <3>3, HeadTyped
      <4>3. sent' = sent \/ \E q : q.run = run' /\ sent' = sent \cup {q}
        <5>1. CASE Ordering(Req.block, Req.attempt + 1) BY <5>1 DEF Ordering
        <5> QED BY <4>1, <5>1, SendEffect DEF outside
      <4>4. \A q \in sent' : q.run <= run' BY <1>0, <3>1, <4>3
      <4>5. Fresh' BY <2>1, <4>1, <4>2, <4>4 DEF Fresh
      <4>6. ProbeReadsOnce' BY <2>1, <4>2 DEF ProbeReadsOnce
      <4> QED BY <4>5, <4>6
    <3> QED BY <3>2, <3>3
  <2>7. CASE Advance BY <2>5, <2>7 DEF Advance
  <2> QED BY <2>1, <2>2, <2>3, <2>4, <2>6, <2>7
<1>5. ASSUME NEW c \in Commands, Trigger(c) PROVE Fresh' /\ ProbeReadsOnce'
  BY <1>5, FreshUnchanged DEF Trigger, context, outside
<1>6. ASSUME NEW q \in wire, NEW o \in Outcomes, Answer(q, o)
      PROVE  Fresh' /\ ProbeReadsOnce'
  BY <1>6, FreshUnchanged DEF Answer, context
<1>7. CASE WatchdogFires BY <1>7, FreshUnchanged DEF WatchdogFires, context
<1>8. CASE UNCHANGED vars BY <1>8, FreshUnchanged DEF vars, context, outside
<1> QED
  BY <1>1, <1>2, <1>3, <1>4, <1>5, <1>6, <1>7, <1>8 DEF Next, Deliver, Relays

----------------------------------------------------------------------------
(* One read at a time.                                                     *)

\* A node takes the message at the head and lets it go.
LEMMA QuietDrop ==
    ASSUME Typed, Quiet, inbox # <<>>, Emit(<<>>),
           UNCHANGED <<wire, run, triggers, file>>,
           active' = active \/ (wire = {} /\ active' = None)
    PROVE  Quiet'
<1>1. inbox' = Tail(inbox) /\ IsSeq(inbox) BY Taken DEF Emit, Typed
<1>2. Ordered(inbox') BY <1>1, OrderTaken DEF Quiet
<1>3. Held(inbox') \subseteq Held(inbox) BY <1>1, Taken
<1>4. \A m \in Held(inbox') : Said(m)' BY <1>3 DEF Quiet, Said, Live
<1>5. wire' # {} => \A m \in Held(inbox') : ~Live(m) BY <1>3 DEF Quiet
<1>6. OneInFlight' BY DEF Quiet, OneInFlight, AtMostOneRead
<1>7. Published' <=> Published BY DEF Published
<1>8. Busy' => Busy BY <1>3 DEF Busy, Held, Live
<1> QED BY <1>2, <1>4, <1>5, <1>6, <1>7, <1>8 DEF Quiet, Held, Ordered, Live, Follows

\* A live message at the head says that no read is on the wire.
LEMMA LiveHead ==
    ASSUME Typed, Quiet, inbox # <<>>, Live(Head(inbox))
    PROVE  wire = {} /\ Busy /\ Said(Head(inbox))
<1>1. Head(inbox) \in Held(inbox) BY Taken DEF Typed
<1> QED BY <1>1 DEF Quiet, Busy

\* A node takes the message at the head and sends x on.
LEMMA QuietPut ==
    ASSUME Typed, Quiet, inbox # <<>>, Live(Head(inbox)), NEW x, Emit(<<x>>),
           UNCHANGED <<wire, triggers, file>>, active' \in {active, None},
           \/ run' = run
           \/ run' = run + 1 /\ run < triggers /\ Head(inbox).to = "sequencer",
           \A j \in DOMAIN inbox : j > 1 /\ Live(inbox[j]) => Follows(inbox[j], x),
           x.to \in {"response-gate", "read-error", "derive", "terminal-gate"}
               => x.req.block # None,
           x.to = "handoff" => active' = None,
           x.to = "continue" => x.body # "start",
           ~(x.to = "sequencer" /\ x.body = "start")
    PROVE  Quiet'
<1>0. run \in Nat /\ triggers \in Nat BY DEF Typed, TypeOK
<1>1. inbox' = Tail(inbox) \o <<x>> /\ IsSeq(inbox) BY DEF Emit, Typed
<1>2. Ordered(inbox') BY <1>1, OrderTakenPut DEF Quiet
<1>3. Held(inbox') \subseteq Held(inbox) \cup {x} BY <1>1, TakenPut
<1>4. wire' = {} /\ Busy BY LiveHead
<1>5. \A m \in Held(inbox') : Said(m)'
  <2>1. CASE run' = run BY <1>3, <2>1 DEF Quiet, Said, Live
  <2>2. CASE run' = run + 1 /\ Head(inbox).to = "sequencer"
    <3>1. \A j \in DOMAIN inbox : j > 1 => ~Live(inbox[j])
      BY <2>2, Alone DEF Typed, Quiet
    <3>2. \A m \in Held(inbox') : m = x \/ ~Live(m)
      <4>1. /\ Len(inbox) \in Nat /\ DOMAIN inbox = 1..Len(inbox)
            /\ DOMAIN inbox' = 1..Len(inbox) /\ inbox'[Len(inbox)] = x
            /\ \A i \in 1..Len(inbox) - 1 : inbox'[i] = inbox[i + 1]
        BY <1>1, TakenPut
      <4> SUFFICES ASSUME NEW i \in DOMAIN inbox', inbox'[i] # x PROVE ~Live(inbox'[i])
        BY DEF Held
      <4>2. i + 1 \in DOMAIN inbox /\ i + 1 > 1 /\ inbox'[i] = inbox[i + 1] BY <4>1
      <4> QED BY <3>1, <4>2
    <3> QED BY <3>2 DEF Said, Live
  <2> QED BY <2>1, <2>2
<1>6. OneInFlight' BY <1>4 DEF OneInFlight, AtMostOneRead
<1>7. run' <= triggers' BY <1>0 DEF Quiet
<1>8. file' # None => file'.run \in Nat /\ file'.run <= run' BY <1>0 DEF Quiet
<1>9. ~(run' = triggers' /\ Published')
  <2>1. CASE run' = run BY <1>4, <2>1 DEF Quiet, Published
  <2>2. CASE run' = run + 1
    <3>1. run' # 0 /\ (file # None => file.run # run') BY <1>0, <2>2 DEF Quiet
    <3> QED BY <3>1 DEF Published
  <2> QED BY <2>1, <2>2
<1> QED
  BY <1>2, <1>4, <1>5, <1>6, <1>7, <1>8, <1>9 DEF Quiet, Held, Ordered, Live, Follows

\* The sequencer takes a message and orders a read: nothing else is under way.
LEMMA QuietOrder ==
    ASSUME Typed, Quiet, inbox # <<>>, Head(inbox).to = "sequencer",
           NEW block, NEW attempt, Ordering(block, attempt),
           UNCHANGED <<triggers, file>>,
           run' = run \/ (run' = run + 1 /\ run < triggers)
    PROVE  Quiet'
<1>0. run \in Nat /\ triggers \in Nat BY DEF Typed, TypeOK
<1>1. Live(Head(inbox)) BY DEF Live
<1>2. inbox' = Tail(inbox) /\ IsSeq(inbox) BY Taken DEF Emit, Typed, Ordering
<1>3. Ordered(inbox') BY <1>2, OrderTaken DEF Quiet
<1>4. \A m \in Held(inbox') : ~Live(m)
  <2>1. \A j \in DOMAIN inbox : j > 1 => ~Live(inbox[j]) BY Alone DEF Typed, Quiet
  <2>2. /\ Len(inbox) \in Nat /\ DOMAIN inbox = 1..Len(inbox)
        /\ DOMAIN inbox' = 1..Len(inbox) - 1
        /\ \A i \in 1..Len(inbox) - 1 : inbox'[i] = inbox[i + 1]
    BY <1>2, Taken
  <2> SUFFICES ASSUME NEW i \in DOMAIN inbox' PROVE ~Live(inbox'[i])
    BY DEF Held
  <2>3. i + 1 \in DOMAIN inbox /\ i + 1 > 1 /\ inbox'[i] = inbox[i + 1] BY <2>2
  <2> QED BY <2>1, <2>3
<1>5. \A m \in Held(inbox') : Said(m)' BY <1>4 DEF Said, Live
<1>6. wire = {} /\ Busy BY <1>1, LiveHead
<1>7. OneInFlight'
  <2> DEFINE q == [no |-> Cardinality(sent) + 1, run |-> run',
                   block |-> block, attempt |-> attempt]
  <2>1. active' = block /\ wire' = {q} BY <1>6 DEF Ordering
  <2>2. q.block = block OBVIOUS
  <2> HIDE DEF q
  <2> QED BY <2>1, <2>2 DEF OneInFlight, AtMostOneRead
<1>8. run' <= triggers' BY <1>0 DEF Quiet
<1>9. file' # None => file'.run \in Nat /\ file'.run <= run' BY <1>0 DEF Quiet
<1>10. ~(run' = triggers' /\ Published')
  <2>1. CASE run' = run BY <1>6, <2>1 DEF Quiet, Published
  <2>2. CASE run' = run + 1
    <3>1. run' # 0 /\ (file # None => file.run # run') BY <1>0, <2>2 DEF Quiet
    <3> QED BY <3>1 DEF Published
  <2> QED BY <2>1, <2>2
<1> QED
  BY <1>3, <1>4, <1>5, <1>7, <1>8, <1>9, <1>10 DEF Quiet, Held, Ordered, Live, Follows

\* The sequencer answers with a status.
LEMMA QuietStatus ==
    ASSUME Typed, Quiet, inbox # <<>>, Head(inbox).to = "sequencer", NEW body,
           Emit(<<Msg("capture", body, None)>>), UNCHANGED <<outside, triggers, file>>,
           active' \in {active, None},
           run' = run \/ (run' = run + 1 /\ run < triggers)
    PROVE  Quiet'
<1> DEFINE x == Msg("capture", body, None)
<1>1. x.to = "capture" BY MsgFields
<1>2. Live(Head(inbox)) BY DEF Live
<1>3. \A j \in DOMAIN inbox : j > 1 => ~Live(inbox[j]) BY Alone DEF Typed, Quiet
<1>4. wire' = wire BY DEF outside
<1> HIDE DEF x
<1>5. Emit(<<x>>) BY DEF x
<1> QED BY <1>1, <1>2, <1>3, <1>4, <1>5, QuietPut

LEMMA QuietNextBlock ==
    ASSUME Typed, Quiet, inbox # <<>>, Head(inbox).to = "sequencer",
           NEW blocks, NEW now, NEW on, NextBlock(blocks, now, on),
           now \in {active, None}, UNCHANGED <<triggers, file>>,
           run' = run \/ (run' = run + 1 /\ run < triggers)
    PROVE  Quiet'
<1>1. CASE RunsOut(blocks) BY <1>1, QuietStatus DEF RunsOut
<1>2. CASE Waits(blocks, now, on) BY <1>2, QuietStatus DEF Waits
<1>3. CASE Orders(blocks, now, on)
  <2>1. Ordering(Head(blocks), 0) BY <1>3 DEF Orders
  <2> QED BY <2>1, QuietOrder
<1> QED BY <1>1, <1>2, <1>3, NextBlockEffect

LEMMA QuietRelay ==
    ASSUME Typed, Quiet, Relays
    PROVE  Quiet'
<1>0. /\ inbox # <<>> /\ UNCHANGED <<wire, run, triggers, file>>
      /\ active' \in {active, None} /\ IsSeq(inbox) /\ Ordered(inbox)
  BY RelayEffect DEF Quiet, Typed
<1> DEFINE h == Head(inbox)
<1>1. /\ h = inbox[1] /\ 1 \in DOMAIN inbox /\ h.body = Body /\ h.req = Req
      /\ \A j \in DOMAIN inbox : j > 1 => j \in Nat
  BY <1>0, Taken DEF Body, Req
<1> HIDE DEF h
<1>2. ASSUME Live(h)
      PROVE  /\ wire = {} /\ Said(h)
             /\ \A j \in DOMAIN inbox : j > 1 /\ Live(inbox[j]) => Follows(h, inbox[j])
  <2>1. wire = {} /\ Said(h) BY <1>0, <1>2, LiveHead DEF h
  <2> QED BY <1>1, <1>2, <2>1 DEF Quiet, Ordered
<1>3. CASE ReadErrorLane
  <2>1. h.to = "read-error" /\ active' = active BY <1>3 DEF ReadErrorLane, Arrived, h, context
  <2>2. Live(h) BY <2>1 DEF Live
  <2>3. CASE Body # "failed"
    <3>1. Emit(<<>>) BY <1>3, <2>3 DEF ReadErrorLane
    <3> QED BY <1>0, <2>1, <3>1, QuietDrop
  <2>4. CASE Body = "failed"
    <3> DEFINE x == Msg("terminal-gate", "failed", Req)
    <3>1. Emit(<<x>>) BY <1>3, <2>4 DEF ReadErrorLane
    <3>2. x.to = "terminal-gate" /\ x.body = "failed" /\ x.req = Req BY MsgFields
    <3> HIDE DEF x
    <3>3. Req.block # None BY <1>1, <1>2, <2>1, <2>2 DEF Said
    <3>4. \A j \in DOMAIN inbox : j > 1 /\ Live(inbox[j]) => Follows(inbox[j], x)
      BY <1>1, <1>2, <2>1, <2>2, <2>4, <3>2 DEF Follows
    <3> QED BY <1>0, <2>2, <3>1, <3>2, <3>3, <3>4, QuietPut DEF h
  <2> QED BY <2>3, <2>4
<1>4. CASE ResponseGate
  <2>1. h.to = "response-gate" BY <1>4 DEF ResponseGate, Arrived, h
  <2>2. Live(h) BY <2>1 DEF Live
  <2>3. Req.block # None BY <1>1, <1>2, <2>1, <2>2 DEF Said
  <2>4. CASE Body \in {"good", "odd"}
    <3> DEFINE x == Msg("derive", Body, Req)
    <3>1. Emit(<<x>>) BY <1>4, <2>4 DEF ResponseGate
    <3>2. x.to = "derive" /\ x.body = Body /\ x.req = Req BY MsgFields
    <3> HIDE DEF x
    <3>4. \A j \in DOMAIN inbox : j > 1 /\ Live(inbox[j]) => Follows(inbox[j], x)
      BY <1>1, <1>2, <2>1, <2>2, <2>4, <3>2 DEF Follows
    <3> QED BY <1>0, <2>2, <2>3, <3>1, <3>2, <3>4, QuietPut DEF h
  <2>5. CASE Body \notin {"good", "odd"}
    <3> DEFINE x == Msg("terminal-gate", "failed", Req)
    <3>1. Emit(<<x>>) BY <1>4, <2>5 DEF ResponseGate
    <3>2. x.to = "terminal-gate" /\ x.body = "failed" /\ x.req = Req BY MsgFields
    <3> HIDE DEF x
    <3>4. \A j \in DOMAIN inbox : j > 1 /\ Live(inbox[j]) => Follows(inbox[j], x)
      BY <1>1, <1>2, <2>1, <2>2, <3>2 DEF Follows
    <3> QED BY <1>0, <2>2, <2>3, <3>1, <3>2, <3>4, QuietPut DEF h
  <2> QED BY <2>4, <2>5
<1>5. CASE Derive
  <2>1. h.to = "derive" BY <1>5 DEF Derive, Arrived, h
  <2>2. Live(h) BY <2>1 DEF Live
  <2>3. Req.block # None BY <1>1, <1>2, <2>1, <2>2 DEF Said
  <2>4. \A j \in DOMAIN inbox : j > 1 => ~Live(inbox[j]) BY <1>0, <2>1, Alone DEF h
  <2> DEFINE x == Msg("terminal-gate", IF Body = "good" THEN "points" ELSE "undecoded", Req)
  <2>5. Emit(<<x>>) BY <1>5 DEF Derive
  <2>6. x.to = "terminal-gate" /\ x.req = Req BY MsgFields
  <2> HIDE DEF x
  <2> QED BY <1>0, <2>2, <2>3, <2>4, <2>5, <2>6, QuietPut DEF h
<1>6. CASE TerminalGate
  <2>1. h.to = "terminal-gate" BY <1>6 DEF TerminalGate, Arrived, h
  <2>2. CASE ~(Body \in {"failed"} \cup Derived /\ Req.block = active)
    <3>1. Emit(<<>>) /\ active' = active BY <1>6, <2>2 DEF TerminalGate
    <3> QED BY <1>0, <3>1, QuietDrop
  <2>3. CASE Body \in {"failed"} \cup Derived /\ Req.block = active
    <3>1. Live(h) BY <1>1, <2>3 DEF Live, Derived
    <3>2. Req.block # None BY <1>1, <1>2, <2>1, <3>1 DEF Said
    <3> DEFINE x == Msg("handoff", Body, Req)
    <3>3. Emit(<<x>>) /\ active' = None BY <1>6, <2>3 DEF TerminalGate
    <3>4. x.to = "handoff" /\ x.req = Req BY MsgFields
    <3> HIDE DEF x
    <3>5. \A j \in DOMAIN inbox : j > 1 /\ Live(inbox[j]) => Follows(inbox[j], x)
      <4> SUFFICES ASSUME NEW j \in DOMAIN inbox, j > 1, Live(inbox[j])
                   PROVE  Follows(inbox[j], x)
        OBVIOUS
      <4>1. inbox[j].to \in {"terminal-gate", "handoff"}
        BY <1>2, <2>1, <3>1 DEF Follows
      <4>2. inbox[j] \in Held(inbox) BY DEF Held
      <4>3. inbox[j].to # "handoff" BY <2>3, <3>2, <4>2 DEF Quiet, Said
      <4> QED BY <3>4, <4>1, <4>3 DEF Follows
    <3> QED BY <1>0, <3>1, <3>3, <3>4, <3>5, QuietPut DEF h
  <2> QED BY <2>2, <2>3
<1>7. CASE Handoff
  <2>1. h.to = "handoff" BY <1>7 DEF Handoff, Arrived, h
  <2>2. Live(h) BY <2>1 DEF Live
  <2>4. \A j \in DOMAIN inbox : j > 1 => ~Live(inbox[j]) BY <1>0, <2>1, Alone DEF h
  <2> DEFINE x == Msg("capture", Body, Req)
  <2>5. Emit(<<x>>) BY <1>7 DEF Handoff
  <2>6. x.to = "capture" BY MsgFields
  <2> HIDE DEF x
  <2> QED BY <1>0, <2>2, <2>4, <2>5, <2>6, QuietPut DEF h
<1>8. CASE Continue
  <2>1. h.to = "continue" BY <1>8 DEF Continue, Arrived, h
  <2>2. Live(h) BY <2>1 DEF Live
  <2>3. Body # "start" BY <1>1, <1>2, <2>1, <2>2 DEF Said
  <2>4. \A j \in DOMAIN inbox : j > 1 => ~Live(inbox[j]) BY <1>0, <2>1, Alone DEF h
  <2> DEFINE x == Msg("sequencer", Body, Req)
  <2>5. Emit(<<x>>) BY <1>8 DEF Continue
  <2>6. x.to = "sequencer" /\ x.body = Body BY MsgFields
  <2> HIDE DEF x
  <2> QED BY <1>0, <2>2, <2>3, <2>4, <2>5, <2>6, QuietPut DEF h
<1> QED BY <1>3, <1>4, <1>5, <1>6, <1>7, <1>8 DEF Relays

LEMMA QuietWrite ==
    ASSUME Typed, Quiet, WriteCapture
    PROVE  Quiet'
<1>1. /\ inbox # <<>> /\ Head(inbox).to = "capture" /\ Emit(<<>>)
      /\ UNCHANGED <<active, run, triggers, wire>> /\ file'.run = run
  BY DEF WriteCapture, Arrived, context, outside
<1>2. inbox' = Tail(inbox) /\ IsSeq(inbox) /\ run \in Nat
  BY <1>1, Taken DEF Emit, Typed, TypeOK
<1>3. Ordered(inbox') BY <1>1, <1>2, OrderTaken DEF Quiet
<1>4. Live(Head(inbox)) BY <1>1 DEF Live
<1>5. wire' = {} BY <1>1, <1>4, LiveHead
<1>6. \A m \in Held(inbox') : ~Live(m)
  <2>1. \A j \in DOMAIN inbox : j > 1 => ~Live(inbox[j]) BY <1>1, Alone DEF Typed, Quiet
  <2>2. /\ Len(inbox) \in Nat /\ DOMAIN inbox = 1..Len(inbox)
        /\ DOMAIN inbox' = 1..Len(inbox) - 1
        /\ \A i \in 1..Len(inbox) - 1 : inbox'[i] = inbox[i + 1]
    BY <1>1, <1>2, Taken
  <2> SUFFICES ASSUME NEW i \in DOMAIN inbox' PROVE ~Live(inbox'[i])
    BY DEF Held
  <2>3. i + 1 \in DOMAIN inbox /\ i + 1 > 1 /\ inbox'[i] = inbox[i + 1] BY <2>2
  <2> QED BY <2>1, <2>3
<1>7. \A m \in Held(inbox') : Said(m)' BY <1>6 DEF Said, Live
<1>8. OneInFlight' BY <1>5 DEF OneInFlight, AtMostOneRead
<1>9. run' <= triggers' /\ file'.run \in Nat /\ file'.run <= run'
  BY <1>1, <1>2 DEF Quiet
<1>10. ~Busy' BY <1>5, <1>6 DEF Busy, Held, Live
<1> QED
  BY <1>3, <1>5, <1>7, <1>8, <1>9, <1>10 DEF Quiet, Held, Ordered, Live, Follows

LEMMA QuietRecord ==
    ASSUME Typed, Quiet, Record
    PROVE  Quiet'
<1>1. /\ inbox # <<>> /\ Head(inbox).to = "capture"
      /\ active' = None /\ UNCHANGED <<run, triggers, wire, file>>
  BY DEF Record, Arrived, outside
<1>2. PICK body : body \in {"retry", "next"} /\ Emit(<<Msg("continue", body, Req)>>)
  BY DEF Record
<1> DEFINE x == Msg("continue", body, Req)
<1>3. x.to = "continue" /\ x.body = body BY MsgFields
<1>4. Emit(<<x>>) BY <1>2
<1> HIDE DEF x
<1>5. Live(Head(inbox)) BY <1>1 DEF Live
<1>6. \A j \in DOMAIN inbox : j > 1 => ~Live(inbox[j]) BY <1>1, Alone DEF Typed, Quiet
<1> QED BY <1>1, <1>2, <1>3, <1>4, <1>5, <1>6, QuietPut

LEMMA QuietSequence ==
    ASSUME Typed, Quiet, Sequence
    PROVE  Quiet'
<1>1. /\ inbox # <<>> /\ Head(inbox).to = "sequencer" /\ UNCHANGED <<file, triggers>>
      /\ (StartPlan \/ StartRefused \/ Cancel \/ Retry \/ Advance)
  BY DEF Sequence, Arrived
<1>2. CASE StartPlan
  <2>1. Head(inbox).body = "start" /\ run' = run + 1 /\ NextBlock(Plan, None, TRUE)
    BY <1>2 DEF StartPlan, Body
  <2>2. Live(Head(inbox)) BY <1>1 DEF Live
  <2>3. run < triggers BY <1>1, <2>1, <2>2, LiveHead DEF Said
  <2> QED BY <1>1, <2>1, <2>3, QuietNextBlock
<1>3. CASE StartRefused
  <2>1. /\ Emit(<<Msg("capture", "already-running", None)>>) /\ UNCHANGED outside
        /\ active' = active /\ run' = run
    BY <1>3 DEF StartRefused, Status, context
  <2> QED BY <1>1, <2>1, QuietStatus
<1>4. CASE Cancel
  <2>1. /\ Emit(<<Msg("capture", "cancelled", None)>>) /\ UNCHANGED outside
        /\ active' = None /\ run' = run
    BY <1>4 DEF Cancel, Finalize, Status
  <2> QED BY <1>1, <2>1, QuietStatus
<1>5. CASE Retry
  <2>1. run' = run BY <1>5 DEF Retry
  <2>2. CASE Req = None \/ Req.attempt + 1 > limit
    <3>1. NextBlock(queue, active, running) BY <1>5, <2>2 DEF Retry
    <3> QED BY <1>1, <2>1, <3>1, QuietNextBlock
  <2>3. CASE ~(Req = None \/ Req.attempt + 1 > limit)
    <3>1. Send(Req.block, Req.attempt + 1, active) BY <1>5, <2>3 DEF Retry
    <3>2. CASE Ordering(Req.block, Req.attempt + 1) BY <1>1, <2>1, <3>2, QuietOrder
    <3>3. CASE /\ active' = active /\ UNCHANGED outside
               /\ Emit(<<Msg("capture", "in-flight", None)>>)
      BY <1>1, <2>1, <3>3, QuietStatus
    <3> QED BY <3>1, <3>2, <3>3, SendEffect
  <2> QED BY <2>2, <2>3
<1>6. CASE Advance
  <2>1. run' = run /\ NextBlock(queue, active, running) BY <1>6 DEF Advance
  <2> QED BY <1>1, <2>1, QuietNextBlock
<1> QED BY <1>1, <1>2, <1>3, <1>4, <1>5, <1>6

\* A trigger that waited for the capture of the run before.
Awaited(c) ==
    /\ run = triggers /\ Published /\ triggers' = triggers + 1
    /\ inbox' = Append(inbox, Msg("sequencer", c, None))
    /\ UNCHANGED <<context, outside, limit, file>>

\* A step in which no trigger comes too early.
Patient ==
    \/ Deliver \/ WatchdogFires \/ UNCHANGED vars
    \/ \E c \in {"start", "cancel"} : Awaited(c)
    \/ \E q \in wire, o \in Outcomes : Answer(q, o)

LEMMA PatientNext == Polling = FALSE /\ [Next]_vars => Patient
BY CommandsAssumption DEF Next, Patient, Trigger, Awaited

\* The trigger waits until nothing of the run before is under way.
LEMMA QuietTrigger ==
    ASSUME Typed, Quiet, NEW c, Awaited(c)
    PROVE  Quiet'
<1> DEFINE x == Msg("sequencer", c, None)
<1>0. x.to = "sequencer" BY MsgFields
<1>1. /\ run = triggers /\ Published /\ triggers' = triggers + 1
      /\ inbox' = Append(inbox, x)
      /\ UNCHANGED <<active, run, wire, file>>
  BY DEF Awaited, context, outside
<1> HIDE DEF x
<1>2. IsSeq(inbox) /\ run \in Nat BY DEF Typed, TypeOK
<1>3. ~Busy BY <1>1 DEF Quiet
<1>4. wire = {} /\ \A m \in Held(inbox) : ~Live(m) BY <1>3 DEF Busy
<1>5. Ordered(inbox') BY <1>1, <1>2, <1>4, OrderAppended DEF Quiet
<1>6. Held(inbox') = Held(inbox) \cup {x} BY <1>1, <1>2, Appended
<1>7. \A m \in Held(inbox') : Said(m)'
  <2>1. \A m \in Held(inbox) : Said(m)' BY <1>4 DEF Said, Live
  <2>2. Said(x)' BY <1>0, <1>1, <1>2 DEF Said
  <2> QED BY <1>6, <2>1, <2>2
<1>8. OneInFlight' BY <1>1, <1>4 DEF OneInFlight, AtMostOneRead
<1>9. /\ run' <= triggers' /\ run' # triggers'
      /\ file' # None => file'.run \in Nat /\ file'.run <= run'
  BY <1>1, <1>2 DEF Quiet
<1> QED
  BY <1>1, <1>4, <1>5, <1>7, <1>8, <1>9 DEF Quiet, Held, Ordered, Live, Follows

\* The one read that is out is answered by two messages, or lost.
LEMMA QuietAnswer ==
    ASSUME Typed, Quiet, NEW q \in wire, NEW o, Answer(q, o)
    PROVE  Quiet'
<1> DEFINE a == Msg("response-gate", o, q)  b == Msg("read-error", o, q)
<1>0. /\ a.to = "response-gate" /\ a.body = o /\ a.req = q
      /\ b.to = "read-error" /\ b.body = o /\ b.req = q
  BY MsgFields
<1>1. /\ inbox' = inbox \/ inbox' = inbox \o <<a, b>>
      /\ wire' = wire \ {q} /\ UNCHANGED <<active, run, triggers, file>>
  BY DEF Answer, context
<1> HIDE DEF a, b
<1>2. IsSeq(inbox) /\ Ordered(inbox) /\ \A m \in Held(inbox) : ~Live(m)
  BY DEF Typed, Quiet
<1>3. wire' = {} BY <1>1 DEF Quiet, OneInFlight, AtMostOneRead
<1>4. q.block # None BY PlanFacts DEF Typed, TypeOK, Requests
<1>5. Ordered(inbox') /\ Held(inbox') \subseteq Held(inbox) \cup {a, b}
  <2>1. CASE inbox' = inbox BY <1>2, <2>1
  <2>2. CASE inbox' = inbox \o <<a, b>>
    <3> DEFINE s == Append(inbox, a)
    <3>1. inbox' = Append(s, b) BY <1>2, <2>2, TwoAppended
    <3>2. IsSeq(s) /\ Held(s) = Held(inbox) \cup {a} BY <1>2, Appended
    <3>3. Ordered(s) BY <1>2, OrderAppended
    <3> HIDE DEF s
    <3>4. \A m \in Held(s) : Live(m) /\ Live(b) => Follows(m, b)
      BY <1>0, <1>2, <3>2 DEF Follows
    <3>5. Ordered(inbox') BY <3>1, <3>2, <3>3, <3>4, OrderAppended
    <3>6. Held(inbox') = Held(s) \cup {b} BY <3>1, <3>2, Appended
    <3> QED BY <3>2, <3>5, <3>6
  <2> QED BY <1>1, <2>1, <2>2
<1>6. \A m \in Held(inbox') : Said(m)'
  <2>1. \A m \in Held(inbox) : Said(m)' BY <1>2 DEF Said, Live
  <2>2. Said(a)' /\ Said(b)' BY <1>0, <1>4 DEF Said
  <2> QED BY <1>5, <2>1, <2>2
<1>7. OneInFlight' BY <1>3 DEF OneInFlight, AtMostOneRead
<1>8. ~(run' = triggers' /\ Published') BY <1>1 DEF Quiet, Busy, Published
<1> QED
  BY <1>1, <1>3, <1>5, <1>6, <1>7, <1>8 DEF Quiet, Held, Ordered, Live, Follows

\* The watchdog's message is not live: it goes to the gate and is dropped there.
LEMMA QuietWatchdog ==
    ASSUME Typed, Quiet, WatchdogFires
    PROVE  Quiet'
<1> DEFINE x == Msg("terminal-gate", "timeout", None)
<1>0. x.to = "terminal-gate" /\ x.body = "timeout" BY MsgFields
<1>1. inbox' = Append(inbox, x) /\ UNCHANGED <<active, run, triggers, wire, file>>
  BY DEF WatchdogFires, context
<1> HIDE DEF x
<1>2. ~Live(x) BY <1>0 DEF Live
<1>3. IsSeq(inbox) BY DEF Typed
<1>4. Ordered(inbox') BY <1>1, <1>2, <1>3, OrderAppended DEF Quiet
<1>5. Held(inbox') = Held(inbox) \cup {x} BY <1>1, <1>3, Appended
<1>6. \A m \in Held(inbox') : Said(m)'
  <2>1. \A m \in Held(inbox) : Said(m)' BY <1>1 DEF Quiet, Said, Live
  <2>2. Said(x)' BY <1>0, <1>2 DEF Said, Live
  <2> QED BY <1>5, <2>1, <2>2
<1>7. wire' # {} => \A m \in Held(inbox') : ~Live(m) BY <1>1, <1>2, <1>5 DEF Quiet
<1>8. OneInFlight' BY <1>1 DEF Quiet, OneInFlight, AtMostOneRead
<1>9. Published' <=> Published BY <1>1 DEF Published
<1>10. Busy' => Busy BY <1>1, <1>2, <1>5 DEF Busy, Held, Live
<1> QED
  BY <1>1, <1>4, <1>6, <1>7, <1>8, <1>9, <1>10 DEF Quiet, Held, Ordered, Live, Follows

LEMMA QuietStep == Typed /\ Quiet /\ Patient => Quiet'
<1> SUFFICES ASSUME Typed, Quiet, Patient PROVE Quiet'
  OBVIOUS
<1>1. CASE Relays BY <1>1, QuietRelay
<1>2. CASE WriteCapture BY <1>2, QuietWrite
<1>3. CASE Record BY <1>3, QuietRecord
<1>4. CASE Sequence BY <1>4, QuietSequence
<1>5. ASSUME NEW c \in {"start", "cancel"}, Awaited(c) PROVE Quiet'
  BY <1>5, QuietTrigger
<1>6. ASSUME NEW q \in wire, NEW o \in Outcomes, Answer(q, o) PROVE Quiet'
  BY <1>6, QuietAnswer
<1>7. CASE WatchdogFires BY <1>7, QuietWatchdog
<1>8. CASE UNCHANGED vars
  BY <1>8 DEF vars, context, outside, Quiet, Ordered, Held, Live, Follows, Said, Busy,
              Published, OneInFlight, AtMostOneRead
<1> QED
  BY <1>1, <1>2, <1>3, <1>4, <1>5, <1>6, <1>7, <1>8 DEF Patient, Deliver, Relays

----------------------------------------------------------------------------
(* The course of a run: what each message and each read that is out says of *)
(* the plan, the queue and the samples.                                     *)

\* The run whose capture is on disk.
OnDisk == IF file = None THEN 0 ELSE file.run

\* The blocks dealt with are the first of the plan, and each was attempted.
Dealt ==
    /\ Len(completed) <= Len(Plan)
    /\ \A i \in DOMAIN completed :
        completed[i] = <<run, Plan[i]>> /\ Attempted(Plan[i], samples, run)

\* The queue q holds the plan but for its first k blocks.
Left(k, q) ==
    /\ k <= Len(Plan) /\ Len(q) = Len(Plan) - k
    /\ \A i \in DOMAIN q : q[i] = Plan[k + i]

\* Only the first k blocks of the plan have samples in s.
SampledTo(k, s) ==
    \A i \in DOMAIN s : \E j \in 1..k : s[i].of.block = Plan[j]

\* The last n samples of s are the first n attempts at b in run r, all failed.
Failed(b, n, s, r) ==
    /\ n <= Len(s)
    /\ \A i \in DOMAIN s :
        /\ s[i].of.block = b <=> i > Len(s) - n
        /\ i > Len(s) - n =>
            /\ s[i].of.run = r /\ s[i].of.attempt = i - (Len(s) - n) - 1 /\ ~s[i].read

\* Block b is in hand, after n attempts.
InHand(b, n) ==
    /\ running /\ OnDisk # run
    /\ Len(completed) < Len(Plan) /\ b = Plan[Len(completed) + 1]
    /\ Left(Len(completed) + 1, queue) /\ SampledTo(Len(completed) + 1, samples)
    /\ Failed(b, n, samples, run)

\* The read q is out, or its answer has not been recorded.
Reading(q) == q \in sent /\ q.run = run /\ InHand(q.block, q.attempt)

\* The answer of q is recorded: it is asked again, or the next block comes.
Redo(q) ==
    /\ q \in sent /\ q.run = run /\ q.attempt < limit
    /\ InHand(q.block, q.attempt + 1) /\ active = None
Between ==
    /\ running /\ OnDisk # run /\ active = None
    /\ Left(Len(completed), queue) /\ SampledTo(Len(completed), samples)

\* All blocks are dealt with.
AllDealt == ~running /\ Len(completed) = Len(Plan)

\* What a message on its way says of the course of the run.
Tells(m) ==
    /\ m.to \in {"response-gate", "read-error", "derive"} => Reading(m.req)
    /\ m.to \in {"terminal-gate", "handoff"} /\ Live(m) =>
          Reading(m.req) /\ m.body \in {"failed"} \cup Derived
    /\ m.to = "capture" =>
          \/ m.body = "drained" /\ AllDealt /\ run # 0 /\ OnDisk # run
          \/ m.body = "cancelled" /\ OnDisk = run
          \/ m.body \in {"failed"} \cup Derived /\ Reading(m.req)
    /\ m.to \in {"continue", "sequencer"} =>
          \/ m.to = "sequencer" /\ m.body \in {"start", "cancel"} /\ OnDisk = run
          \/ m.body = "retry" /\ Redo(m.req)
          \/ m.body = "next" /\ Between

Course ==
    /\ Dealt
    /\ OnDisk = run /\ run # 0 => AllDealt
    /\ run = 0 => ~running
    /\ \A m \in Held(inbox) : Tells(m)
    /\ \A q \in wire : Reading(q)
    /\ PublishedAttempts

----------------------------------------------------------------------------
(* Samples.                                                                *)

\* The attempts at a block stay as they are when another block is sampled.
LEMMA AttemptedKept ==
    ASSUME NEW s, IsSeq(s), NEW x, NEW b, NEW r, Attempted(b, s, r), x.of.block # b
    PROVE  Attempted(b, Append(s, x), r)
<1> DEFINE t == Append(s, x)
<1>1. /\ Len(s) \in Nat /\ DOMAIN s = 1..Len(s)
      /\ DOMAIN t = DOMAIN s \cup {Len(s) + 1} /\ t[Len(s) + 1] = x
      /\ \A i \in DOMAIN s : t[i] = s[i]
  BY Appended
<1> HIDE DEF t
<1>2. PICK f, l \in DOMAIN s :
        /\ f <= l /\ \A i \in DOMAIN s : s[i].of.block = b <=> f <= i /\ i <= l
        /\ \A i \in f..l :
            /\ s[i].run = r /\ s[i].of.run = r
            /\ s[i].of.attempt = i - f
            /\ s[i].read => i = l
        /\ s[l].read \/ l - f = limit
  BY DEF Attempted
<1>3. f \in DOMAIN t /\ l \in DOMAIN t /\ f <= l BY <1>1, <1>2
<1>4. \A i \in DOMAIN t : t[i].of.block = b <=> f <= i /\ i <= l
  BY <1>1, <1>2
<1>5. \A i \in f..l : i \in DOMAIN s /\ t[i] = s[i] BY <1>1
<1>6. t[l] = s[l] BY <1>1
<1>7. Attempted(b, t, r) BY <1>2, <1>3, <1>4, <1>5, <1>6 DEF Attempted
<1> QED BY <1>7 DEF t

\* One more failure of the block in hand.
LEMMA FailedAgain ==
    ASSUME NEW s, IsSeq(s), NEW x, NEW b, NEW n \in Nat, NEW r, Failed(b, n, s, r),
           x.of.block = b, x.of.run = r, x.of.attempt = n, ~x.read
    PROVE  Failed(b, n + 1, Append(s, x), r)
<1> DEFINE t == Append(s, x)
<1>1. /\ IsSeq(t) /\ Len(s) \in Nat /\ DOMAIN s = 1..Len(s)
      /\ DOMAIN t = DOMAIN s \cup {Len(s) + 1} /\ t[Len(s) + 1] = x
      /\ \A i \in DOMAIN s : t[i] = s[i]
  BY Appended
<1>2. Len(t) = Len(s) + 1 BY DEF IsSeq
<1> HIDE DEF t
<1>3. n + 1 <= Len(t) /\ Len(t) - (n + 1) = Len(s) - n BY <1>1, <1>2 DEF Failed
<1> SUFFICES ASSUME NEW i \in DOMAIN t
             PROVE  /\ t[i].of.block = b <=> i > Len(s) - n
                    /\ i > Len(s) - n =>
                        /\ t[i].of.run = r /\ t[i].of.attempt = i - (Len(s) - n) - 1
                        /\ ~t[i].read
  BY <1>3 DEF Failed, t
<1>4. CASE i \in DOMAIN s BY <1>1, <1>4 DEF Failed
<1>5. CASE i = Len(s) + 1
  <2>1. i > Len(s) - n /\ i - (Len(s) - n) - 1 = n BY <1>1, <1>5
  <2> QED BY <1>1, <1>5, <2>1
<1> QED BY <1>1, <1>4, <1>5

\* The last attempt at the block in hand.
LEMMA FailedDone ==
    ASSUME NEW s, IsSeq(s), NEW x, NEW b, NEW n \in Nat, NEW r, Failed(b, n, s, r),
           \A i \in DOMAIN s : s[i].run = r,
           x.run = r, x.of.block = b, x.of.run = r, x.of.attempt = n, x.read \/ n = limit
    PROVE  Attempted(b, Append(s, x), r)
<1> DEFINE t == Append(s, x)  f == Len(s) - n + 1  l == Len(s) + 1
<1>1. /\ IsSeq(t) /\ Len(s) \in Nat /\ DOMAIN s = 1..Len(s)
      /\ DOMAIN t = DOMAIN s \cup {Len(s) + 1} /\ t[Len(s) + 1] = x
      /\ \A i \in DOMAIN s : t[i] = s[i]
  BY Appended
<1> HIDE DEF t
<1>2. n <= Len(s) BY DEF Failed
<1>3. f \in DOMAIN t /\ l \in DOMAIN t /\ f <= l /\ l - f = n BY <1>1, <1>2
<1>4. ASSUME NEW i \in DOMAIN t
      PROVE  t[i].of.block = b <=> f <= i /\ i <= l
  <2>1. CASE i \in DOMAIN s
    <3>1. i > Len(s) - n <=> f <= i BY <1>1, <2>1
    <3>2. i <= l BY <1>1, <2>1
    <3>3. s[i].of.block = b <=> i > Len(s) - n BY <2>1 DEF Failed
    <3>4. t[i] = s[i] BY <1>1, <2>1
    <3>5. t[i].of.block = b <=> s[i].of.block = b BY <3>4
    <3> HIDE DEF f, l
    <3>6. t[i].of.block = b <=> f <= i BY <3>1, <3>3, <3>5, Zenon
    <3> QED BY <3>2, <3>6, Zenon
  <2>2. CASE i = Len(s) + 1
    <3>1. f <= i /\ i <= l BY <1>1, <1>3, <2>2
    <3>2. t[i].of.block = b BY <1>1, <2>2
    <3> QED BY <3>1, <3>2
  <2> QED BY <1>1, <2>1, <2>2
<1>5. ASSUME NEW i \in f..l
      PROVE  t[i].run = r /\ t[i].of.run = r /\ t[i].of.attempt = i - f /\ (t[i].read => i = l)
  <2>1. CASE i <= Len(s)
    <3>1. i \in DOMAIN s /\ i > Len(s) - n /\ i - (Len(s) - n) - 1 = i - f
      BY <1>1, <1>2, <1>5, <2>1
    <3> QED BY <1>1, <3>1 DEF Failed
  <2>2. CASE i = Len(s) + 1 BY <1>1, <1>3, <2>2
  <2> QED BY <1>1, <1>5, <2>1, <2>2
<1>6. t[l].read \/ l - f = limit BY <1>1, <1>3
<1> HIDE DEF f, l
<1>7. Attempted(b, t, r) BY <1>3, <1>4, <1>5, <1>6 DEF Attempted
<1> QED BY <1>7 DEF t

\* A sample of one of the first k blocks of the plan.
LEMMA SampledMore ==
    ASSUME NEW s, IsSeq(s), NEW x, NEW k \in Nat, SampledTo(k, s),
           \E j \in 1..k : x.of.block = Plan[j]
    PROVE  SampledTo(k, Append(s, x))
<1> DEFINE t == Append(s, x)
<1>1. /\ DOMAIN t = DOMAIN s \cup {Len(s) + 1} /\ t[Len(s) + 1] = x
      /\ \A i \in DOMAIN s : t[i] = s[i]
  BY Appended
<1> HIDE DEF t
<1>2. SampledTo(k, t) BY <1>1 DEF SampledTo
<1> QED BY <1>2 DEF t

\* The next block has not been sampled.
LEMMA NoneSampled ==
    ASSUME NEW s, IsSeq(s), NEW k \in Nat, k < Len(Plan), SampledTo(k, s), NEW r
    PROVE  Failed(Plan[k + 1], 0, s, r) /\ SampledTo(k + 1, s)
<1>1. /\ Len(s) \in Nat /\ DOMAIN s = 1..Len(s) BY DEF IsSeq
<1>2. Plan \in Seq(Blocks) /\ \A i, j \in DOMAIN Plan : Plan[i] = Plan[j] => i = j
  BY PlanFacts
<1>3. Len(Plan) \in Nat /\ DOMAIN Plan = 1..Len(Plan) BY <1>2
<1>4. ASSUME NEW i \in DOMAIN s PROVE s[i].of.block # Plan[k + 1]
  <2>1. PICK j \in 1..k : s[i].of.block = Plan[j] BY DEF SampledTo
  <2>2. j \in DOMAIN Plan /\ k + 1 \in DOMAIN Plan /\ j # k + 1 BY <1>3
  <2> QED BY <1>2, <2>1, <2>2
<1>5. \A i \in DOMAIN s : ~(i > Len(s) - 0) BY <1>1
<1>6. Failed(Plan[k + 1], 0, s, r) BY <1>1, <1>4, <1>5 DEF Failed
<1>7. SampledTo(k + 1, s)
  <2>1. \A j \in 1..k : j \in 1..k + 1 OBVIOUS
  <2> QED BY <2>1 DEF SampledTo
<1> QED BY <1>6, <1>7

\* What is left of the plan when its next block is taken from the queue.
LEMMA LeftTaken ==
    ASSUME NEW q \in Seq(Blocks), q # <<>>, NEW k \in Nat, Left(k, q)
    PROVE  k < Len(Plan) /\ Head(q) = Plan[k + 1] /\ Left(k + 1, Tail(q))
<1>1. Len(Plan) \in Nat BY PlanFacts
<1>2. Len(q) \in Nat /\ Len(q) >= 1 /\ DOMAIN q = 1..Len(q) /\ Head(q) = q[1] OBVIOUS
<1>3. /\ Len(Tail(q)) = Len(q) - 1 /\ DOMAIN Tail(q) = 1..Len(q) - 1
      /\ \A i \in DOMAIN Tail(q) : Tail(q)[i] = q[i + 1]
  OBVIOUS
<1>4. k < Len(Plan) BY <1>1, <1>2 DEF Left
<1>5. Head(q) = Plan[k + 1] BY <1>2 DEF Left
<1>6. ASSUME NEW i \in DOMAIN Tail(q) PROVE Tail(q)[i] = Plan[k + 1 + i]
  <2>1. i + 1 \in DOMAIN q /\ k + (i + 1) = k + 1 + i BY <1>2, <1>3
  <2> QED BY <1>3, <2>1 DEF Left
<1>7. Left(k + 1, Tail(q)) BY <1>1, <1>2, <1>3, <1>4, <1>6 DEF Left
<1> QED BY <1>4, <1>5, <1>7

\* The whole plan in the queue, and nothing of it.
LEMMA LeftAll ==
    /\ Left(0, Plan)
    /\ \A k \in Nat : Left(k, <<>>) => k = Len(Plan)
<1>1. Len(Plan) \in Nat /\ DOMAIN Plan = 1..Len(Plan) BY PlanFacts
<1>2. Left(0, Plan) BY <1>1 DEF Left
<1>3. \A k \in Nat : Left(k, <<>>) => k = Len(Plan)
  <2> TAKE k \in Nat
  <2> HAVE Left(k, <<>>)
  <2>1. Len(<<>>) = 0 OBVIOUS
  <2>2. Len(<<>>) = Len(Plan) - k BY DEF Left
  <2>3. 0 = Len(Plan) - k BY <2>1, <2>2, Zenon
  <2>4. \A p \in Nat : 0 = p - k => k = p OBVIOUS
  <2> QED BY <1>1, <2>3, <2>4, Zenon
<1> QED BY <1>2, <1>3

----------------------------------------------------------------------------
(* Steps that leave the course of the run.                                 *)

LEMMA DeadTells == \A m : ~Live(m) => Tells(m)
BY DEF Tells, Live

\* What a message tells, and a read, stays true while a node passes it on.
LEMMA CourseKept ==
    ASSUME Course, UNCHANGED <<running, queue, run, samples, completed, limit, file, sent>>,
           active' \in {active, None}
    PROVE  /\ \A q : Reading(q)' <=> Reading(q)
           /\ \A m : Tells(m) => Tells(m)'
           /\ AllDealt' <=> AllDealt
           /\ OnDisk' = OnDisk /\ Dealt' /\ PublishedAttempts'
<1>1. OnDisk' = OnDisk BY DEF OnDisk
<1>2. \A b, n : InHand(b, n)' <=> InHand(b, n) BY <1>1 DEF InHand
<1>3. \A q : Reading(q)' <=> Reading(q) BY <1>2 DEF Reading
<1>4. \A q : Redo(q) => Redo(q)' BY <1>2 DEF Redo
<1>5. Between => Between' BY <1>1 DEF Between
<1>6. AllDealt' <=> AllDealt BY DEF AllDealt
<1>7. \A m : Tells(m) => Tells(m)'
  BY <1>1, <1>3, <1>4, <1>5, <1>6 DEF Tells, Live
<1>8. \A b, s, r : Attempted(b, s, r)' <=> Attempted(b, s, r) BY DEF Attempted
<1>9. Dealt' BY <1>8 DEF Course, Dealt
<1>10. PublishedAttempts' BY <1>8 DEF Course, PublishedAttempts
<1> QED BY <1>1, <1>3, <1>6, <1>7, <1>9, <1>10

\* A node drops the message at the head, or passes one on that tells the truth.
LEMMA CoursePassed ==
    ASSUME Typed, Course,
           UNCHANGED <<running, queue, run, samples, completed, limit, file, sent>>,
           active' \in {active, None}, wire' \subseteq wire,
           \A m \in Held(inbox') : m \in Held(inbox) \/ Tells(m)
    PROVE  Course'
<1>1. /\ \A q : Reading(q)' <=> Reading(q)
      /\ \A m : Tells(m) => Tells(m)'
      /\ AllDealt' <=> AllDealt
      /\ OnDisk' = OnDisk /\ Dealt' /\ PublishedAttempts'
  BY CourseKept
<1>2. \A m \in Held(inbox') : Tells(m)' BY <1>1 DEF Course
<1>3. \A q \in wire' : Reading(q)' BY <1>1 DEF Course
<1>4. Held(inbox)' = Held(inbox') BY DEF Held
<1> QED BY <1>1, <1>2, <1>3, <1>4 DEF Course

LEMMA HeadTells ==
    ASSUME Typed, Course, inbox # <<>>
    PROVE  IsSeq(inbox) /\ Tells(Head(inbox))
BY Taken DEF Typed, Course

LEMMA CourseRelay ==
    ASSUME Typed, Course, Relays
    PROVE  Course'
<1>0. /\ inbox # <<>> /\ IsSeq(inbox) /\ Tells(Head(inbox))
      /\ active' \in {active, None} /\ wire' \subseteq wire
      /\ UNCHANGED <<running, queue, run, samples, completed, limit, file, sent>>
  BY RelayEffect, HeadTells DEF Typed
<1> DEFINE h == Head(inbox)
<1>1. h.body = Body /\ h.req = Req /\ Tells(h) BY <1>0 DEF Body, Req
<1>2. ASSUME Emit(<<>>) PROVE Course'
  <2>1. Held(inbox') \subseteq Held(inbox) BY <1>0, <1>2, Taken DEF Emit
  <2> QED BY <1>0, <2>1, CoursePassed
<1>3. ASSUME NEW x, Emit(<<x>>), Tells(x) PROVE Course'
  <2>1. Held(inbox') \subseteq Held(inbox) \cup {x} BY <1>0, <1>3, TakenPut DEF Emit
  <2> QED BY <1>0, <1>3, <2>1, CoursePassed
<1> HIDE DEF h
<1>4. ASSUME NEW to, NEW body, Emit(<<Msg(to, body, Req)>>), Reading(Req),
             \/ to = "terminal-gate" /\ body \in {"failed"} \cup Derived
             \/ to = "handoff" /\ body \in {"failed"} \cup Derived
             \/ to = "capture" /\ body \in {"failed"} \cup Derived
             \/ to = "derive"
      PROVE  Course'
  <2> DEFINE x == Msg(to, body, Req)
  <2>1. x.to = to /\ x.body = body /\ x.req = Req BY MsgFields
  <2>2. Emit(<<x>>) BY <1>4
  <2> HIDE DEF x
  <2>3. Tells(x) BY <1>4, <2>1 DEF Tells
  <2> QED BY <1>3, <2>2, <2>3
<1>5. CASE ReadErrorLane
  <2>1. h.to = "read-error" BY <1>5 DEF ReadErrorLane, Arrived, h
  <2>2. Reading(Req) BY <1>1, <2>1 DEF Tells
  <2> QED BY <1>2, <1>4, <1>5, <2>2 DEF ReadErrorLane
<1>6. CASE ResponseGate
  <2>1. h.to = "response-gate" BY <1>6 DEF ResponseGate, Arrived, h
  <2>2. Reading(Req) BY <1>1, <2>1 DEF Tells
  <2> QED BY <1>4, <1>6, <2>2 DEF ResponseGate
<1>7. CASE Derive
  <2>1. h.to = "derive" BY <1>7 DEF Derive, Arrived, h
  <2>2. Reading(Req) BY <1>1, <2>1 DEF Tells
  <2>3. PICK body \in Derived : Emit(<<Msg("terminal-gate", body, Req)>>)
    BY <1>7 DEF Derive, Derived
  <2> QED BY <1>4, <2>2, <2>3
<1>8. CASE TerminalGate
  <2>1. h.to = "terminal-gate" BY <1>8 DEF TerminalGate, Arrived, h
  <2>2. CASE Body \in {"failed"} \cup Derived /\ Req.block = active
    <3>1. Live(h) BY <1>1, <2>2 DEF Live, Derived
    <3>2. Reading(Req) BY <1>1, <2>1, <3>1 DEF Tells
    <3> QED BY <1>4, <1>8, <2>2, <3>2 DEF TerminalGate
  <2>3. CASE ~(Body \in {"failed"} \cup Derived /\ Req.block = active)
    BY <1>2, <1>8, <2>3 DEF TerminalGate
  <2> QED BY <2>2, <2>3
<1>9. CASE Handoff
  <2>1. h.to = "handoff" BY <1>9 DEF Handoff, Arrived, h
  <2>2. Reading(Req) /\ Body \in {"failed"} \cup Derived BY <1>1, <2>1 DEF Tells, Live
  <2>3. Emit(<<Msg("capture", Body, Req)>>) BY <1>9 DEF Handoff
  <2> QED BY <1>4, <2>2, <2>3
<1>10. CASE Continue
  <2>1. h.to = "continue" BY <1>10 DEF Continue, Arrived, h
  <2> DEFINE x == Msg("sequencer", Body, Req)
  <2>2. x.to = "sequencer" /\ x.body = Body /\ x.req = Req BY MsgFields
  <2>3. Emit(<<x>>) BY <1>10 DEF Continue
  <2> HIDE DEF x
  <2>4. Tells(x) BY <1>1, <2>1, <2>2 DEF Tells
  <2> QED BY <1>3, <2>3, <2>4
<1> QED BY <1>5, <1>6, <1>7, <1>8, <1>9, <1>10 DEF Relays

\* A trigger comes when the capture of the run before is on disk.
LEMMA CourseTrigger ==
    ASSUME Typed, Quiet, Course, NEW c \in {"start", "cancel"}, Awaited(c)
    PROVE  Course'
<1> DEFINE x == Msg("sequencer", c, None)
<1>0. x.to = "sequencer" /\ x.body = c BY MsgFields
<1>1. /\ Published /\ inbox' = Append(inbox, x)
      /\ UNCHANGED <<running, queue, active, run, samples, completed, limit, file, sent, wire>>
  BY DEF Awaited, context, outside
<1> HIDE DEF x
<1>2. run \in Nat /\ IsSeq(inbox) BY DEF Typed, TypeOK
<1>3. OnDisk = run BY <1>1, <1>2 DEF Published, OnDisk, Quiet
<1>5. Tells(x) BY <1>0, <1>3 DEF Tells
<1>6. Held(inbox') = Held(inbox) \cup {x} BY <1>1, <1>2, Appended
<1> QED BY <1>1, <1>5, <1>6, CoursePassed

LEMMA CourseAnswer ==
    ASSUME Typed, Course, NEW q \in wire, NEW o, Answer(q, o)
    PROVE  Course'
<1> DEFINE a == Msg("response-gate", o, q)  b == Msg("read-error", o, q)
<1>0. /\ a.to = "response-gate" /\ a.req = q /\ b.to = "read-error" /\ b.req = q
  BY MsgFields
<1>1. /\ inbox' = inbox \/ inbox' = inbox \o <<a, b>>
      /\ wire' = wire \ {q}
      /\ UNCHANGED <<running, queue, active, run, samples, completed, limit, file, sent>>
  BY DEF Answer, context
<1> HIDE DEF a, b
<1>2. Tells(a) /\ Tells(b) BY <1>0 DEF Tells, Course
<1>3. Held(inbox') \subseteq Held(inbox) \cup {a, b}
  <2>1. CASE inbox' = inbox BY <2>1
  <2>2. CASE inbox' = inbox \o <<a, b>>
    <3>1. inbox' = Append(Append(inbox, a), b) BY <2>2, TwoAppended DEF Typed
    <3>2. IsSeq(Append(inbox, a)) /\ Held(Append(inbox, a)) = Held(inbox) \cup {a}
      BY Appended DEF Typed
    <3>3. Held(inbox') = Held(Append(inbox, a)) \cup {b} BY <3>1, <3>2, Appended
    <3> QED BY <3>2, <3>3
  <2> QED BY <1>1, <2>1, <2>2
<1> QED BY <1>1, <1>2, <1>3, CoursePassed

LEMMA CourseWatchdog ==
    ASSUME Typed, Course, WatchdogFires
    PROVE  Course'
<1> DEFINE x == Msg("terminal-gate", "timeout", None)
<1>0. x.to = "terminal-gate" /\ x.body = "timeout" BY MsgFields
<1>1. /\ inbox' = Append(inbox, x)
      /\ UNCHANGED <<running, queue, active, run, samples, completed, limit, file, sent, wire>>
  BY DEF WatchdogFires, context
<1> HIDE DEF x
<1>2. Tells(x) BY <1>0, DeadTells DEF Live
<1>3. Held(inbox') = Held(inbox) \cup {x} BY <1>1, Appended DEF Typed
<1> QED BY <1>1, <1>2, <1>3, CoursePassed

----------------------------------------------------------------------------
(* Steps that write the course of the run.                                 *)

\* When the head comes alone, nothing live is left behind it.
LEMMA LeftBehind ==
    ASSUME Typed, Quiet, inbox # <<>>,
           Head(inbox).to \in {"capture", "sequencer"}
    PROVE  /\ wire = {}
           /\ Emit(<<>>) => \A m \in Held(inbox') : ~Live(m)
           /\ \A x : Emit(<<x>>) => \A m \in Held(inbox') : m = x \/ ~Live(m)
<1>0. IsSeq(inbox) /\ wire = {} BY LiveHead DEF Typed, Live
<1>1. \A j \in DOMAIN inbox : j > 1 => ~Live(inbox[j]) BY Alone DEF Typed, Quiet
<1>2. ASSUME Emit(<<>>), NEW i \in DOMAIN inbox' PROVE ~Live(inbox'[i])
  <2>1. inbox' = Tail(inbox) BY <1>0, <1>2, Taken DEF Emit
  <2>2. i + 1 \in DOMAIN inbox /\ i + 1 > 1 /\ inbox'[i] = inbox[i + 1]
    BY <1>0, <1>2, <2>1, Taken
  <2> QED BY <1>1, <2>2
<1>3. ASSUME NEW x, Emit(<<x>>), NEW i \in DOMAIN inbox', inbox'[i] # x
      PROVE  ~Live(inbox'[i])
  <2>1. /\ Len(inbox) \in Nat /\ DOMAIN inbox = 1..Len(inbox)
        /\ DOMAIN inbox' = 1..Len(inbox) /\ inbox'[Len(inbox)] = x
        /\ \A k \in 1..Len(inbox) - 1 : inbox'[k] = inbox[k + 1]
    BY <1>0, <1>3, TakenPut DEF Emit
  <2>2. i + 1 \in DOMAIN inbox /\ i + 1 > 1 /\ inbox'[i] = inbox[i + 1]
    BY <1>3, <2>1
  <2> QED BY <1>1, <2>2
<1> QED BY <1>0, <1>2, <1>3 DEF Held

\* Nothing else is under way when the head is dealt with: what must be said of
\* the course then is what the new message or the new read tells.
LEMMA CourseAlone ==
    ASSUME Typed, Quiet, inbox # <<>>, Head(inbox).to \in {"capture", "sequencer"},
           Dealt', OnDisk' = run' /\ run' # 0 => AllDealt',
           run' = 0 => ~running', PublishedAttempts',
           \/ Emit(<<>>) /\ \A q \in wire' : Reading(q)'
           \/ \E x : Emit(<<x>>) /\ Tells(x)' /\ wire' = wire
    PROVE  Course'
<1>1. Held(inbox)' = Held(inbox') BY DEF Held
<1>2. \A m : ~Live(m) => Tells(m)' BY DEF Tells, Live
<1>3. CASE Emit(<<>>) /\ \A q \in wire' : Reading(q)'
  BY <1>1, <1>2, <1>3, LeftBehind DEF Course
<1>4. ASSUME NEW x, Emit(<<x>>), Tells(x)', wire' = wire PROVE Course'
  BY <1>1, <1>2, <1>4, LeftBehind DEF Course
<1> QED BY <1>3, <1>4

\* The capture written when the queue is drained holds all attempts at all blocks.
LEMMA CourseWrite ==
    ASSUME Typed, Quiet, Course, WriteCapture
    PROVE  /\ Course'
           /\ OnDisk' = run /\ (OnDisk # run => AllDealt)
<1> DEFINE f == [run |-> run, state |-> Body, completed |-> completed, samples |-> samples]
<1>1. /\ inbox # <<>> /\ Head(inbox).to = "capture" /\ Emit(<<>>)
      /\ Body \in {"drained", "cancelled"} /\ file' = f
      /\ UNCHANGED <<running, queue, active, run, samples, completed, wire, limit, sent>>
  BY DEF WriteCapture, Arrived, context, outside
<1>3. file' # None BY Written
<1>4. OnDisk' = run BY <1>1, <1>3 DEF OnDisk
<1>5. Tells(Head(inbox)) /\ Head(inbox).body = Body BY <1>1, HeadTells DEF Body
<1>6. \/ Body = "drained" /\ AllDealt /\ run # 0 /\ OnDisk # run
      \/ Body = "cancelled" /\ OnDisk = run
  BY <1>1, <1>5 DEF Tells, Derived
<1>7. run # 0 => AllDealt BY <1>6 DEF Course
<1>8. \A b, s, r : Attempted(b, s, r)' <=> Attempted(b, s, r) BY <1>1 DEF Attempted
<1>9. PublishedAttempts'
  <2> SUFFICES ASSUME Body = "drained", NEW b \in Blocks
               PROVE  Attempted(b, samples, run)
    BY <1>1, <1>8 DEF PublishedAttempts
  <2>1. AllDealt BY <1>6
  <2>2. PICK i \in DOMAIN Plan : b = Plan[i] BY DEF Blocks
  <2>3. i \in DOMAIN completed
    <3>1. completed \in Seq((0 .. run) \X (Blocks \cup {None})) BY DEF Typed, TypeOK
    <3>2. DOMAIN completed = 1..Len(completed) /\ DOMAIN Plan = 1..Len(Plan)
      BY <3>1, PlanFacts
    <3> QED BY <2>1, <2>2, <3>2 DEF AllDealt
  <2> QED BY <2>2, <2>3 DEF Course, Dealt
<1>11. Dealt' BY <1>1, <1>8 DEF Course, Dealt
<1>12. AllDealt' <=> AllDealt BY <1>1 DEF AllDealt
<1>13. \A q \in wire' : Reading(q)' BY <1>1, LeftBehind
<1>14. run' = 0 => ~running' BY <1>1 DEF Course
<1>15. Course' BY <1>1, <1>7, <1>9, <1>11, <1>12, <1>13, <1>14, CourseAlone
<1> QED BY <1>4, <1>6, <1>15

\* What the capture node does with the answer of the read q in hand: it is asked
\* again, or its block is dealt with.
Retried(q, read) ==
    /\ ~read /\ q.attempt < limit /\ completed' = completed
    /\ Emit(<<Msg("continue", "retry", q)>>)
DealtWith(q, read) ==
    /\ read \/ q.attempt = limit
    /\ completed' = Append(completed, <<run, q.block>>)
    /\ Emit(<<Msg("continue", "next", q)>>)

\* A block that is in hand is not among those dealt with.
LEMMA NotDealt ==
    ASSUME Typed, Course, NEW q, Reading(q)
    PROVE  /\ \A i \in DOMAIN completed : q.block # Plan[i] /\ completed[i] # <<run, q.block>>
           /\ DOMAIN completed = 1..Len(completed) /\ Len(completed) \in Nat
           /\ DOMAIN Plan = 1..Len(Plan) /\ Len(Plan) \in Nat
<1>1. Len(completed) < Len(Plan) /\ q.block = Plan[Len(completed) + 1]
  BY DEF Reading, InHand
<1>2. completed \in Seq((0 .. run) \X (Blocks \cup {None})) BY DEF Typed, TypeOK
<1>3. /\ DOMAIN completed = 1..Len(completed) /\ Len(completed) \in Nat
      /\ DOMAIN Plan = 1..Len(Plan) /\ Len(Plan) \in Nat
  BY <1>2, PlanFacts
<1>4. ASSUME NEW i \in DOMAIN completed
      PROVE  q.block # Plan[i] /\ completed[i] # <<run, q.block>>
  <2>1. completed[i] = <<run, Plan[i]>> BY DEF Course, Dealt
  <2>2. i \in DOMAIN Plan /\ Len(completed) + 1 \in DOMAIN Plan /\ i # Len(completed) + 1
    BY <1>1, <1>3
  <2>3. q.block # Plan[i] BY <1>1, <2>2, PlanFacts
  <2> QED BY <2>1, <2>3
<1> QED BY <1>3, <1>4

LEMMA RecordEffect ==
    ASSUME Typed, Course, Record
    PROVE  /\ inbox # <<>> /\ Head(inbox).to = "capture" /\ active' = None
           /\ UNCHANGED <<running, queue, run, limit, file, wire, sent>>
           /\ \E q \in Requests, read, decoded \in BOOLEAN :
              /\ Reading(q) /\ q.attempt <= limit /\ limit \in Nat
              /\ samples' = Append(samples, [run |-> run, read |-> read,
                                             decoded |-> decoded, of |-> q])
              /\ Retried(q, read) \/ DealtWith(q, read)
<1>1. /\ inbox # <<>> /\ Head(inbox).to = "capture" /\ Body \notin {"drained", "cancelled"}
      /\ active' = None /\ UNCHANGED <<running, queue, run, limit, file, wire, sent>>
  BY DEF Record, Arrived, outside
<1>2. Tells(Head(inbox)) /\ Head(inbox).body = Body /\ Head(inbox).req = Req
  BY <1>1, HeadTells DEF Body, Req
<1>3. PICK q : q = Req OBVIOUS
<1>4. PICK read \in BOOLEAN : read = (Body \in Derived)
  <2>1. CASE Body \in Derived
    <3>1. TRUE = (Body \in Derived) BY <2>1
    <3> QED BY <3>1
  <2>2. CASE Body \notin Derived
    <3>1. FALSE = (Body \in Derived) BY <2>2
    <3> QED BY <3>1
  <2> QED BY <2>1, <2>2
<1>13. PICK decoded \in BOOLEAN : decoded = (Body # "undecoded") OBVIOUS
<1>5. Reading(q) BY <1>1, <1>2, <1>3 DEF Tells
<1>6. q # None BY <1>5 DEF Reading, Typed, Recorded
<1>7. q \in Requests /\ q.attempt \in Nat /\ q.attempt <= limit /\ limit \in Nat
  BY <1>1, <1>3, <1>6, HeadTyped
<1>8. samples' = Append(samples, [run |-> run, read |-> read, decoded |-> decoded, of |-> q])
  BY <1>3, <1>4, <1>6, <1>13 DEF Record
<1>9. ~\E i \in DOMAIN completed : completed[i] = <<run, q.block>> BY <1>5, NotDealt
<1> DEFINE retry == ~read /\ q.attempt < limit
<1>10. /\ completed' = IF retry THEN completed ELSE Append(completed, <<run, q.block>>)
       /\ Emit(<<Msg("continue", IF retry THEN "retry" ELSE "next", q)>>)
  BY <1>3, <1>4, <1>6, <1>9 DEF Record
<1>11. CASE retry
  <2>1. Retried(q, read) BY <1>10, <1>11 DEF Retried
  <2> QED BY <1>1, <1>5, <1>7, <1>8, <2>1
<1>12. CASE ~retry
  <2>1. read \/ q.attempt = limit BY <1>7, <1>12
  <2>2. DealtWith(q, read) BY <1>10, <1>12, <2>1 DEF DealtWith
  <2> QED BY <1>1, <1>5, <1>7, <1>8, <2>2
<1> QED BY <1>11, <1>12

\* The answer of a read is recorded: a failed attempt is one more of its block,
\* and a block whose last attempt is recorded is dealt with.
LEMMA CourseRecord ==
    ASSUME Typed, Quiet, Course, Record
    PROVE  Course'
<1>1. /\ inbox # <<>> /\ Head(inbox).to = "capture" /\ active' = None
      /\ UNCHANGED <<running, queue, run, limit, file, wire, sent>>
  BY RecordEffect
<1>2. PICK q \in Requests, read, decoded \in BOOLEAN :
        /\ Reading(q) /\ q.attempt <= limit /\ limit \in Nat
        /\ samples' = Append(samples, [run |-> run, read |-> read,
                                       decoded |-> decoded, of |-> q])
        /\ Retried(q, read) \/ DealtWith(q, read)
  BY RecordEffect
<1>3. PICK x : x = [run |-> run, read |-> read, decoded |-> decoded, of |-> q] OBVIOUS
<1>4. PICK k : k = Len(completed) OBVIOUS
<1>5. /\ IsSeq(samples) /\ \A i \in DOMAIN samples : samples[i].run = run
      /\ run \in Nat /\ IsSeq(completed) /\ q.attempt \in Nat
  BY DEF Typed, TypeOK, Requests
<1>6. /\ x \in [run : Nat, read : BOOLEAN, decoded : BOOLEAN, of : Requests]
      /\ x.run = run /\ x.read = read /\ x.of = q /\ samples' = Append(samples, x)
  BY <1>2, <1>3, <1>5
<1>7. /\ q \in sent /\ q.run = run /\ running /\ OnDisk # run
      /\ k < Len(Plan) /\ q.block = Plan[k + 1]
      /\ Left(k + 1, queue) /\ SampledTo(k + 1, samples)
      /\ Failed(q.block, q.attempt, samples, run)
  BY <1>2, <1>4 DEF Reading, InHand
<1>8. /\ \A i \in DOMAIN completed : q.block # Plan[i]
      /\ DOMAIN completed = 1..k /\ k \in Nat /\ DOMAIN Plan = 1..Len(Plan) /\ Len(Plan) \in Nat
  BY <1>2, <1>4, NotDealt
<1>9. OnDisk' = OnDisk BY <1>1 DEF OnDisk
<1>10. \A b, s, r : Attempted(b, s, r)' <=> Attempted(b, s, r) BY <1>1 DEF Attempted
<1>11. PublishedAttempts' BY <1>1, <1>10 DEF Course, PublishedAttempts
<1>13. SampledTo(k + 1, samples')
  <2>1. \E j \in 1..k + 1 : x.of.block = Plan[j] BY <1>6, <1>7, <1>8
  <2>2. k + 1 \in Nat BY <1>8
  <2> QED BY <1>5, <1>6, <1>7, <2>1, <2>2, SampledMore
<1>14. \A i \in DOMAIN completed :
          completed[i] = <<run, Plan[i]>> /\ Attempted(Plan[i], samples', run)
  <2> SUFFICES ASSUME NEW i \in DOMAIN completed
               PROVE  completed[i] = <<run, Plan[i]>> /\ Attempted(Plan[i], samples', run)
    OBVIOUS
  <2>1. completed[i] = <<run, Plan[i]>> /\ Attempted(Plan[i], samples, run)
    BY DEF Course, Dealt
  <2>2. x.of.block # Plan[i] BY <1>6, <1>8
  <2>3. Attempted(Plan[i], Append(samples, x), run) BY <1>5, <2>1, <2>2, AttemptedKept
  <2> QED BY <1>6, <2>1, <2>3
<1>15. ~(OnDisk' = run') /\ (run' = 0 => ~running') BY <1>1, <1>7, <1>9 DEF Course
<1>16. CASE Retried(q, read)
  <2> DEFINE m == Msg("continue", "retry", q)
  <2>1. ~read /\ q.attempt < limit /\ completed' = completed /\ Emit(<<m>>)
    BY <1>16 DEF Retried
  <2>2. m.to = "continue" /\ m.body = "retry" /\ m.req = q BY MsgFields
  <2> HIDE DEF m
  <2>3. Failed(q.block, q.attempt + 1, samples', run)
    BY <1>5, <1>6, <1>7, <2>1, FailedAgain
  <2>4. InHand(q.block, q.attempt + 1)'
    BY <1>1, <1>4, <1>7, <1>9, <1>13, <2>1, <2>3 DEF InHand
  <2>5. Tells(m)' BY <1>1, <1>7, <2>1, <2>2, <2>4 DEF Tells, Redo
  <2>6. Dealt' BY <1>1, <1>4, <1>7, <1>10, <1>14, <2>1 DEF Course, Dealt
  <2> QED BY <1>1, <1>11, <1>15, <2>1, <2>5, <2>6, CourseAlone
<1>17. CASE DealtWith(q, read)
  <2> DEFINE m == Msg("continue", "next", q)  c == <<run, q.block>>
  <2>1. /\ read \/ q.attempt = limit
        /\ completed' = Append(completed, c) /\ Emit(<<m>>)
    BY <1>17 DEF DealtWith
  <2>2. m.to = "continue" /\ m.body = "next" /\ m.req = q BY MsgFields
  <2>3. c = <<run, Plan[k + 1]>> BY <1>7
  <2> HIDE DEF m, c
  <2>4. /\ IsSeq(completed') /\ DOMAIN completed' = DOMAIN completed \cup {k + 1}
        /\ completed'[k + 1] = c /\ \A i \in DOMAIN completed : completed'[i] = completed[i]
    BY <1>4, <1>5, <2>1, Appended
  <2>5. Len(completed') = k + 1 BY <1>4, <1>5, <2>1 DEF IsSeq
  <2>6. Attempted(Plan[k + 1], samples', run)
    BY <1>5, <1>6, <1>7, <2>1, FailedDone
  <2>7. Dealt'
    <3>1. \A i \in DOMAIN completed' :
            completed'[i] = <<run, Plan[i]>> /\ Attempted(Plan[i], samples', run)
      BY <1>14, <2>3, <2>4, <2>6
    <3>2. Len(completed') <= Len(Plan) BY <1>7, <1>8, <2>5
    <3> QED BY <1>1, <1>10, <3>1, <3>2 DEF Dealt
  <2>8. Between' BY <1>1, <1>7, <1>9, <1>13, <2>5 DEF Between
  <2>9. Tells(m)' BY <2>2, <2>8 DEF Tells
  <2> QED BY <1>1, <1>11, <1>15, <2>1, <2>7, <2>9, CourseAlone
<1> QED BY <1>2, <1>16, <1>17

\* The sequencer orders a read of a block that is in hand then.
LEMMA CourseOrder ==
    ASSUME Typed, Quiet, inbox # <<>>, Head(inbox).to = "sequencer",
           NEW block, NEW attempt, Ordering(block, attempt), InHand(block, attempt)',
           Dealt', run' # 0, PublishedAttempts'
    PROVE  Course'
<1>1. PICK q : q = [no |-> Cardinality(sent) + 1, run |-> run',
                    block |-> block, attempt |-> attempt]
  OBVIOUS
<1>2. wire' = wire \cup {q} /\ sent' = sent \cup {q} /\ Emit(<<>>) BY <1>1 DEF Ordering
<1>3. q.run = run' /\ q.block = block /\ q.attempt = attempt BY <1>1
<1>4. wire' = {q} BY <1>2, LeftBehind
<1>5. Reading(q)' BY <1>2, <1>3 DEF Reading
<1>6. ~(OnDisk' = run') BY DEF InHand
<1> QED BY <1>2, <1>4, <1>5, <1>6, CourseAlone

\* What the sequencer does: start the plan, cancel, ask again or go on.
LEMMA SequenceEffect ==
    ASSUME Typed, Quiet, Course, Sequence
    PROVE  /\ inbox # <<>> /\ Head(inbox).to = "sequencer" /\ UNCHANGED <<limit, file>>
           /\ \/ StartPlan /\ OnDisk = run /\ ~running
              \/ Cancel /\ OnDisk = run
              \/ /\ \E q \in Requests :
                       Redo(q) /\ q.attempt \in Nat /\ Ordering(q.block, q.attempt + 1)
                 /\ UNCHANGED <<running, queue, run, samples, completed>>
              \/ /\ Between /\ UNCHANGED <<run, samples, completed>>
                 /\ RunsOut(queue) \/ Orders(queue, None, TRUE)
<1>1. /\ inbox # <<>> /\ Head(inbox).to = "sequencer" /\ UNCHANGED <<limit, file>>
      /\ (StartPlan \/ StartRefused \/ Cancel \/ Retry \/ Advance)
  BY DEF Sequence, Arrived
<1>2. Tells(Head(inbox)) /\ Head(inbox).body = Body /\ Head(inbox).req = Req
  BY <1>1, HeadTells DEF Body, Req
<1>3. \/ Body \in {"start", "cancel"} /\ OnDisk = run
      \/ Body = "retry" /\ Redo(Req)
      \/ Body = "next" /\ Between
  BY <1>1, <1>2 DEF Tells
<1>4. CASE StartPlan
  BY <1>1, <1>3, <1>4 DEF StartPlan
<1>5. CASE StartRefused
  <2>1. OnDisk = run /\ running BY <1>3, <1>5 DEF StartRefused
  <2> QED BY <2>1 DEF Course, AllDealt
<1>6. CASE Cancel BY <1>1, <1>3, <1>6 DEF Cancel
<1>7. CASE Retry
  <2>1. Body = "retry" /\ Redo(Req) BY <1>3, <1>7 DEF Retry
  <2>2. PICK q : q = Req OBVIOUS
  <2>3. Redo(q) /\ q # None BY <2>1, <2>2 DEF Redo, Typed, Recorded
  <2>4. q \in Requests /\ q.attempt \in Nat /\ limit \in Nat BY <1>1, <2>2, <2>3, HeadTyped
  <2>5. ~(q.attempt + 1 > limit) /\ active = None BY <2>3, <2>4 DEF Redo
  <2>6. /\ Send(q.block, q.attempt + 1, None)
        /\ UNCHANGED <<running, queue, run, samples, completed>>
    BY <1>7, <2>2, <2>3, <2>5 DEF Retry
  <2>7. Ordering(q.block, q.attempt + 1) BY <2>6, SendEffect
  <2> QED BY <1>1, <2>3, <2>4, <2>6, <2>7
<1>8. CASE Advance
  <2>1. Between /\ UNCHANGED <<run, samples, completed>> /\ NextBlock(queue, active, running)
    BY <1>3, <1>8 DEF Advance
  <2>2. active = None /\ running = TRUE BY <2>1 DEF Between, Typed, TypeOK
  <2>3. NextBlock(queue, None, TRUE) BY <2>1, <2>2
  <2>4. RunsOut(queue) \/ Orders(queue, None, TRUE) BY <2>3, NextBlockEffect DEF Waits
  <2> QED BY <1>1, <2>1, <2>4
<1> QED BY <1>1, <1>4, <1>5, <1>6, <1>7, <1>8

LEMMA CourseSequence ==
    ASSUME Typed, Quiet, Course, Sequence
    PROVE  Course'
<1>1. /\ inbox # <<>> /\ Head(inbox).to = "sequencer" /\ UNCHANGED <<limit, file>>
      /\ run \in Nat /\ queue \in Seq(Blocks) /\ IsSeq(samples) /\ IsSeq(completed)
      /\ Len(completed) \in Nat
  <2>1. completed \in Seq((0 .. run) \X (Blocks \cup {None})) BY DEF Typed, TypeOK
  <2>2. Len(completed) \in Nat BY <2>1
  <2>3. inbox # <<>> /\ Head(inbox).to = "sequencer" /\ UNCHANGED <<limit, file>>
    BY SequenceEffect, Zenon
  <2> QED BY <2>2, <2>3 DEF Typed, TypeOK
<1>2. OnDisk' = OnDisk BY <1>1 DEF OnDisk
<1>3. \A b, s, r : Attempted(b, s, r)' <=> Attempted(b, s, r) BY <1>1 DEF Attempted
<1>4. PublishedAttempts' BY <1>1, <1>3 DEF Course, PublishedAttempts
<1>5. ASSUME UNCHANGED <<run, samples, completed>> PROVE Dealt'
  BY <1>3, <1>5 DEF Course, Dealt
<1>6. ASSUME NEW body, Emit(<<Msg("capture", body, None)>>), UNCHANGED outside,
             samples' = samples \/ samples' = <<>>, Dealt', run' = 0 => ~running',
             OnDisk' = run' /\ run' # 0 => AllDealt',
             \/ body = "drained" /\ AllDealt' /\ run' # 0 /\ OnDisk' # run'
             \/ body = "cancelled" /\ OnDisk' = run'
      PROVE  Course'
  <2> DEFINE x == Msg("capture", body, None)
  <2>1. x.to = "capture" /\ x.body = body BY MsgFields
  <2>2. Emit(<<x>>) /\ wire' = wire /\ sent' = sent BY <1>6 DEF outside
  <2> HIDE DEF x
  <2>3. Tells(x)' BY <1>6, <2>1 DEF Tells
  <2> QED BY <1>1, <1>4, <1>6, <2>2, <2>3, CourseAlone
<1>7. CASE StartPlan /\ OnDisk = run /\ ~running
  <2>1. /\ run' = run + 1 /\ samples' = <<>> /\ completed' = <<>>
        /\ NextBlock(Plan, None, TRUE) /\ OnDisk' = run
        /\ OnDisk' # run' /\ run' # 0 /\ run' \in Nat
    <3>1. /\ run' = run + 1 /\ samples' = <<>> /\ completed' = <<>>
          /\ NextBlock(Plan, None, TRUE)
      BY <1>7, Zenon DEF StartPlan
    <3>2. OnDisk' = run BY <1>2, <1>7
    <3>3. run + 1 # run /\ run + 1 # 0 /\ run + 1 \in Nat BY <1>1
    <3> QED BY <3>1, <3>2, <3>3, Zenon
  <2>2. IsSeq(samples') /\ DOMAIN samples' = {} /\ DOMAIN completed' = {} BY <2>1, EmptyQueue
  <2>3. Len(completed') = 0 /\ Len(Plan) \in Nat /\ Plan \in Seq(Blocks) BY <2>1, PlanFacts
  <2>4. Dealt' BY <2>2, <2>3 DEF Dealt
  <2>5. CASE RunsOut(Plan)
    <3>1. Len(Plan) = 0 BY <2>5 DEF RunsOut
    <3>2. AllDealt' BY <2>3, <2>5, <3>1 DEF RunsOut, AllDealt
    <3> QED BY <1>6, <2>1, <2>4, <2>5, <3>2 DEF RunsOut
  <2>6. CASE Orders(Plan, None, TRUE)
    <3>1. Plan # <<>> /\ running' = TRUE /\ queue' = Tail(Plan) /\ Ordering(Head(Plan), 0)
      BY <2>6 DEF Orders
    <3>2. 0 < Len(Plan) /\ Head(Plan) = Plan[0 + 1] /\ Left(0 + 1, queue')
      BY <2>3, <3>1, LeftAll, LeftTaken
    <3>3. SampledTo(0, samples') BY <2>2 DEF SampledTo
    <3>4. Failed(Plan[0 + 1], 0, samples', run') /\ SampledTo(0 + 1, samples')
      BY <2>2, <3>2, <3>3, NoneSampled
    <3>5. InHand(Head(Plan), 0)'
      BY <2>1, <2>3, <3>1, <3>2, <3>4 DEF InHand
    <3> QED BY <1>1, <1>4, <2>1, <2>4, <3>1, <3>5, CourseOrder
  <2> QED BY <2>1, <2>5, <2>6, NextBlockEffect DEF Waits
<1>8. CASE Cancel /\ OnDisk = run
  <2>1. /\ Emit(<<Msg("capture", "cancelled", None)>>) /\ UNCHANGED outside
        /\ running' = FALSE /\ UNCHANGED <<run, samples, completed>>
    BY <1>8 DEF Cancel, Finalize, Status
  <2>2. OnDisk' = run' /\ Dealt' BY <1>2, <1>5, <1>8, <2>1
  <2>3. run' # 0 => AllDealt' BY <1>8, <2>1 DEF Course, AllDealt
  <2> QED BY <1>6, <2>1, <2>2, <2>3
<1>9. CASE /\ \E q \in Requests :
                 Redo(q) /\ q.attempt \in Nat /\ Ordering(q.block, q.attempt + 1)
           /\ UNCHANGED <<running, queue, run, samples, completed>>
  <2>1. PICK q \in Requests :
            Redo(q) /\ q.attempt \in Nat /\ Ordering(q.block, q.attempt + 1)
    BY <1>9
  <2>2. InHand(q.block, q.attempt + 1) BY <2>1 DEF Redo
  <2>3. InHand(q.block, q.attempt + 1)' BY <1>2, <1>9, <2>2 DEF InHand
  <2>4. run' # 0 BY <1>9, <2>2 DEF InHand, Course
  <2> QED BY <1>1, <1>4, <1>5, <1>9, <2>1, <2>3, <2>4, CourseOrder
<1>10. CASE /\ Between /\ UNCHANGED <<run, samples, completed>>
            /\ RunsOut(queue) \/ Orders(queue, None, TRUE)
  <2>1. PICK k \in Nat : k = Len(completed) BY <1>1
  <2>2. /\ OnDisk' # run' /\ run' # 0 /\ Left(k, queue) /\ SampledTo(k, samples)
    BY <1>2, <1>10, <2>1 DEF Between, Course
  <2>3. CASE RunsOut(queue)
    <3>1. k = Len(Plan) BY <2>2, <2>3, LeftAll DEF RunsOut
    <3>2. AllDealt' BY <1>10, <2>1, <2>3, <3>1 DEF RunsOut, AllDealt
    <3> QED BY <1>5, <1>6, <1>10, <2>2, <2>3, <3>2 DEF RunsOut
  <2>4. CASE Orders(queue, None, TRUE)
    <3>1. queue # <<>> /\ running' = TRUE /\ queue' = Tail(queue) /\ Ordering(Head(queue), 0)
      BY <2>4 DEF Orders
    <3>2. k < Len(Plan) /\ Head(queue) = Plan[k + 1] /\ Left(k + 1, queue')
      BY <1>1, <2>2, <3>1, LeftTaken
    <3>3. Failed(Plan[k + 1], 0, samples, run) /\ SampledTo(k + 1, samples)
      BY <1>1, <2>2, <3>2, NoneSampled
    <3>4. PICK b : b = Head(queue) OBVIOUS
    <3>5. InHand(b, 0)' BY <1>10, <2>1, <2>2, <3>1, <3>2, <3>3, <3>4 DEF InHand
    <3>6. b \in Blocks /\ Ordering(b, 0) BY <1>1, <3>1, <3>4
    <3> QED BY <1>1, <1>4, <1>5, <1>10, <2>2, <3>5, <3>6, CourseOrder
  <2> QED BY <1>10, <2>3, <2>4
<1> QED BY <1>7, <1>8, <1>9, <1>10, SequenceEffect

LEMMA CourseStep == Typed /\ Quiet /\ Course /\ Patient => Course'
<1> SUFFICES ASSUME Typed, Quiet, Course, Patient PROVE Course'
  OBVIOUS
<1>1. CASE Relays BY <1>1, CourseRelay
<1>2. CASE WriteCapture BY <1>2, CourseWrite
<1>3. CASE Record BY <1>3, CourseRecord
<1>4. CASE Sequence BY <1>4, CourseSequence
<1>5. ASSUME NEW c \in {"start", "cancel"}, Awaited(c) PROVE Course'
  BY <1>5, CourseTrigger
<1>6. ASSUME NEW q \in wire, NEW o \in Outcomes, Answer(q, o) PROVE Course'
  BY <1>6, CourseAnswer
<1>7. CASE WatchdogFires BY <1>7, CourseWatchdog
<1>8. CASE UNCHANGED vars
  BY <1>8, CoursePassed DEF vars, context, outside
<1> QED
  BY <1>1, <1>2, <1>3, <1>4, <1>5, <1>6, <1>7, <1>8 DEF Patient, Deliver, Relays

LEMMA CourseInit == Init => Course
<1> SUFFICES ASSUME Init PROVE Course
  OBVIOUS
<1>1. /\ running = FALSE /\ run = 0 /\ samples = <<>> /\ completed = <<>>
      /\ inbox = <<>> /\ wire = {} /\ file = None /\ sent = {}
  BY DEF Init
<1>3. Len(completed) = 0 /\ Len(Plan) \in Nat BY <1>1, PlanFacts
<1>4. Dealt BY <1>1, <1>3, EmptyQueue DEF Dealt
<1> QED BY <1>1, <1>4, EmptyQueue DEF Course, PublishedAttempts

----------------------------------------------------------------------------
(* The flow is a run of the plan.                                          *)

\* The blocks dealt with, as the abstract run lists them.
Listed(c) == [i \in DOMAIN c |-> c[i][2]]

\* A step that leaves the list and the capture alone is none of the abstract run.
LEMMA RunStutter ==
    UNCHANGED <<run, completed, file>> => UNCHANGED RunSpec!vars
BY DEF RunSpec!vars

LEMMA RunWrite ==
    ASSUME Typed, Quiet, Course, WriteCapture
    PROVE  RunSpec!Publish \/ UNCHANGED RunSpec!vars
<1>1. OnDisk' = run /\ (OnDisk # run => AllDealt) BY CourseWrite
<1>2. UNCHANGED <<run, completed>> BY DEF WriteCapture, context
<1>3. CASE OnDisk = run BY <1>1, <1>2, <1>3 DEF OnDisk, RunSpec!vars
<1>4. CASE OnDisk # run
  <2>1. completed \in Seq((0 .. run) \X (Blocks \cup {None})) BY DEF Typed, TypeOK
  <2>2. DOMAIN completed = DOMAIN Plan
    <3>1. DOMAIN completed = 1..Len(completed) /\ DOMAIN Plan = 1..Len(Plan)
      BY <2>1, PlanFacts
    <3> QED BY <1>1, <1>4, <3>1 DEF AllDealt
  <2>3. \A i \in DOMAIN completed : completed[i][2] = Plan[i] BY DEF Course, Dealt
  <2>4. Plan = [i \in DOMAIN Plan |-> Plan[i]] BY PlanFacts
  <2>5. Listed(completed) = Plan BY <2>2, <2>3, <2>4 DEF Listed
  <2> QED BY <1>1, <1>2, <1>4, <2>5 DEF OnDisk, Listed, RunSpec!Publish
<1> QED BY <1>3, <1>4

LEMMA RunRecord ==
    ASSUME Typed, Course, Record
    PROVE  RunSpec!Finish \/ UNCHANGED RunSpec!vars
<1>1. run' = run /\ file' = file BY RecordEffect
<1>2. PICK q \in Requests, read \in BOOLEAN :
        Reading(q) /\ (Retried(q, read) \/ DealtWith(q, read))
  BY RecordEffect
<1>3. CASE Retried(q, read) BY <1>1, <1>3, RunStutter DEF Retried
<1>4. CASE DealtWith(q, read)
  <2> DEFINE c == <<run, q.block>>  k == Len(completed)
  <2>1. completed' = Append(completed, c) /\ c[2] = q.block BY <1>4 DEF DealtWith
  <2>2. OnDisk # run /\ k < Len(Plan) /\ q.block = Plan[k + 1]
    BY <1>2 DEF Reading, InHand
  <2> HIDE DEF c
  <2>3. /\ k \in Nat /\ DOMAIN completed = 1..k
        /\ DOMAIN completed' = DOMAIN completed \cup {k + 1}
        /\ completed'[k + 1] = c /\ \A i \in DOMAIN completed : completed'[i] = completed[i]
    BY <2>1, Appended DEF Typed
  <2>4. Listed(completed) \in Seq(Held(Listed(completed))) /\ Len(Listed(completed)) = k
    BY <2>3 DEF Listed, Held
  <2>5. Listed(completed') = Append(Listed(completed), Plan[k + 1])
    <3> DEFINE s == Listed(completed)  t == Append(s, Plan[k + 1])
    <3>1. IsSeq(s) BY <2>4 DEF IsSeq, Held
    <3>2. /\ DOMAIN t = DOMAIN s \cup {k + 1} /\ t[k + 1] = Plan[k + 1]
          /\ \A i \in DOMAIN s : t[i] = s[i]
      BY <2>4, <3>1, Appended
    <3>3. IsSeq(t) BY <3>1, Appended
    <3>4. t = [i \in DOMAIN t |-> t[i]] BY <3>3 DEF IsSeq
    <3>5. DOMAIN s = DOMAIN completed /\ \A i \in DOMAIN completed : s[i] = completed[i][2]
      BY DEF Listed
    <3> HIDE DEF s, t
    <3>6. DOMAIN completed' = DOMAIN t BY <2>3, <3>2, <3>5
    <3>7. \A i \in DOMAIN t : t[i] = completed'[i][2]
      BY <2>1, <2>2, <2>3, <3>2, <3>5
    <3>8. Listed(completed') = t BY <3>4, <3>6, <3>7 DEF Listed
    <3> QED BY <3>8 DEF s, t
  <2>6. RunSpec!Finish
    BY <1>1, <2>2, <2>4, <2>5 DEF OnDisk, Listed, RunSpec!Finish
  <2> QED BY <2>6
<1> QED BY <1>2, <1>3, <1>4

LEMMA RunSequence ==
    ASSUME Typed, Quiet, Course, Sequence
    PROVE  RunSpec!Start \/ UNCHANGED RunSpec!vars
<1>1. file' = file BY SequenceEffect, Zenon
<1>2. CASE StartPlan /\ OnDisk = run
  <2>1. run' = run + 1 /\ completed' = <<>> BY <1>2, Zenon DEF StartPlan
  <2>2. Listed(completed') = <<>> BY <2>1 DEF Listed
  <2> QED BY <1>1, <1>2, <2>1, <2>2 DEF OnDisk, Listed, RunSpec!Start
<1>3. CASE Cancel BY <1>1, <1>3, RunStutter DEF Cancel
<1>4. CASE UNCHANGED <<run, completed>> BY <1>1, <1>4, RunStutter
<1> QED BY <1>2, <1>3, <1>4, SequenceEffect

LEMMA RunStep ==
    Typed /\ Quiet /\ Course /\ [Next]_vars => [RunSpec!Next]_(RunSpec!vars)
<1> SUFFICES ASSUME Typed, Quiet, Course, [Next]_vars
             PROVE  RunSpec!Next \/ UNCHANGED RunSpec!vars
  OBVIOUS
<1>1. CASE Relays BY <1>1, RelayEffect, RunStutter
<1>2. CASE WriteCapture BY <1>2, RunWrite DEF RunSpec!Next
<1>3. CASE Record BY <1>3, RunRecord DEF RunSpec!Next
<1>4. CASE Sequence BY <1>4, RunSequence DEF RunSpec!Next
<1>5. ASSUME NEW c \in Commands, Trigger(c) PROVE UNCHANGED RunSpec!vars
  BY <1>5, RunStutter DEF Trigger, context
<1>6. ASSUME NEW q \in wire, NEW o \in Outcomes, Answer(q, o) PROVE UNCHANGED RunSpec!vars
  BY <1>6, RunStutter DEF Answer, context
<1>7. CASE WatchdogFires BY <1>7, RunStutter DEF WatchdogFires, context
<1>8. CASE UNCHANGED vars BY <1>8, RunStutter DEF vars, context
<1> QED
  BY <1>1, <1>2, <1>3, <1>4, <1>5, <1>6, <1>7, <1>8 DEF Next, Deliver, Relays

----------------------------------------------------------------------------
(* The beginning.                                                          *)

LEMMA Initially ==
    Init => Typed /\ Captures /\ Fresh /\ ProbeReadsOnce /\ Quiet
<1> SUFFICES ASSUME Init PROVE Typed /\ Captures /\ Fresh /\ ProbeReadsOnce /\ Quiet
  OBVIOUS
<1>1. /\ running = FALSE /\ queue = <<>> /\ active = None /\ run = 0 /\ samples = <<>>
      /\ completed = <<>> /\ limit \in RetryLimits /\ inbox = <<>> /\ wire = {}
      /\ watch = FALSE /\ file = None /\ sent = {} /\ triggers = 0
  BY DEF Init
<1>2. Typed BY <1>1, EmptyQueue, FS_EmptySet DEF Typed, TypeOK, Recorded
<1>3. Captures
  BY <1>1, EmptyQueue DEF Captures, Own, CaptureOfOneRun, CompletedHasSample
<1>4. Fresh /\ ProbeReadsOnce BY <1>1, EmptyQueue DEF Fresh, ProbeReadsOnce
<1>5. Quiet
  BY <1>1, EmptyQueue DEF Quiet, Ordered, Busy, OneInFlight, AtMostOneRead
<1> QED BY <1>2, <1>3, <1>4, <1>5

----------------------------------------------------------------------------
(* The rounds of a campaign.                                               *)

\* A start is on its way to the sequencer.
Asked == \E m \in Held(inbox) : m.to = "sequencer" /\ m.body = "start"

\* As long as only the harness starts plans, the flow is asked for a run only
\* when the capture of the run before is on disk, and a capture the harness may
\* take is the one of its own trigger.
InStep ==
    /\ Typed /\ Quiet /\ Course
    /\ run = triggers \/ (run + 1 = triggers /\ Asked)
    /\ phase # "waiting" \/ fresh => OnDisk = triggers

Rounded ==
    /\ IsSeq(taken) /\ triggers \in Nat /\ Started <= triggers
    /\ RoundsAreOwn
    /\ triggers = Started /\ phase # "over" => InStep

\* A start stays on its way until the sequencer takes it.
LEMMA AskedOn ==
    ASSUME Typed, inbox # <<>>, Head(inbox).to # "sequencer", Asked,
           Emit(<<>>) \/ \E x : Emit(<<x>>)
    PROVE  Asked'
<1>1. IsSeq(inbox) BY DEF Typed
<1>2. PICK i \in DOMAIN inbox : inbox[i].to = "sequencer" /\ inbox[i].body = "start"
  BY DEF Asked, Held
<1>3. Len(inbox) \in Nat /\ DOMAIN inbox = 1..Len(inbox) /\ Head(inbox) = inbox[1]
  BY <1>1, Taken
<1>4. i - 1 \in 1..Len(inbox) - 1 /\ (i - 1) + 1 = i BY <1>2, <1>3
<1>5. CASE Emit(<<>>)
  <2>1. inbox' = Tail(inbox) BY <1>1, <1>5, Taken DEF Emit
  <2>2. i - 1 \in DOMAIN inbox' /\ inbox'[i - 1] = inbox[i] BY <1>1, <1>4, <2>1, Taken
  <2> QED BY <1>2, <2>2 DEF Asked, Held
<1>6. ASSUME NEW x, Emit(<<x>>) PROVE Asked'
  <2> DEFINE t == Tail(inbox) \o <<x>>
  <2>0. DOMAIN t = 1..Len(inbox) /\ \A k \in 1..Len(inbox) - 1 : t[k] = inbox[k + 1]
    BY <1>1, TakenPut
  <2> HIDE DEF t
  <2>1. i - 1 \in DOMAIN t /\ t[i - 1] = inbox[i] BY <1>3, <1>4, <2>0
  <2>2. inbox' = t BY <1>6 DEF Emit, t
  <2> QED BY <1>2, <2>1, <2>2 DEF Asked, Held
<1> QED BY <1>5, <1>6

\* A start on its way is the head when a message that comes alone is.
LEMMA AskedAlone ==
    ASSUME Typed, Quiet, inbox # <<>>, Asked,
           Head(inbox).to \in {"derive", "handoff", "capture", "continue", "sequencer"}
    PROVE  Head(inbox).to = "sequencer" /\ Head(inbox).body = "start"
<1>1. IsSeq(inbox) /\ Head(inbox) = inbox[1] BY Taken DEF Typed
<1>2. PICK i \in DOMAIN inbox : inbox[i].to = "sequencer" /\ inbox[i].body = "start"
  BY DEF Asked, Held
<1>3. Live(inbox[i]) BY <1>2 DEF Live
<1>4. ~(i > 1) BY <1>1, <1>3, Alone DEF Quiet
<1>5. i = 1 BY <1>1, <1>2, <1>4, Taken
<1> QED BY <1>1, <1>2, <1>5

\* A step of the flow itself takes one start or none, and writes the capture of
\* the run it is in, when no start is on its way.
LEMMA FlowProgress ==
    ASSUME Typed, Quiet, Course, Next, triggers' = triggers
    PROVE  /\ Patient
           /\ run' = run \/ (run' = run + 1 /\ run < triggers)
           /\ Asked /\ run' = run => Asked'
           /\ OnDisk' = OnDisk \/ (OnDisk' = run /\ ~Asked)
           /\ WriteCapture => OnDisk' = run /\ ~Asked
<1>0. triggers \in Nat /\ IsSeq(inbox) BY DEF Typed, TypeOK
<1>1. \A c : ~Trigger(c) BY <1>0 DEF Trigger
<1>2. Patient BY <1>1 DEF Next, Patient
<1>3. file' = file => OnDisk' = OnDisk BY DEF OnDisk
<1>4. WriteCapture => OnDisk' = run /\ ~Asked
  <2> SUFFICES ASSUME WriteCapture PROVE OnDisk' = run /\ ~Asked
    OBVIOUS
  <2>1. inbox # <<>> /\ Head(inbox).to = "capture" BY DEF WriteCapture, Arrived
  <2> QED BY <2>1, CourseWrite, AskedAlone
<1>5. CASE Relays
  <2>1. /\ inbox # <<>> /\ run' = run /\ file' = file
        /\ Emit(<<>>) \/ \E x : Emit(<<x>>)
    BY <1>5, RelayEffect, Zenon
  <2>2. Head(inbox).to # "sequencer"
    BY <1>5 DEF Relays, ReadErrorLane, ResponseGate, Derive, TerminalGate, Handoff,
                Continue, Arrived
  <2>3. Asked => Asked' BY <2>1, <2>2, AskedOn
  <2> QED BY <1>2, <1>3, <1>4, <2>1, <2>3
<1>6. CASE WriteCapture
  BY <1>2, <1>4, <1>6 DEF WriteCapture, context
<1>7. CASE Record
  <2>1. inbox # <<>> /\ Head(inbox).to = "capture" /\ run' = run /\ file' = file
    BY <1>7, RecordEffect, Zenon
  <2>2. ~Asked BY <2>1, AskedAlone
  <2> QED BY <1>2, <1>3, <1>4, <2>1, <2>2
<1>8. CASE Sequence
  <2>1. inbox # <<>> /\ Head(inbox).to = "sequencer" /\ file' = file
    BY <1>8, SequenceEffect, Zenon
  <2>2. CASE StartPlan
    <3>1. run' = run + 1 /\ Body = "start" BY <2>2 DEF StartPlan
    <3>2. run < triggers
      <4>1. Live(Head(inbox)) BY <2>1 DEF Live
      <4> QED BY <2>1, <3>1, <4>1, LiveHead DEF Said, Body
    <3>3. run' # run BY <3>1 DEF Typed, TypeOK
    <3> QED BY <1>2, <1>3, <1>4, <2>1, <3>1, <3>2, <3>3
  <2>3. CASE ~StartPlan
    <3>1. run' = run BY <1>8, <2>3, SequenceEffect DEF Cancel
    <3>2. ~Asked
      <4> SUFFICES ASSUME Asked PROVE FALSE
        OBVIOUS
      <4>1. Body = "start" BY <2>1, AskedAlone DEF Body
      <4>2. StartRefused
        BY <1>8, <2>3, <4>1 DEF Sequence, Cancel, Retry, Advance
      <4>3. Tells(Head(inbox)) BY <2>1, HeadTells
      <4>4. OnDisk = run BY <2>1, <4>1, <4>3 DEF Tells, Body
      <4> QED BY <4>2, <4>4 DEF StartRefused, Course, AllDealt
    <3> QED BY <1>2, <1>3, <1>4, <2>1, <3>1, <3>2
  <2> QED BY <2>2, <2>3
<1>9. ASSUME NEW q \in wire, NEW o \in Outcomes, Answer(q, o)
      PROVE  /\ run' = run \/ (run' = run + 1 /\ run < triggers)
             /\ Asked /\ run' = run => Asked'
             /\ OnDisk' = OnDisk \/ (OnDisk' = run /\ ~Asked)
  <2>1. wire # {} OBVIOUS
  <2>2. ~Asked BY <2>1 DEF Quiet, Asked, Live
  <2>3. run' = run /\ file' = file BY <1>9 DEF Answer, context
  <2> QED BY <1>3, <2>2, <2>3
<1>10. CASE WatchdogFires
  <2>1. /\ inbox' = Append(inbox, Msg("terminal-gate", "timeout", None))
        /\ run' = run /\ file' = file
    BY <1>10 DEF WatchdogFires, context
  <2>2. Held(inbox) \subseteq Held(inbox') BY <1>0, <2>1, Appended
  <2>3. Asked => Asked' BY <2>2 DEF Asked, Held
  <2> QED BY <1>2, <1>3, <1>4, <2>1, <2>3
<1> QED
  BY <1>1, <1>2, <1>4, <1>5, <1>6, <1>7, <1>8, <1>9, <1>10 DEF Next, Deliver, Relays

\* The capture on disk is of a run that was asked for.
LEMMA Landed ==
    ASSUME Typed, Quiet, OnDisk = triggers
    PROVE  run = triggers /\ Published
<1>1. run \in Nat /\ triggers \in Nat /\ run <= triggers
      /\ (file # None => file.run \in Nat /\ file.run <= run)
  BY DEF Typed, TypeOK, Quiet
<1> QED BY <1>1 DEF OnDisk, Published

LEMMA FlowTriggers ==
    Next => triggers' = triggers \/ triggers' = triggers + 1
BY DEF Next, Deliver, Trigger, Answer, WatchdogFires, ReadErrorLane, ResponseGate,
       Derive, TerminalGate, Handoff, Continue, WriteCapture, Record, Sequence

LEMMA RoundedFlow ==
    ASSUME Rounded, Flow
    PROVE  Rounded'
<1>1. /\ phase \in {"round", "waiting", "restoring"} /\ Next
      /\ fresh' = (fresh \/ WriteCapture) /\ UNCHANGED <<phase, taken>>
  BY DEF Flow
<1>2. Started' = Started BY <1>1 DEF Started
<1>3. triggers \in Nat /\ (triggers' = triggers \/ triggers' = triggers + 1)
  BY <1>1, FlowTriggers DEF Rounded
<1>4. CASE triggers' # triggers \/ triggers # Started
  <2>1. Started' <= triggers' /\ triggers' # Started'
    <3>1. Started \in Nat
      <4>1. Len(taken) \in Nat BY DEF Rounded, IsSeq
      <4> QED BY <4>1 DEF Started
    <3> QED BY <1>2, <1>3, <1>4, <3>1 DEF Rounded
  <2> QED BY <1>1, <1>3, <2>1 DEF Rounded, RoundsAreOwn
<1>5. CASE triggers' = triggers /\ triggers = Started
  <2>1. Typed /\ Quiet /\ Course /\ InStep BY <1>1, <1>5 DEF Rounded, InStep
  <2>2. /\ Patient
        /\ run' = run \/ (run' = run + 1 /\ run < triggers)
        /\ Asked /\ run' = run => Asked'
        /\ OnDisk' = OnDisk \/ (OnDisk' = run /\ ~Asked)
        /\ WriteCapture => OnDisk' = run /\ ~Asked
    BY <1>1, <1>5, <2>1, FlowProgress
  <2>3. Typed' /\ Quiet' /\ Course'
    BY <1>1, <2>1, <2>2, TypedStep, QuietStep, CourseStep
  <2>4. run \in Nat BY <2>1 DEF Typed, TypeOK
  <2>5. run' = triggers' \/ (run' + 1 = triggers' /\ Asked')
    BY <1>3, <1>5, <2>1, <2>2, <2>4 DEF InStep
  <2>6. phase' # "waiting" \/ fresh' => OnDisk' = triggers'
    <3>1. CASE phase # "waiting" \/ fresh
      <4>1. OnDisk = triggers /\ run = triggers BY <2>1, <3>1, Landed DEF InStep
      <4> QED BY <1>5, <2>2, <4>1
    <3>2. CASE WriteCapture
      <4>1. run = triggers BY <2>1, <2>2, <3>2 DEF InStep
      <4> QED BY <1>5, <2>2, <3>2, <4>1
    <3> QED BY <1>1, <3>1, <3>2
  <2>7. InStep' BY <2>3, <2>5, <2>6 DEF InStep
  <2> QED BY <1>1, <1>2, <1>5, <2>7 DEF Rounded, RoundsAreOwn
<1> QED BY <1>4, <1>5

\* The harness goes on, the flow is as it was.
LEMMA InStepStill ==
    ASSUME InStep, UNCHANGED vars, phase # "waiting" \/ fresh
    PROVE  InStep'
<1>1. Typed /\ Quiet /\ Course /\ OnDisk = triggers BY DEF InStep
<1>2. Patient BY DEF Patient
<1>3. Typed' /\ Quiet' /\ Course' BY <1>1, <1>2, TypedStep, QuietStep, CourseStep
<1>4. OnDisk' = triggers' /\ run' = run /\ triggers' = triggers
  BY <1>1 DEF OnDisk, vars, context
<1>5. run = triggers BY <1>1, Landed
<1> QED BY <1>3, <1>4, <1>5 DEF InStep

\* A start by the harness is one more message.
LEMMA TypedStart == Typed /\ StartRound => Typed'
<1> SUFFICES ASSUME Typed, StartRound PROVE Typed'
  OBVIOUS
<1> DEFINE x == Msg("sequencer", "start", None)
<1>1. /\ triggers' = triggers + 1 /\ inbox' = Append(inbox, x)
      /\ UNCHANGED <<context, outside, limit, file>>
  BY DEF StartRound
<1>2. x.req = None BY MsgFields
<1> HIDE DEF x
<1>3. IsSeq(inbox') /\ \A i \in DOMAIN inbox' : inbox'[i].req \in sent \cup {None}
  BY <1>1, <1>2, AppendedTyped DEF Typed, TypeOK
<1> QED BY <1>1, <1>3 DEF Typed, TypeOK, Recorded, context, outside

\* The harness starts a plan only when it has the capture of the one before.
LEMMA RoundedStart ==
    ASSUME Rounded, StartRound
    PROVE  Rounded'
<1> DEFINE x == Msg("sequencer", "start", None)
<1>1. /\ phase = "round" /\ phase' = "waiting" /\ fresh' = FALSE
      /\ triggers' = triggers + 1 /\ inbox' = Append(inbox, x) /\ taken' = taken
      /\ UNCHANGED <<context, outside, limit, file>>
  BY DEF StartRound
<1>2. x.to = "sequencer" /\ x.body = "start" /\ x.req = None BY MsgFields
<1>3. Len(taken) \in Nat /\ triggers \in Nat BY DEF Rounded, IsSeq
<1>4. Started = Len(taken) /\ Started' = Len(taken) + 1 BY <1>1, <1>3 DEF Started
<1>5. /\ triggers' \in Nat /\ Started' <= triggers'
      /\ (triggers' = Started' => triggers = Started)
  BY <1>1, <1>3, <1>4 DEF Rounded
<1>6. ASSUME triggers = Started PROVE InStep'
  <2>1. Typed /\ Quiet /\ Course /\ OnDisk = triggers BY <1>1, <1>6 DEF Rounded, InStep
  <2>2. run = triggers /\ Published BY <2>1, Landed
  <2>3. Awaited("start") BY <1>1, <2>2 DEF Awaited
  <2>4. Quiet' /\ Course' BY <2>1, <2>3, QuietStep, CourseStep DEF Patient
  <2>5. Typed' BY <2>1, TypedStart
  <2>6. run' + 1 = triggers' BY <1>1, <2>2 DEF context
  <2>7. Asked'
    <3> HIDE DEF x
    <3>1. x \in Held(inbox') BY <1>1, <2>1, Appended DEF Typed
    <3> QED BY <1>2, <3>1 DEF Asked, Held
  <2> QED BY <1>1, <2>4, <2>5, <2>6, <2>7 DEF InStep
<1> QED BY <1>1, <1>5, <1>6 DEF Rounded, RoundsAreOwn

\* A capture taken in step is the one of the round's own run.
LEMMA RoundedTake ==
    ASSUME Rounded, TakeCapture
    PROVE  Rounded'
<1>1. /\ phase = "waiting" /\ fresh /\ taken' = Append(taken, file)
      /\ phase' \in {"round", "restoring"} /\ UNCHANGED vars
  BY DEF TakeCapture
<1>2. IsSeq(taken) /\ triggers \in Nat /\ triggers' = triggers
  BY <1>1 DEF Rounded, vars
<1> DEFINE n == Len(taken)
<1>3. /\ IsSeq(taken') /\ n \in Nat /\ DOMAIN taken' = DOMAIN taken \cup {n + 1}
      /\ taken'[n + 1] = file /\ \A i \in DOMAIN taken : taken'[i] = taken[i]
  BY <1>1, <1>2, Appended
<1>4. Len(taken') = n + 1 BY <1>1, <1>2 DEF IsSeq
<1>5. Started' = Started /\ Started = n + 1 BY <1>1, <1>3, <1>4 DEF Started
<1>6. ASSUME triggers = Started PROVE InStep' /\ file.run = n + 1
  <2>1. InStep BY <1>1, <1>6 DEF Rounded
  <2>2. OnDisk = n + 1 BY <1>1, <1>5, <1>6, <2>1 DEF InStep
  <2>3. n + 1 # 0 BY <1>3
  <2> QED BY <1>1, <2>1, <2>2, <2>3, InStepStill DEF OnDisk
<1>7. RoundsAreOwn' BY <1>2, <1>3, <1>5, <1>6 DEF Rounded, RoundsAreOwn
<1> QED BY <1>2, <1>3, <1>5, <1>6, <1>7 DEF Rounded

\* The end of a campaign starts nothing and takes nothing.
LEMMA RoundedOver ==
    ASSUME Rounded, phase' = "over", UNCHANGED <<triggers, taken>>
    PROVE  Rounded'
<1>1. Len(taken) \in Nat /\ triggers \in Nat BY DEF Rounded, IsSeq
<1>2. Started' = Len(taken) BY <1>1 DEF Started
<1>3. Started = Len(taken) \/ Started = Len(taken) + 1 BY <1>1 DEF Started
<1>4. Started <= triggers BY DEF Rounded
<1>5. Started' <= triggers /\ (triggers = Started' => triggers = Started)
  BY <1>1, <1>2, <1>3, <1>4
<1> QED BY <1>5 DEF Rounded, RoundsAreOwn

LEMMA RoundedStep == Rounded /\ [CampaignNext]_allvars => Rounded'
<1> SUFFICES ASSUME Rounded, [CampaignNext]_allvars PROVE Rounded'
  OBVIOUS
<1>1. CASE Flow BY <1>1, RoundedFlow
<1>2. CASE StartRound BY <1>2, RoundedStart
<1>3. CASE TakeCapture BY <1>3, RoundedTake
<1>4. CASE Refuse BY <1>4, RoundedOver DEF Refuse, vars
<1>5. CASE OriginalUnreadable BY <1>5, RoundedOver DEF OriginalUnreadable, vars
<1>6. ASSUME NEW ok, Raise(ok) PROVE Rounded' BY <1>6, RoundedOver DEF Raise
<1>7. ASSUME NEW ok, NEW agree, Restore(ok, agree) PROVE Rounded'
  BY <1>7, RoundedOver DEF Restore
<1>8. CASE Deploy
  <2>1. /\ phase = "ready" /\ phase' = "round" /\ UNCHANGED <<vars, taken>>
    BY <1>8 DEF Deploy
  <2>2. Started' = Started /\ triggers' = triggers BY <2>1 DEF Started, vars
  <2>3. InStep => InStep' BY <2>1, InStepStill
  <2> QED BY <2>1, <2>2, <2>3 DEF Rounded, RoundsAreOwn
<1>9. CASE UNCHANGED allvars
  <2>1. /\ UNCHANGED <<vars, phase, taken, fresh>> BY <1>9 DEF allvars, harness
  <2>2. Started' = Started /\ triggers' = triggers BY <2>1 DEF Started, vars
  <2>3. InStep => InStep'
    <3> SUFFICES ASSUME InStep PROVE InStep'
      OBVIOUS
    <3>1. Patient BY <2>1 DEF Patient
    <3>2. Typed' /\ Quiet' /\ Course'
      BY <2>1, <3>1, TypedStep, QuietStep, CourseStep DEF InStep
    <3>3. Asked' <=> Asked BY <2>1 DEF Asked, Held, vars
    <3>4. OnDisk' = OnDisk /\ run' = run BY <2>1 DEF OnDisk, vars, context
    <3> QED BY <2>1, <2>2, <3>2, <3>3, <3>4 DEF InStep
  <2> QED BY <2>1, <2>2, <2>3 DEF Rounded, RoundsAreOwn
<1> QED
  BY <1>1, <1>2, <1>3, <1>4, <1>5, <1>6, <1>7, <1>8, <1>9 DEF CampaignNext, Campaign

LEMMA RoundedInit == CampaignInit => Rounded
<1> SUFFICES ASSUME CampaignInit PROVE Rounded
  OBVIOUS
<1>1. Init /\ taken = <<>> /\ phase # "waiting" BY DEF CampaignInit, Preflights
<1>2. Typed /\ Quiet /\ Course BY <1>1, Initially, CourseInit
<1>3. run = 0 /\ triggers = 0 /\ file = None BY <1>1 DEF Init
<1>4. OnDisk = triggers BY <1>3 DEF OnDisk
<1>5. InStep BY <1>2, <1>3, <1>4 DEF InStep
<1>6. Started = 0 BY <1>1 DEF Started
<1> QED BY <1>1, <1>3, <1>5, <1>6, EmptyQueue DEF Rounded, RoundsAreOwn

----------------------------------------------------------------------------
(* What a passed report has found.                                         *)

\* What a capture holds whose analysis raises no issue.
Clean(f) ==
    /\ f.state = "drained"
    /\ \A j \in DOMAIN f.samples : f.samples[j].read /\ Counted(f.samples, j)
    /\ \A b \in Blocks : \E j \in DOMAIN f.samples : f.samples[j].of.block = b

\* A capture of the reads of run r, one sample a block.
Single(f, r) ==
    \A j, k \in DOMAIN f.samples :
        /\ f.samples[j].of.run = r
        /\ f.samples[j].of.block = f.samples[k].of.block => j = k

Found ==
    issues = {} =>
        \A i \in DOMAIN taken :
            Clean(taken[i]) /\ (triggers = Started => Single(taken[i], i))

Judged ==
    /\ Rounded /\ Found
    /\ phase # "over" => Typed /\ Captures /\ report # "passed"
    /\ fresh => file # None
    /\ phase \in {"ready", "round", "waiting"} => Len(taken) < Rounds
    /\ phase = "restoring" => Len(taken) = Rounds
    /\ report = "passed" =>
          /\ phase = "over" /\ issues = {} /\ Len(taken) = Rounds
          /\ ~deployed /\ wire = {} /\ ~watch

\* The smallest of a set of numbers.
LEMMA Smallest ==
    ASSUME NEW T, T \subseteq Nat, T # {}
    PROVE  \E x \in T : \A y \in T : x <= y
<1>1. PICK t \in T : TRUE OBVIOUS
<1> DEFINE below == {0..y : y \in {z \in T : z <= t}}
<1>2. below \subseteq SUBSET (0..t) /\ below # {} BY <1>1
<1>3. IsWellFoundedOn(StrictSubsetOrdering(0..t), FiniteSubsetsOf(0..t))
  BY <1>1, FS_StrictSubsetOrderingWellFounded
<1>4. below \subseteq FiniteSubsetsOf(0..t)
  BY <1>1, <1>2, FS_Interval, FS_Subset DEF FiniteSubsetsOf
<1>5. PICK b \in below : \A a \in below : ~(<<a, b>> \in StrictSubsetOrdering(0..t))
  BY <1>2, <1>3, <1>4, WFMin
<1>6. PICK x \in T : x <= t /\ b = 0..x BY <1>5
<1>7. ASSUME NEW y \in T PROVE x <= y
  <2> SUFFICES ASSUME y < x PROVE FALSE BY <1>6
  <2>1. 0..y \in below BY <1>1, <1>6, <1>7
  <2>2. 0..y \subseteq 0..x /\ 0..y # 0..x BY <1>6, <1>7
  <2> QED BY <2>1, <2>2, <1>2, <1>5, <1>6 DEF StrictSubsetOrdering
<1> QED BY <1>7

\* What the analysis is given of a capture.
LEMMA Shown ==
    ASSUME NEW f
    PROVE  LET c == Document(f) IN
           /\ c.expected = [i \in DOMAIN Plan |-> <<f.run, Plan[i]>>]
           /\ c.completed = f.completed /\ c.runtime.state = f.state
           /\ DOMAIN c.samples = DOMAIN f.samples
           /\ \A i \in DOMAIN f.samples :
                LET s == f.samples[i] IN
                /\ c.samples[i].id = <<f.run, s.of.block, s.of.attempt, s.read>>
                /\ c.samples[i].time = i /\ c.samples[i].error = ~(s.read /\ s.decoded)
                /\ c.samples[i].request = <<s.run, s.of.block>>
BY DEF Document, RequestId

\* The analysis counts as everybody does.
LEMMA SameCount == \A S : Analysis!Cardinality(S) = Cardinality(S)
BY DEF Analysis!Cardinality, Cardinality

\* Two samples the analysis takes for one are of one attempt and were read alike.
LEMMA AlikeRead ==
    ASSUME NEW f \in Documents, NEW j \in DOMAIN f.samples, NEW k \in DOMAIN f.samples,
           Analysis!Identity(Document(f).samples[j]) = Analysis!Identity(Document(f).samples[k])
    PROVE  /\ f.samples[j].read = f.samples[k].read
           /\ f.samples[j].of.block = f.samples[k].of.block
           /\ f.samples[j].of.attempt = f.samples[k].of.attempt
<1>1. PICK x, y : x = Document(f).samples[j] /\ y = Document(f).samples[k] OBVIOUS
<1>2. x.id = y.id
  <2>1. CASE x.id # None /\ y.id # None
    <3>1. <<"id", x.id>> = <<"id", y.id>> BY <1>1, <2>1 DEF Analysis!Identity
    <3> QED BY <3>1
  <2>2. CASE x.id = None /\ y.id # None
    <3>1. <<"time", x.time>> = <<"id", y.id>> BY <1>1, <2>2 DEF Analysis!Identity
    <3> QED BY <3>1
  <2>3. CASE x.id # None /\ y.id = None
    <3>1. <<"id", x.id>> = <<"time", y.time>> BY <1>1, <2>3 DEF Analysis!Identity
    <3> QED BY <3>1
  <2> QED BY <2>1, <2>2, <2>3
<1>3. /\ x.id = <<f.run, f.samples[j].of.block, f.samples[j].of.attempt, f.samples[j].read>>
      /\ y.id = <<f.run, f.samples[k].of.block, f.samples[k].of.attempt, f.samples[k].read>>
  BY <1>1, Shown
<1>4. /\ x.id[2] = f.samples[j].of.block /\ y.id[2] = f.samples[k].of.block
      /\ x.id[3] = f.samples[j].of.attempt /\ y.id[3] = f.samples[k].of.attempt
      /\ x.id[4] = f.samples[j].read /\ y.id[4] = f.samples[k].read
  BY <1>3
<1> QED BY <1>2, <1>4

\* A capture whose analysis raises no issue holds a sample of each block of the
\* plan and none of a failed read: the first of the samples taken for one counts,
\* and it stands for all of them.
LEMMA NoIssues ==
    ASSUME NEW f \in Documents, Issues(Document(f)) = {},
           \A i \in DOMAIN f.completed : f.completed[i][2] # None =>
               \E j \in DOMAIN f.samples : f.samples[j].of.block = f.completed[i][2]
    PROVE  Clean(f)
<1>1. PICK c : c = Document(f) OBVIOUS
<1>2. Covered(c) /\ Drained(c) /\ ~(Analysis!ErrorCount(c) > 0) BY <1>1 DEF Issues
<1>3. /\ c.expected = [i \in DOMAIN Plan |-> <<f.run, Plan[i]>>]
      /\ c.completed = f.completed /\ c.runtime.state = f.state
      /\ DOMAIN c.samples = DOMAIN f.samples
      /\ \A i \in DOMAIN f.samples :
            /\ c.samples[i].time = i
            /\ c.samples[i].error = ~(f.samples[i].read /\ f.samples[i].decoded)
            /\ c.samples[i].request = <<f.samples[i].run, f.samples[i].of.block>>
  BY <1>1, Shown
<1>4. f.state = "drained" BY <1>2, <1>3 DEF Drained, Analysis!RuntimeEvidence
<1>5. PICK n \in Nat : DOMAIN f.samples = 1..n
  <2>1. f.samples \in Seq([run : Nat, read : BOOLEAN, decoded : BOOLEAN, of : Requests]) BY DEF Documents
  <2> QED BY <2>1
<1>6. \A i \in Analysis!Unique(c.samples) : ~c.samples[i].error
  <2> DEFINE E == {i \in Analysis!Unique(c.samples) : c.samples[i].error}
  <2>1. E \subseteq 1..n BY <1>3, <1>5 DEF Analysis!Unique
  <2>2. Analysis!ErrorCount(c) = Cardinality(E)
    BY SameCount DEF Analysis!ErrorCount
  <2> HIDE DEF E
  <2>3. IsFiniteSet(1..n) BY FS_Interval
  <2>4. IsFiniteSet(E) BY <2>1, <2>3, FS_Subset
  <2>5. Cardinality(E) = 0
    <3>1. Cardinality(E) \in Nat BY <2>4, FS_CardinalityType
    <3>2. ~(Cardinality(E) > 0) BY <1>2, <2>2
    <3> QED BY <3>1, <3>2
  <2>6. E = {} BY <2>4, <2>5, FS_EmptySet
  <2> QED BY <2>6 DEF E
<1>7. ASSUME NEW j \in DOMAIN f.samples
      PROVE  f.samples[j].read /\ Counted(f.samples, j)
  <2> DEFINE T == {k \in DOMAIN f.samples :
                       Analysis!Identity(c.samples[k]) = Analysis!Identity(c.samples[j])}
  <2>1. PICK k \in T : \A m \in T : k <= m
    <3>1. T \subseteq Nat /\ T # {} BY <1>5, <1>7
    <3> HIDE DEF T
    <3> QED BY <3>1, Smallest
  <2>2. k \in Analysis!Unique(c.samples)
    <3> SUFFICES ASSUME NEW m \in DOMAIN f.samples, k # m,
                        Analysis!Identity(c.samples[m]) = Analysis!Identity(c.samples[k])
                 PROVE  c.samples[k].time < c.samples[m].time
      BY <1>3 DEF Analysis!Unique
    <3>1. m \in T BY <2>1
    <3>2. k <= m /\ k \in Nat /\ m \in Nat BY <1>5, <2>1, <3>1
    <3>3. k < m BY <3>2
    <3> QED BY <1>3, <2>1, <3>3
  <2>3. /\ f.samples[k].read = f.samples[j].read
        /\ f.samples[k].of.block = f.samples[j].of.block
        /\ f.samples[k].of.attempt = f.samples[j].of.attempt
    BY <1>1, <1>7, <2>1, AlikeRead
  <2>4. f.samples[k].read /\ f.samples[k].decoded BY <1>3, <1>6, <2>1, <2>2
  <2>5. k \in DOMAIN f.samples /\ k <= j BY <1>7, <2>1
  <2> QED BY <2>3, <2>4, <2>5 DEF Counted
<1>8. ASSUME NEW b \in Blocks PROVE \E j \in DOMAIN f.samples : f.samples[j].of.block = b
  <2>1. PICK i \in DOMAIN Plan : b = Plan[i] BY DEF Blocks
  <2>2. <<f.run, b>> \in Analysis!Elements(c.expected)
    BY <1>3, <2>1 DEF Analysis!Elements
  <2>3. <<f.run, b>> \in Analysis!ObservedRequests(c)
    BY <1>2, <2>2 DEF Covered, Analysis!BatchComplete, Analysis!RequestsComplete
  <2>4. CASE c.completed # None
    <3>1. PICK k \in DOMAIN f.completed : <<f.run, b>> = f.completed[k]
      BY <1>3, <2>3, <2>4 DEF Analysis!ObservedRequests, Analysis!Elements
    <3>2. f.completed[k][2] = b BY <3>1
    <3>3. b # None BY PlanFacts
    <3> QED BY <3>1, <3>2, <3>3
  <2>5. CASE c.completed = None
    <3>1. PICK j \in Analysis!Unique(c.samples) : <<f.run, b>> = c.samples[j].request
      BY <2>3, <2>5 DEF Analysis!ObservedRequests
    <3>2. j \in DOMAIN f.samples BY <1>3 DEF Analysis!Unique
    <3>3. <<f.run, b>> = <<f.samples[j].run, f.samples[j].of.block>> BY <1>3, <3>1, <3>2
    <3> QED BY <3>2, <3>3
  <2> QED BY <2>4, <2>5
<1> QED BY <1>4, <1>7, <1>8 DEF Clean

\* In a drained capture of the run r whose reads were all good, each block was
\* read once: no attempt followed the good one.
LEMMA CleanSingle ==
    ASSUME PublishedAttempts, file \in Documents, file # None, Clean(file)
    PROVE  Single(file, file.run)
<1> SUFFICES ASSUME NEW j \in DOMAIN file.samples, NEW k \in DOMAIN file.samples
             PROVE  /\ file.samples[j].of.run = file.run
                    /\ file.samples[j].of.block = file.samples[k].of.block => j = k
  BY DEF Single
<1>1. /\ \E n \in Nat : DOMAIN file.samples = 1..n
      /\ file.samples[j].of \in Requests
  <2> DEFINE R == [run : Nat, read : BOOLEAN, decoded : BOOLEAN, of : Requests]
  <2>1. file.samples \in Seq(R) BY DEF Documents
  <2>2. \A x \in R : x.of \in Requests OBVIOUS
  <2> HIDE DEF R
  <2>3. DOMAIN file.samples = 1..Len(file.samples) /\ Len(file.samples) \in Nat BY <2>1
  <2>4. file.samples[j] \in R BY <2>1
  <2> QED BY <2>2, <2>3, <2>4
<1>3. PICK b \in Blocks : b = file.samples[j].of.block BY <1>1 DEF Requests
<1>4. Attempted(b, file.samples, file.run) BY DEF PublishedAttempts, Clean
<1>5. PICK f, l \in DOMAIN file.samples :
        /\ f <= l
        /\ \A i \in DOMAIN file.samples :
              file.samples[i].of.block = b <=> f <= i /\ i <= l
        /\ \A i \in f..l :
              file.samples[i].of.run = file.run /\ (file.samples[i].read => i = l)
  BY <1>4 DEF Attempted
<1>6. j \in f..l BY <1>1, <1>3, <1>5
<1>7. f = l
  <2>1. f \in f..l BY <1>1, <1>5
  <2>2. file.samples[f].read BY <1>5 DEF Clean
  <2> QED BY <1>5, <2>1, <2>2
<1>8. file.samples[k].of.block = b => k \in f..l BY <1>1, <1>5
<1>9. file.samples[k].of.block = b => j = k BY <1>1, <1>6, <1>7, <1>8
<1> QED BY <1>3, <1>5, <1>6, <1>9

\* Whoever presses whatever: the flow writes its file or leaves it.
LEMMA FileStep == Next => file' = file \/ WriteCapture
BY DEF Next, Deliver, Trigger, Answer, WatchdogFires, ReadErrorLane, ResponseGate,
       Derive, TerminalGate, Handoff, Continue, Record, Sequence

\* What was found stays found while no capture is taken.
LEMMA FoundKept ==
    ASSUME Found, UNCHANGED <<taken, issues>>, triggers' = Started' => triggers = Started
    PROVE  Found'
BY DEF Found, Clean, Counted, Single

LEMMA JudgedFlow ==
    ASSUME Judged, Flow
    PROVE  Judged'
<1>1. /\ phase \in {"round", "waiting", "restoring"} /\ Next
      /\ fresh' = (fresh \/ WriteCapture)
      /\ UNCHANGED <<phase, deployed, taken, issues, report>>
  BY DEF Flow
<1>2. Rounded' BY RoundedFlow DEF Judged
<1>3. Typed /\ Captures /\ report # "passed" BY <1>1 DEF Judged
<1>4. Typed' /\ Captures' BY <1>1, <1>3, TypedStep, CapturesStep
<1>5. fresh' => file' # None BY <1>1, <1>3, FileStep, Written DEF Judged
<1>6. triggers' = Started' => triggers = Started
  <2>1. Started' = Started BY <1>1 DEF Started
  <2>2. Len(taken) \in Nat /\ triggers \in Nat BY DEF Judged, Rounded, IsSeq
  <2>3. Started \in Nat BY <2>2 DEF Started
  <2> QED BY <1>1, <2>1, <2>2, <2>3, FlowTriggers DEF Judged, Rounded
<1>7. Found' BY <1>1, <1>6, FoundKept DEF Judged
<1> QED BY <1>1, <1>2, <1>3, <1>4, <1>5, <1>7 DEF Judged

LEMMA JudgedStart ==
    ASSUME Judged, StartRound
    PROVE  Judged'
<1>1. /\ phase = "round" /\ phase' = "waiting" /\ fresh' = FALSE
      /\ triggers' = triggers + 1
      /\ UNCHANGED <<context, outside, limit, file, deployed, taken, issues, report>>
  BY DEF StartRound
<1>2. Rounded' BY RoundedStart DEF Judged
<1>3. Typed /\ Captures /\ report # "passed" BY <1>1 DEF Judged
<1>4. Typed' BY <1>3, TypedStart
<1>5. Captures' BY <1>1, <1>3, CapturesUnchanged DEF context
<1>6. triggers' = Started' => triggers = Started
  <2>1. Len(taken) \in Nat /\ triggers \in Nat BY DEF Judged, Rounded, IsSeq
  <2>2. Started = Len(taken) /\ Started' = Len(taken) + 1 BY <1>1, <2>1 DEF Started
  <2> QED BY <1>1, <2>1, <2>2
<1>7. Found' BY <1>1, <1>6, FoundKept DEF Judged
<1> QED BY <1>1, <1>2, <1>3, <1>4, <1>5, <1>7 DEF Judged

\* A round adds its capture to what was found.
LEMMA JudgedTake ==
    ASSUME Judged, TakeCapture
    PROVE  Judged'
<1>1. /\ phase = "waiting" /\ fresh /\ taken' = Append(taken, file)
      /\ issues' = issues \cup Issues(Document(file))
      /\ phase' = IF Len(taken') < Rounds THEN "round" ELSE "restoring"
      /\ UNCHANGED <<vars, deployed, fresh, report>>
  BY DEF TakeCapture
<1>2. Rounded' /\ IsSeq(taken) /\ Len(taken) < Rounds BY <1>1, RoundedTake DEF Judged, Rounded
<1>3. Typed /\ Captures /\ report # "passed" /\ file # None BY <1>1 DEF Judged
<1>4. Typed' /\ Captures' BY <1>1, <1>3, TypedStep, CapturesStep
<1>5. file \in Documents BY <1>3 DEF Typed, Recorded
<1> DEFINE n == Len(taken)
<1>6. /\ n \in Nat /\ DOMAIN taken' = DOMAIN taken \cup {n + 1}
      /\ taken'[n + 1] = file /\ \A i \in DOMAIN taken : taken'[i] = taken[i]
  BY <1>1, <1>2, Appended
<1>7. Len(taken') = n + 1 BY <1>1, <1>2 DEF IsSeq
<1>8. Started' = Started /\ Started = n + 1 /\ triggers' = triggers
  BY <1>1, <1>6, <1>7 DEF Started, vars
<1>9. Found'
  <2> SUFFICES ASSUME issues' = {}, NEW i \in DOMAIN taken'
               PROVE  Clean(taken'[i]) /\ (triggers' = Started' => Single(taken'[i], i))
    BY DEF Found, Clean, Counted, Single
  <2>1. issues = {} /\ Issues(Document(file)) = {} BY <1>1
  <2>2. CASE i \in DOMAIN taken BY <1>6, <1>8, <2>1, <2>2 DEF Judged, Found
  <2>3. CASE i = n + 1
    <3>1. Clean(file)
      BY <1>3, <1>5, <2>1, NoIssues DEF Captures, CompletedHasSample
    <3>2. ASSUME triggers = Started PROVE Single(file, n + 1)
      <4>1. InStep BY <1>1, <3>2 DEF Judged, Rounded
      <4>2. PublishedAttempts /\ OnDisk = n + 1 BY <1>1, <1>8, <3>2, <4>1 DEF InStep, Course
      <4>3. file.run = n + 1 BY <1>3, <4>2 DEF OnDisk
      <4> QED BY <1>3, <1>5, <3>1, <4>2, <4>3, CleanSingle
    <3> QED BY <1>6, <1>8, <2>3, <3>1, <3>2
  <2> QED BY <1>6, <2>2, <2>3
<1>10. /\ phase' \in {"ready", "round", "waiting"} => Len(taken') < Rounds
       /\ phase' = "restoring" => Len(taken') = Rounds
       /\ phase' \in {"round", "restoring"}
  <2>1. Rounds \in Nat BY RoundsAssumption
  <2>2. n + 1 <= Rounds BY <1>2, <1>6, <2>1
  <2> QED BY <1>1, <1>6, <1>7, <2>1, <2>2
<1> QED BY <1>1, <1>2, <1>3, <1>4, <1>9, <1>10 DEF Judged, vars

\* The campaign ends, and passes only if nothing was found and the flow that was
\* there before is back.
LEMMA JudgedOver ==
    ASSUME Judged, phase # "over", phase' = "over",
           UNCHANGED <<triggers, taken, issues, fresh, file>>,
           report' = "passed" =>
              phase = "restoring" /\ issues = {} /\ ~deployed' /\ wire' = {} /\ ~watch'
    PROVE  Judged'
<1>1. Rounded' BY RoundedOver DEF Judged
<1>2. triggers' = Started' => triggers = Started
  <2>1. Len(taken) \in Nat /\ triggers \in Nat BY DEF Judged, Rounded, IsSeq
  <2>2. Started' = Len(taken) BY DEF Started
  <2>3. Started = Len(taken) \/ Started = Len(taken) + 1 BY DEF Started
  <2>4. Started <= triggers BY DEF Judged, Rounded
  <2> QED BY <2>1, <2>2, <2>3, <2>4
<1>3. Found' BY <1>2, FoundKept DEF Judged
<1> QED BY <1>1, <1>3 DEF Judged

LEMMA JudgedStep == Judged /\ [CampaignNext]_allvars => Judged'
<1> SUFFICES ASSUME Judged, [CampaignNext]_allvars PROVE Judged'
  OBVIOUS
<1>0. Rounded' BY RoundedStep DEF Judged
<1>1. CASE Flow BY <1>1, JudgedFlow
<1>2. CASE StartRound BY <1>2, JudgedStart
<1>3. CASE TakeCapture BY <1>3, JudgedTake
<1>4. CASE Refuse
  BY <1>4, JudgedOver DEF Refuse, Preflights, vars
<1>5. CASE OriginalUnreadable BY <1>5, JudgedOver DEF OriginalUnreadable, vars
<1>6. ASSUME NEW ok \in BOOLEAN, Raise(ok) PROVE Judged'
  BY <1>6, JudgedOver DEF Raise
<1>7. ASSUME NEW ok \in BOOLEAN, NEW agree \in BOOLEAN, Restore(ok, agree) PROVE Judged'
  BY <1>7, JudgedOver DEF Restore, Redeploy
<1>8. CASE Deploy
  <2>1. /\ phase = "ready" /\ phase' = "round"
        /\ UNCHANGED <<vars, fresh, taken, issues, report>>
    BY <1>8 DEF Deploy
  <2>2. Typed' /\ Captures' BY <2>1, TypedStep, CapturesStep DEF Judged
  <2>3. Started' = Started /\ triggers' = triggers /\ file' = file BY <2>1 DEF Started, vars
  <2>4. Found' BY <2>1, <2>3, FoundKept DEF Judged
  <2> QED BY <1>0, <2>1, <2>2, <2>3, <2>4 DEF Judged
<1>9. CASE UNCHANGED allvars
  <2>1. UNCHANGED <<vars, phase, deployed, fresh, taken, issues, report>>
    BY <1>9 DEF allvars, harness
  <2>2. Started' = Started /\ UNCHANGED <<triggers, file, wire, watch>>
    BY <2>1 DEF Started, vars, outside
  <2>3. Found' BY <2>1, <2>2, FoundKept DEF Judged
  <2>4. phase' # "over" => Typed' /\ Captures'
    BY <2>1, TypedStep, CapturesStep DEF Judged
  <2> QED BY <1>0, <2>1, <2>2, <2>3, <2>4 DEF Judged
<1> QED
  BY <1>1, <1>2, <1>3, <1>4, <1>5, <1>6, <1>7, <1>8, <1>9 DEF CampaignNext, Campaign

LEMMA JudgedInit == CampaignInit => Judged
<1> SUFFICES ASSUME CampaignInit PROVE Judged
  OBVIOUS
<1>1. /\ Init /\ phase \in Preflights /\ fresh = FALSE /\ taken = <<>> /\ report = "none"
  BY DEF CampaignInit
<1>2. Rounded /\ Typed /\ Captures BY <1>1, RoundedInit, Initially
<1>3. Found BY <1>1, EmptyQueue DEF Found
<1>4. Len(taken) < Rounds BY <1>1, RoundsAssumption
<1> QED BY <1>1, <1>2, <1>3, <1>4 DEF Judged, Preflights

LEMMA JudgedEarned == Judged => PassedIsEarned
<1> SUFFICES ASSUME Judged, report = "passed" PROVE PassedIsEarned
  BY DEF PassedIsEarned
<1>1. /\ phase = "over" /\ issues = {} /\ Len(taken) = Rounds
      /\ ~deployed /\ wire = {} /\ ~watch /\ Found
  BY DEF Judged
<1>2. Started = Rounds
  <2>1. Rounds \in Nat BY RoundsAssumption
  <2> QED BY <1>1, <2>1 DEF Started
<1>3. \A i \in DOMAIN taken :
          Clean(taken[i]) /\ (triggers = Rounds => Single(taken[i], i))
  BY <1>1, <1>2 DEF Found
<1> QED BY <1>1, <1>3 DEF PassedIsEarned, Clean, Single

----------------------------------------------------------------------------
(* The theorems.                                                           *)

\* Every variable of the flow keeps its type, whatever the triggers, the
\* clients and the watchdog do: no request is made with an attempt beyond the
\* limit, and every sample and message names a read that was ordered.
THEOREM TypeCorrect == Spec => []TypeOK
<1>1. Init => Typed BY Initially
<1>2. Typed /\ [Next]_vars => Typed' BY TypedStep
<1>3. Typed => TypeOK BY DEF Typed
<1> QED BY <1>1, <1>2, <1>3, PTL DEF Spec

\* A capture on disk never mixes two runs, also when a start overtakes the
\* capture being built (the capture node of node_red.py).
THEOREM CaptureOfOneRunAlways == Spec => []CaptureOfOneRun
<1>1. Init => Typed /\ Captures BY Initially
<1>2. Typed /\ [Next]_vars => Typed' BY TypedStep
<1>3. Typed /\ Captures /\ [Next]_vars => Captures' BY CapturesStep
<1>4. Captures => CaptureOfOneRun BY DEF Captures
<1> QED BY <1>1, <1>2, <1>3, <1>4, PTL DEF Spec

\* A capture that lists a block as completed holds a sample of that block.
THEOREM CompletedHasSampleAlways == Spec => []CompletedHasSample
<1>1. Init => Typed /\ Captures BY Initially
<1>2. Typed /\ [Next]_vars => Typed' BY TypedStep
<1>3. Typed /\ Captures /\ [Next]_vars => Captures' BY CapturesStep
<1>4. Captures => CompletedHasSample BY DEF Captures
<1> QED BY <1>1, <1>2, <1>3, <1>4, PTL DEF Spec

\* In probe mode (a retry limit of 0) a block is asked at most once in a run,
\* whatever the operator clicks and whenever the answers come.
THEOREM ProbeReadsOnceAlways == Spec => []ProbeReadsOnce
<1>1. Init => Typed /\ Fresh /\ ProbeReadsOnce BY Initially
<1>2. Typed /\ [Next]_vars => Typed' BY TypedStep
<1>3. Typed /\ Fresh /\ ProbeReadsOnce /\ [Next]_vars => Fresh' /\ ProbeReadsOnce'
  BY FreshStep
<1> QED BY <1>1, <1>2, <1>3, PTL DEF Spec

\* The devices are never asked two things at once when a trigger waits for the
\* capture of the run before, for every plan, retry limit and fate of a read:
\* neither the two outputs of the read node nor the watchdog order a second one.
THEOREM OneInFlightAlways ==
    ASSUME Polling = FALSE
    PROVE  Spec => []OneInFlight
<1>1. Init => Typed /\ Quiet BY Initially
<1>2. Typed /\ [Next]_vars => Typed' BY TypedStep
<1>3. Typed /\ Quiet /\ [Next]_vars => Quiet' BY PatientNext, QuietStep
<1>4. Quiet => OneInFlight BY DEF Quiet
<1> QED BY <1>1, <1>2, <1>3, <1>4, PTL DEF Spec

\* What a drained capture says of every block of the plan, for every plan, retry
\* limit and fate of a read: the attempts 0, 1, ... of this run one after the
\* other, a new one only after a failure, given up only at the limit (the
\* sequencer's retry and the capture node of node_red.py).
THEOREM PublishedAttemptsAlways ==
    ASSUME Polling = FALSE
    PROVE  Spec => []PublishedAttempts
<1>1. Init => Typed /\ Quiet /\ Course BY Initially, CourseInit
<1>2. Typed /\ [Next]_vars => Typed' BY TypedStep
<1>3. Typed /\ Quiet /\ [Next]_vars => Quiet' BY PatientNext, QuietStep
<1>4. Typed /\ Quiet /\ Course /\ [Next]_vars => Course' BY PatientNext, CourseStep
<1>5. Course => PublishedAttempts BY DEF Course
<1> QED BY <1>1, <1>2, <1>3, <1>4, <1>5, PTL DEF Spec

\* The generated flow implements the run it promises: the blocks of the plan are
\* dealt with once each and in plan order, and one capture is published when all
\* are done, whatever comes late, twice or never.
THEOREM FlowImplementsRun ==
    ASSUME Polling = FALSE
    PROVE  Spec => ImplementsRun
<1>1. Init => Typed /\ Quiet /\ Course BY Initially, CourseInit
<1>2. Typed /\ [Next]_vars => Typed' BY TypedStep
<1>3. Typed /\ Quiet /\ [Next]_vars => Quiet' BY PatientNext, QuietStep
<1>4. Typed /\ Quiet /\ Course /\ [Next]_vars => Course' BY PatientNext, CourseStep
<1>5. Init => RunSpec!Init
  <2> SUFFICES ASSUME Init PROVE RunSpec!Init
    OBVIOUS
  <2>1. run = 0 /\ completed = <<>> /\ file = None BY DEF Init
  <2>2. Listed(completed) = <<>> BY <2>1 DEF Listed
  <2> QED BY <2>1, <2>2 DEF Listed, RunSpec!Init
<1>6. Typed /\ Quiet /\ Course /\ [Next]_vars => [RunSpec!Next]_(RunSpec!vars)
  BY RunStep
<1> QED
  BY <1>1, <1>2, <1>3, <1>4, <1>5, <1>6, PTL DEF Spec, ImplementsRun, RunSpec!Spec

\* As long as only the harness starts plans, each round is judged by the capture
\* of the run its own trigger started, for any number of rounds and whatever the
\* reads do: no capture counts twice and none is passed over (run_round).
THEOREM RoundsAreOwnAlways == CampaignSpec => []RoundsAreOwn
<1>1. CampaignInit => Rounded BY RoundedInit
<1>2. Rounded /\ [CampaignNext]_allvars => Rounded' BY RoundedStep
<1>3. Rounded => RoundsAreOwn BY DEF Rounded
<1> QED BY <1>1, <1>2, <1>3, PTL DEF CampaignSpec

\* A passed report is earned, for every plan, retry limit and number of rounds,
\* whatever is pressed, lost or late: each round has a capture of a plan that ran
\* to its end, with a sample of each block and none of a failed read, the first of
\* each block and attempt decoded, and the flow that was there before is back
\* (run_campaign, analyze_capture).
THEOREM PassedIsEarnedAlways == CampaignSpec => []PassedIsEarned
<1>1. CampaignInit => Judged BY JudgedInit
<1>2. Judged /\ [CampaignNext]_allvars => Judged' BY JudgedStep
<1>3. Judged => PassedIsEarned BY JudgedEarned
<1> QED BY <1>1, <1>2, <1>3, PTL DEF CampaignSpec
=============================================================================

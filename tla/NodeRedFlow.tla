----------------------------- MODULE NodeRedFlow -----------------------------
(***************************************************************************)
(* The run of one generated Node-RED flow: the function nodes that         *)
(* node_red.py writes into flow.json, wired as it wires them, over the     *)
(* flow context they share.  Node-RED delivers the messages between nodes  *)
(* in the order they were sent, one at a time: inbox is that queue and     *)
(* each action below is one node handling the message at its head.         *)
(* Outside the flow are the trigger (the operator, the five second poll or *)
(* the campaign harness), the Modbus client that answers each read in its  *)
(* own time, and the clock behind the watchdog; each of them appends to    *)
(* the queue whenever it likes.                                            *)
(***************************************************************************)
EXTENDS Naturals, Sequences, FiniteSets

CONSTANTS
    Plan,           \* the read blocks, in the order of the compiled plan
    RetryLimits,    \* 0 in probe mode, 1 in final mode
    None,           \* JavaScript's null and undefined
    Commands,       \* payload.action of the triggers: "start", "cancel"
    Outcomes,       \* of a read: "good", "odd", "short", "failed", "lost"; "odd"
                    \* is complete and valid, but a value of it cannot be decoded
    Polling,        \* a trigger may arrive while a plan is running
    MaxTriggers     \* bound: triggers sent

ASSUME PlanAssumption ==
    /\ Plan \in Seq({Plan[i] : i \in DOMAIN Plan} \ {None})
    /\ \A i, j \in DOMAIN Plan : Plan[i] = Plan[j] => i = j
ASSUME LimitAssumption == RetryLimits \subseteq Nat
ASSUME CommandsAssumption == Commands \subseteq {"start", "cancel"}

VARIABLES
    running, queue, active, run, samples, completed, \* the flow context
    limit,          \* retryLimit, written into the flow at build time
    inbox,          \* messages on their way between nodes
    wire,           \* reads the Modbus clients have not answered
    watch,          \* the watchdog's timer is armed
    file,           \* the capture document last written
    sent,           \* history: every read ordered so far
    triggers        \* history: how many triggers were sent

context == <<running, queue, active, run, samples, completed>>
outside == <<wire, watch, sent>>
vars == <<context, outside, limit, inbox, file, triggers>>

Blocks == {Plan[i] : i \in DOMAIN Plan}

\* no and run are history: the flow compares and reports block and attempt only.
Requests == [no : Nat \ {0}, run : Nat, block : Blocks, attempt : Nat]

\* The capture documents the flow may write.
Documents ==
    [run : Nat, state : {"drained", "cancelled"},
     completed : Seq(Nat \X (Blocks \cup {None})),
     samples : Seq([run : Nat, read : BOOLEAN, decoded : BOOLEAN, of : Requests])]

ASSUME NoneAssumption == None \notin Requests \cup Documents

Msg(to, body, req) == [to |-> to, body |-> body, req |-> req]

Arrived(node) == inbox # <<>> /\ Head(inbox).to = node
Body == Head(inbox).body
Req == Head(inbox).req
Emit(msgs) == inbox' = Tail(inbox) \o msgs

\* What Derive makes of an answer: a read has ended with it, decoded or not.
Derived == {"points", "undecoded"}

TypeOK ==
    /\ running \in BOOLEAN /\ watch \in BOOLEAN
    /\ queue \in Seq(Blocks)
    /\ active \in Blocks \cup {None}
    /\ run \in Nat /\ triggers \in Nat /\ limit \in RetryLimits
    /\ sent \subseteq Requests /\ wire \subseteq sent
    /\ \A q \in sent : q.attempt <= limit
    /\ \A i \in DOMAIN inbox : inbox[i].req \in sent \cup {None}
    /\ \A i \in DOMAIN samples :
        /\ samples[i].of \in sent /\ samples[i].run = run
        /\ samples[i].read \in BOOLEAN /\ samples[i].decoded \in BOOLEAN
    /\ completed \in Seq((0 .. run) \X (Blocks \cup {None}))

Init ==
    /\ running = FALSE /\ queue = <<>> /\ active = None
    /\ run = 0 /\ samples = <<>> /\ completed = <<>>
    /\ limit \in RetryLimits
    /\ inbox = <<>> /\ wire = {} /\ watch = FALSE
    /\ file = None /\ sent = {} /\ triggers = 0

----------------------------------------------------------------------------
(* The world outside the flow. *)

\* The capture of the run started last is on disk: what the harness waits for.
Published == run = 0 \/ (file # None /\ file.run = run)

\* An inject node fires, by hand or every five seconds; the harness triggers
\* again only when it has read the capture of the run it triggered before.
Trigger(command) ==
    /\ Polling \/ (run = triggers /\ Published)
    /\ triggers < MaxTriggers
    /\ triggers' = triggers + 1
    /\ inbox' = Append(inbox, Msg("sequencer", command, None))
    /\ UNCHANGED <<context, outside, limit, file>>

\* The read node sends its two outputs, the second to the read error lane; a
\* failed read leaves by both (emptyMsgOnFail).
Answer(q, outcome) ==
    /\ q \in wire
    /\ wire' = wire \ {q}
    /\ inbox' = IF outcome = "lost" THEN inbox
                ELSE inbox \o <<Msg("response-gate", outcome, q),
                                Msg("read-error", outcome, q)>>
    /\ UNCHANGED <<context, limit, watch, file, sent, triggers>>

WatchdogFires ==
    /\ watch
    /\ watch' = FALSE
    /\ inbox' = Append(inbox, Msg("terminal-gate", "timeout", None))
    /\ UNCHANGED <<context, limit, wire, file, sent, triggers>>

----------------------------------------------------------------------------
(* The function nodes of the read path. *)

ReadErrorLane ==
    /\ Arrived("read-error")
    /\ Emit(IF Body = "failed" THEN <<Msg("terminal-gate", "failed", Req)>> ELSE <<>>)
    /\ UNCHANGED <<context, outside, limit, file, triggers>>

\* Only a complete answer with valid values goes on to be decoded.
ResponseGate ==
    /\ Arrived("response-gate")
    /\ Emit(IF Body \in {"good", "odd"} THEN <<Msg("derive", Body, Req)>>
            ELSE <<Msg("terminal-gate", "failed", Req)>>)
    /\ UNCHANGED <<context, outside, limit, file, triggers>>

\* A value that cannot be decoded is an error of its point, not of the read.
Derive ==
    /\ Arrived("derive")
    /\ Emit(<<Msg("terminal-gate", IF Body = "good" THEN "points" ELSE "undecoded", Req)>>)
    /\ UNCHANGED <<context, outside, limit, file, triggers>>

\* Faulty variant: any failure passes, whichever read is active.
TerminalGateAnyFailure ==
    /\ Arrived("terminal-gate")
    /\ IF Body = "failed" \/ (Body \in Derived /\ Req.block = active)
       THEN active' = None /\ Emit(<<Msg("handoff", Body, Req)>>)
       ELSE active' = active /\ Emit(<<>>)
    /\ UNCHANGED <<running, queue, run, samples, completed, outside, limit, file, triggers>>

\* The first end of the active read passes and closes it; the watchdog's
\* {state: 'timeout'} is neither a failure nor points and does not.
TerminalGate ==
    /\ Arrived("terminal-gate")
    /\ IF Body \in {"failed"} \cup Derived /\ Req.block = active
       THEN active' = None /\ Emit(<<Msg("handoff", Body, Req)>>)
       ELSE active' = active /\ Emit(<<>>)
    /\ UNCHANGED <<running, queue, run, samples, completed, outside, limit, file, triggers>>

\* Resets the watchdog, then hands the message to the capture node.
Handoff ==
    /\ Arrived("handoff")
    /\ watch' = FALSE
    /\ Emit(<<Msg("capture", Body, Req)>>)
    /\ UNCHANGED <<context, limit, wire, file, sent, triggers>>

\* Faulty variant: only "next" goes back to the sequencer.
ContinueNextOnly ==
    /\ Arrived("continue")
    /\ Emit(IF Body = "next" THEN <<Msg("sequencer", Body, Req)>> ELSE <<>>)
    /\ UNCHANGED <<context, outside, limit, file, triggers>>

Continue ==
    /\ Arrived("continue")
    /\ Emit(<<Msg("sequencer", Body, Req)>>)
    /\ UNCHANGED <<context, outside, limit, file, triggers>>

----------------------------------------------------------------------------
(* The capture node, which also receives every status of the sequencer. *)

WriteCapture ==
    /\ Arrived("capture") /\ Body \in {"drained", "cancelled"}
    /\ file' = [run |-> run, state |-> Body, completed |-> completed, samples |-> samples]
    /\ Emit(<<>>)
    /\ UNCHANGED <<context, outside, limit, triggers>>

\* Faulty variant: a block is retried whether or not it was read.
RecordRetryingAll ==
    /\ Arrived("capture") /\ Body \notin {"drained", "cancelled"}
    /\ LET retry == Req # None /\ Req.attempt < limit
       IN  /\ samples' = IF Req = None THEN samples
                         ELSE Append(samples, [run |-> run, read |-> Body \in Derived,
                                               decoded |-> Body # "undecoded", of |-> Req])
           /\ completed' = IF retry \/ Req = None THEN completed
                           ELSE Append(completed, <<run, Req.block>>)
           /\ Emit(<<Msg("continue", IF retry THEN "retry" ELSE "next", Req)>>)
    /\ active' = None
    /\ UNCHANGED <<running, queue, run, outside, limit, file, triggers>>

\* One sample per point of the request (one stands for all); a message with
\* no request has no points, and counts as a failed attempt 0 of no block.  A
\* value that was read and not decoded is published as an error, not read again.
Record ==
    /\ Arrived("capture") /\ Body \notin {"drained", "cancelled"}
    /\ LET read == Body \in Derived
           attempt == IF Req = None THEN 0 ELSE Req.attempt
           id == <<run, IF Req = None THEN None ELSE Req.block>>
           retry == ~read /\ attempt < limit
       IN  /\ samples' = IF Req = None THEN samples
                         ELSE Append(samples, [run |-> run, read |-> read,
                                               decoded |-> Body # "undecoded", of |-> Req])
           /\ completed' = IF retry \/ \E i \in DOMAIN completed : completed[i] = id
                           THEN completed ELSE Append(completed, id)
           /\ Emit(<<Msg("continue", IF retry THEN "retry" ELSE "next", Req)>>)
    /\ active' = None
    /\ UNCHANGED <<running, queue, run, outside, limit, file, triggers>>

----------------------------------------------------------------------------
(* The sequencer. *)

\* Every status message goes to the capture node as well as to the debug pane.
Status(body) ==
    /\ Emit(<<Msg("capture", body, None)>>)
    /\ UNCHANGED outside

Finalize(state) ==
    /\ running' = FALSE /\ queue' = <<>> /\ active' = None
    /\ Status(state)

\* send(): order one read, unless one is active.
Send(block, attempt, now) ==
    IF now # None
    THEN active' = now /\ Status("in-flight")
    ELSE LET q == [no |-> Cardinality(sent) + 1, run |-> run',
                   block |-> block, attempt |-> attempt]
         IN  /\ active' = block
             /\ wire' = wire \cup {q}
             /\ sent' = sent \cup {q}
             /\ watch' = TRUE
             /\ Emit(<<>>)

\* next(): the block at the head of the queue, or the end of the run.
NextBlock(blocks, now, on) ==
    IF blocks = <<>>
    THEN Finalize("drained")
    ELSE queue' = Tail(blocks) /\ running' = on /\ Send(Head(blocks), 0, now)

\* Faulty variant: the samples of the last run stay in the flow context.
StartKeepingSamples ==
    /\ Body = "start" /\ ~running
    /\ run' = run + 1 /\ samples' = samples /\ completed' = <<>>
    /\ NextBlock(Plan, None, TRUE)

\* Faulty variant: the completed ids of the last run stay in the flow context.
StartKeepingCompleted ==
    /\ Body = "start" /\ ~running
    /\ run' = run + 1 /\ samples' = <<>> /\ completed' = completed
    /\ NextBlock(Plan, None, TRUE)

StartPlan ==
    /\ Body = "start" /\ ~running
    /\ run' = run + 1 /\ samples' = <<>> /\ completed' = <<>>
    /\ NextBlock(Plan, None, TRUE)

StartRefused ==
    /\ Body = "start" /\ running
    /\ Status("already-running")
    /\ UNCHANGED context

Cancel ==
    /\ Body = "cancel"
    /\ Finalize("cancelled")
    /\ UNCHANGED <<run, samples, completed>>

Retry ==
    /\ Body = "retry"
    /\ UNCHANGED <<run, samples, completed>>
    /\ IF Req = None \/ Req.attempt + 1 > limit
       THEN NextBlock(queue, active, running)
       ELSE Send(Req.block, Req.attempt + 1, active) /\ UNCHANGED <<running, queue>>

Advance ==
    /\ Body = "next"
    /\ UNCHANGED <<run, samples, completed>>
    /\ NextBlock(queue, active, running)

Sequence ==
    /\ Arrived("sequencer")
    /\ StartPlan \/ StartRefused \/ Cancel \/ Retry \/ Advance
    /\ UNCHANGED <<limit, file, triggers>>

----------------------------------------------------------------------------
(* Node-RED runs the queue down, and every read is answered or lost. *)

Deliver ==
    \/ ReadErrorLane \/ ResponseGate \/ Derive \/ TerminalGate
    \/ Handoff \/ Continue \/ WriteCapture \/ Record \/ Sequence

Next ==
    \/ Deliver
    \/ \E c \in Commands : Trigger(c)
    \/ \E q \in wire, o \in Outcomes : Answer(q, o)
    \/ WatchdogFires

Spec == Init /\ [][Next]_vars

\* Node-RED's event loop keeps delivering, the Modbus client ends every read it
\* was given one way or another, and the watchdog's timer runs out.
Fairness ==
    /\ WF_vars(Deliver)
    /\ WF_vars(\E q \in wire, o \in Outcomes : Answer(q, o))
    /\ WF_vars(WatchdogFires)

FairSpec == Spec /\ Fairness

----------------------------------------------------------------------------
(* What must hold when a plan is started only once the capture of the run   *)
(* before it is on disk (Polling = FALSE).                                  *)

\* The devices are never asked two things at once: one request in flight.
AtMostOneRead == \A q1, q2 \in wire : q1 = q2

\* One read at a time, and it is the read the flow waits for.  A failure
\* reported by both outputs of the read node, or a watchdog that runs out
\* during a slow read, must not order another.
OneInFlight == AtMostOneRead /\ \A q \in wire : active = q.block

\* The samples s of run r hold the answers to the attempts 0, 1, ... at block b,
\* one after the other: the last one read or the limit reached, no other read.
Attempted(b, s, r) ==
    \E f, l \in DOMAIN s :
        /\ f <= l /\ \A i \in DOMAIN s : s[i].of.block = b <=> f <= i /\ i <= l
        /\ \A i \in f..l :
            /\ s[i].run = r /\ s[i].of.run = r
            /\ s[i].of.attempt = i - f
            /\ s[i].read => i = l
        /\ s[l].read \/ l - f = limit

\* A block is asked again only when the attempt before it failed, and given up
\* only when it failed limit + 1 times: a drained capture holds all attempts at
\* every block of the plan.  An answer ends the attempts, decoded or not.
PublishedAttempts ==
    file # None /\ file.state = "drained" =>
        \A b \in Blocks : Attempted(b, file.samples, file.run)

\* Every plan that is started ends with a capture, however the reads end.
Drains == running ~> Published

\* The flow is a run of the plan: blocks in plan order, one capture each run.
RunSpec == INSTANCE ReadPlanRun WITH
    done <- [i \in DOMAIN completed |-> completed[i][2]],
    published <- IF file = None THEN 0 ELSE file.run
ImplementsRun == RunSpec!Spec

----------------------------------------------------------------------------
(* What must hold whenever the triggers come and whatever is lost.          *)

\* In probe mode a block is read at most once in a run, whatever the operator
\* clicks: the probe makes one physical attempt per block.
ProbeReadsOnce ==
    \A q1, q2 \in sent :
        limit = 0 /\ q1.run = q2.run /\ q1.block = q2.block => q1 = q2

\* A capture never mixes two runs: all its request ids carry the id of the
\* capture itself, also when a start overtakes the capture being built.
CaptureOfOneRun ==
    file # None =>
        /\ \A i \in DOMAIN file.samples : file.samples[i].run = file.run
        /\ \A i \in DOMAIN file.completed : file.completed[i][1] = file.run

\* A capture that lists a block as completed holds a sample of that block.
CompletedHasSample ==
    file # None =>
        \A i \in DOMAIN file.completed :
            file.completed[i][2] # None =>
                \E j \in DOMAIN file.samples :
                    file.samples[j].of.block = file.completed[i][2]

====

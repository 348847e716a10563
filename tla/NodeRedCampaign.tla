--------------------------- MODULE NodeRedCampaign ---------------------------
(***************************************************************************)
(* The live campaign: run_node_red_live_campaign.py deploys a generated    *)
(* flow to a local Node-RED, starts its plan once a round, waits for the   *)
(* capture file to change, has every capture analysed, puts the flow that  *)
(* was there before back and reports.  The flow itself is NodeRedFlow,     *)
(* step by step; the harness polls beside it, and someone with the editor  *)
(* open may press the flow's buttons meanwhile.                            *)
(***************************************************************************)
EXTENDS NodeRedFlow, SequencesExt

CONSTANTS
    Rounds,         \* budget.rounds of the contract
    UnitOf,         \* the Modbus unit of each block
    MaxPresses      \* bound: plans started or cancelled by hand

ASSUME RoundsAssumption == Rounds \in Nat \ {0}

VARIABLES
    phase,          \* where run_campaign is
    deployed,       \* the generated flow is the one Node-RED runs
    fresh,          \* the capture file's mtime is not previous_mtime
    taken,          \* the captures read so far, one a round
    issues,         \* what their analysis found
    report          \* the report's status

harness == <<phase, deployed, fresh, taken, issues, report>>
allvars == <<vars, harness>>

Analysis == INSTANCE CaptureAnalysis WITH Absent <- None

\* The first thing that keeps a campaign from starting, or "ready".
Preflights == {"unauthorized", "no-runtime", "not-configured", "no-hashes", "unfit", "ready"}

CampaignInit ==
    /\ Init
    /\ phase \in Preflights
    /\ deployed = FALSE /\ fresh = FALSE
    /\ taken = <<>> /\ issues = {} /\ report = "none"

----------------------------------------------------------------------------
(* The capture document the flow writes, and what the harness makes of it.  *)

\* The plans the harness has started.
Started == Len(taken) + (IF phase = "waiting" THEN 1 ELSE 0)

RequestId(r, b) == <<r, b>>

\* The flow writes queue_depth 0 and max_in_flight 1 whatever happened.
Document(f) ==
    [expected |-> [i \in DOMAIN Plan |-> RequestId(f.run, Plan[i])],
     units |-> SetToSeq({UnitOf[b] : b \in Blocks}),
     completed |-> f.completed,
     samples |-> [i \in DOMAIN f.samples |->
        LET s == f.samples[i] IN
        [point |-> s.of.block, id |-> <<f.run, s.of.block, s.of.attempt, s.read>>, time |-> i,
         request |-> RequestId(s.run, s.of.block), unit |-> UnitOf[s.of.block],
         error |-> ~(s.read /\ s.decoded)]],
     runtime |-> [state |-> f.state, depth |-> 0, flight |-> 1]]

Drained(c) ==
    LET e == Analysis!RuntimeEvidence(c)
    IN  e.valid /\ e.state = "drained" /\ e.depth = 0 /\ e.flight = 1

\* Faulty variant: how many requests completed is counted, not which.
CoveredByCount(c) == Cardinality(Analysis!ObservedRequests(c)) = Len(Plan)

Covered(c) ==
    /\ Cardinality(Analysis!ObservedRequests(c)) = Len(Plan)
    /\ Analysis!BatchComplete(c)

\* The issue codes one round adds to the report.
Issues(c) ==
    {code \in {"planned-requests-missing", "node-red-queue-not-drained",
               "node-red-read-errors"} :
        \/ code = "planned-requests-missing" /\ ~Covered(c)
        \/ code = "node-red-queue-not-drained" /\ ~Drained(c)
        \/ code = "node-red-read-errors" /\ Analysis!ErrorCount(c) > 0}

----------------------------------------------------------------------------
(* run_campaign, NodeRedAdminClient.campaign_session and run_round.         *)

\* The checks before the session; none of them touches Node-RED.
Refuse ==
    /\ phase \in Preflights \ {"ready"}
    /\ phase' = "over"
    /\ report' = CASE phase = "not-configured" -> "not-run"
                   [] phase = "unfit" -> "failed"
                   [] OTHER -> "blocked"
    /\ UNCHANGED <<vars, deployed, fresh, taken, issues>>

\* flows() raises: nothing was deployed, nothing is to be restored.
OriginalUnreadable ==
    /\ phase = "ready"
    /\ phase' = "over" /\ report' = "failed"
    /\ UNCHANGED <<vars, deployed, fresh, taken, issues>>

Deploy ==
    /\ phase = "ready"
    /\ phase' = "round" /\ deployed' = TRUE
    /\ UNCHANGED <<vars, fresh, taken, issues, report>>

\* Faulty variant: previous_mtime is read once, before the first round.
StartRoundOnce ==
    /\ phase = "round"
    /\ fresh' = fresh
    /\ triggers' = triggers + 1
    /\ inbox' = Append(inbox, Msg("sequencer", "start", None))
    /\ phase' = "waiting"
    /\ UNCHANGED <<context, outside, limit, file, deployed, taken, issues, report>>

\* The file's mtime is read, then the inject node is triggered.
StartRound ==
    /\ phase = "round"
    /\ fresh' = FALSE
    /\ triggers' = triggers + 1
    /\ inbox' = Append(inbox, Msg("sequencer", "start", None))
    /\ phase' = "waiting"
    /\ UNCHANGED <<context, outside, limit, file, deployed, taken, issues, report>>

\* A changed file is read and analysed.
TakeCapture ==
    /\ phase = "waiting" /\ fresh
    /\ taken' = Append(taken, file)
    /\ issues' = issues \cup Issues(Document(file))
    /\ phase' = IF Len(taken') < Rounds THEN "round" ELSE "restoring"
    /\ UNCHANGED <<vars, deployed, fresh, report>>

\* Deploying the original flow stops every node of the campaign's: its
\* messages, its timers and its context go with it.
Redeploy ==
    /\ deployed' = FALSE
    /\ inbox' = <<>> /\ wire' = {} /\ watch' = FALSE
    /\ running' = FALSE /\ queue' = <<>> /\ active' = None

\* A request failed, the simulator is gone or the time budget is spent: the
\* session is left at once, and its finally clause deploys the original flow,
\* if it can.
Raise(ok) ==
    /\ phase \in {"ready", "round", "waiting"}
    /\ IF ok THEN Redeploy
       ELSE UNCHANGED <<deployed, inbox, wire, watch, running, queue, active>>
    /\ phase' = "over" /\ report' = "failed"
    /\ UNCHANGED <<run, samples, completed, limit, file, sent, triggers,
                   fresh, taken, issues>>

\* Faulty variant: the report is judged before the session is closed.
RestoreIgnored(ok, agree) ==
    /\ phase = "restoring"
    /\ IF ok THEN Redeploy
       ELSE UNCHANGED <<deployed, inbox, wire, watch, running, queue, active>>
    /\ phase' = "over"
    /\ report' = IF agree /\ issues = {} THEN "passed" ELSE "failed"
    /\ UNCHANGED <<run, samples, completed, limit, file, sent, triggers,
                   fresh, taken, issues>>

\* The last round is over; the report passes only if the original flow is back.
\* agree: in no round did the words read differ from the simulator's; a
\* difference is only collected until now.
Restore(ok, agree) ==
    /\ phase = "restoring"
    /\ IF ok THEN Redeploy
       ELSE UNCHANGED <<deployed, inbox, wire, watch, running, queue, active>>
    /\ phase' = "over"
    /\ report' = IF ok /\ agree /\ issues = {} THEN "passed" ELSE "failed"
    /\ UNCHANGED <<run, samples, completed, limit, file, sent, triggers,
                   fresh, taken, issues>>

Campaign ==
    \/ Refuse \/ OriginalUnreadable \/ Deploy
    \/ StartRound
    \/ TakeCapture
    \/ \E ok \in BOOLEAN : Raise(ok)
    \/ \E ok, agree \in BOOLEAN : Restore(ok, agree)

\* The flow, its clients and whoever presses its buttons, until the harness ends.
Flow ==
    /\ phase \in {"round", "waiting", "restoring"}
    /\ Next
    /\ triggers' - Started <= MaxPresses
    /\ fresh' = (fresh \/ WriteCapture)
    /\ UNCHANGED <<phase, deployed, taken, issues, report>>

CampaignNext == Campaign \/ Flow

CampaignSpec == CampaignInit /\ [][CampaignNext]_allvars

----------------------------------------------------------------------------

\* A sample like j, j itself or one before it, was decoded.
Counted(s, j) ==
    \E k \in DOMAIN s :
        /\ k <= j /\ s[k].decoded
        /\ s[k].of.block = s[j].of.block /\ s[k].of.attempt = s[j].of.attempt

\* A passed report is earned: every round has a capture of a plan that ran to
\* its end, with a sample of each block and none of a failed read, whatever was
\* pressed, lost or late meanwhile, and the flow that was there before is back
\* with nothing of the campaign on the wire.  Of the samples that share a block
\* and an attempt the first was decoded: its id stands for all.  If nobody
\* pressed anything, each block has one sample, read in that round (run_campaign).
PassedIsEarned ==
    report = "passed" =>
        /\ Len(taken) = Rounds
        /\ ~deployed /\ wire = {} /\ ~watch
        /\ \A i \in DOMAIN taken :
            LET s == taken[i].samples IN
            /\ taken[i].state = "drained"
            /\ \A j \in DOMAIN s : s[j].read /\ Counted(s, j)
            /\ \A b \in Blocks : \E j \in DOMAIN s : s[j].of.block = b
            /\ triggers = Rounds =>
                \A j, k \in DOMAIN s :
                    s[j].of.run = i /\ (s[j].of.block = s[k].of.block => j = k)

\* No capture counts for two rounds as long as only the harness starts plans:
\* each round is judged by the run its own trigger started (run_round).
RoundsAreOwn ==
    triggers = Started => \A i \in DOMAIN taken : taken[i].run = i

=============================================================================

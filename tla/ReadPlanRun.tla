----------------------------- MODULE ReadPlanRun -----------------------------
(***************************************************************************)
(* What a generated Node-RED flow promises the engineer who presses its    *)
(* start button: the blocks of the read plan are dealt with one at a time  *)
(* and in plan order, and one capture document is published, when all of   *)
(* them are done.                                                          *)
(***************************************************************************)
EXTENDS Naturals, Sequences

CONSTANT Plan           \* the compiled read blocks, in the order of the plan

VARIABLES run,          \* the number of the current run, 0 before the first
          done,         \* the blocks dealt with in it, in order
          published     \* the run whose capture was published last

vars == <<run, done, published>>

Init == run = 0 /\ done = <<>> /\ published = 0

Start ==
    /\ published = run
    /\ run' = run + 1
    /\ done' = <<>>
    /\ UNCHANGED published

Finish ==
    /\ published # run
    /\ Len(done) < Len(Plan)
    /\ done' = Append(done, Plan[Len(done) + 1])
    /\ UNCHANGED <<run, published>>

Publish ==
    /\ published # run
    /\ done = Plan
    /\ published' = run
    /\ UNCHANGED <<run, done>>

Next == Start \/ Finish \/ Publish

Spec == Init /\ [][Next]_vars

====

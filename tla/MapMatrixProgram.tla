-------------------------- MODULE MapMatrixProgram --------------------------
(***************************************************************************)
(* The map-matrix program: a pool of workers that take maps from the queue *)
(* in program.json, run the pipeline on each and record how it ended, and  *)
(* the script that starts the pool (run_pool.sh), or starts it round after *)
(* round until every map is perfect (run_until_clear.sh).                  *)
(*                                                                         *)
(* claim and finish load program.json, change it in memory and save it     *)
(* while they hold program.lock; the kernel releases the lock of a process *)
(* that dies.  save truncates the file before it writes it, so a death in  *)
(* between leaves a file that nothing can load.  A worker dies together    *)
(* with the pipeline it runs, and the script itself does not die.  Times,  *)
(* history, branches and pull requests are left out.                       *)
(***************************************************************************)
EXTENDS Naturals

CONSTANTS
    Maps,           \* maps, numbered in the order of the manifest
    Workers,
    Drivers,        \* "pool" (run_pool.sh), "until-clear" (run_until_clear.sh)
    MaxRounds,      \* budgets.max_rounds
    ImproveCap,     \* budgets.improve_max_per_round
    MaxDeaths,      \* bound: workers that die
    None,           \* no map, worker or receipt
    Unreadable      \* program.json missing, or cut short by a death in save

Done == {"passed", "pr_opened"}
Statuses == Done \cup {"pending", "running", "failed"}
Programs == [status : [Maps -> Statuses], by : [Maps -> Workers \cup {None}],
             overall : {"armed", "running", "complete"}]
Receipts == {None, "perfect", "imperfect"}

Steps == {"claim", "claiming", "run", "running", "improve", "finish", "finishing",
          "exited", "dead"}
Busy == {"run", "running", "improve", "finish", "finishing"}
Locked == {"claiming", "finishing"}
Gone == {"exited", "dead"}

Phases == {"new", "pool", "check", "improving", "clear", "stopped", "done", "aborted"}
Final == {"clear", "stopped", "done", "aborted"}

ASSUME MapsAssumption == Maps \subseteq Nat
ASSUME BoundsAssumption ==
    MaxRounds \in Nat \ {0} /\ ImproveCap \in Nat /\ MaxDeaths \in Nat
ASSUME DriversAssumption == Drivers \subseteq {"pool", "until-clear"}
ASSUME NoneAssumption ==
    /\ None \notin Maps /\ None \notin Workers /\ None \notin {"perfect", "imperfect"}
    /\ Unreadable \notin Programs

VARIABLES
    driver,         \* which script runs
    phase,          \* where that script is
    round,          \* its round, and that of program.json
    todo,           \* maps it has still to improve in this round
    improved,       \* improvements that succeeded in this round
    program,        \* program.json, or Unreadable
    receipt,        \* artifacts/<map>/receipt.json: none, perfect or not
    lock,           \* the worker that holds program.lock, or None
    pc,             \* per worker, the step of run_one_worker.sh
    copy,           \* per worker, the program it loaded
    map,            \* per worker, the map it claimed
    again,          \* per worker, the pipeline runs again after an improvement
    verdict,        \* per worker, the status it is going to record
    deaths          \* bound: how many workers died

script == <<driver, phase, round, todo, improved>>
worker == <<pc, copy, map, again, verdict>>
vars == <<script, program, receipt, lock, worker, deaths>>

Init ==
    /\ driver \in Drivers /\ phase = "new" /\ round = 1
    /\ todo = {} /\ improved = 0
    /\ program = Unreadable
    /\ receipt \in [Maps -> Receipts]
    /\ lock = None
    /\ pc = [w \in Workers |-> "exited"]
    /\ copy = [w \in Workers |-> Unreadable]
    /\ map = [w \in Workers |-> None]
    /\ again = [w \in Workers |-> FALSE]
    /\ verdict = [w \in Workers |-> "failed"]
    /\ deaths = 0

----------------------------------------------------------------------------
(* program_ctl.py: what claim and finish make of the program they loaded. *)

Pending(p) == {m \in Maps : p.status[m] = "pending"}
First(S) == {m \in S : \A k \in S : m <= k}

Claimed(p, m, w) ==
    [status |-> [p.status EXCEPT ![m] = "running"], by |-> [p.by EXCEPT ![m] = w],
     overall |-> "running"]

\* Faulty variant: a map that failed goes back into the queue.
FinishedAgain(p, m, s) ==
    [p EXCEPT !.status[m] = IF s = "failed" THEN "pending" ELSE s]

Finished(p, m, s) ==
    LET status == [p.status EXCEPT ![m] = s]
        open == {k \in Maps : status[k] \in {"pending", "running"}}
    IN  [status |-> status, by |-> p.by,
         overall |-> IF open = {} THEN "complete" ELSE p.overall]

----------------------------------------------------------------------------
(* run_one_worker.sh: one worker's loop. *)

Goto(w, step) == pc' = [pc EXCEPT ![w] = step]

\* claim or finish returns, or its process dies.
Unlock(w) ==
    /\ lock' = IF lock = w THEN None ELSE lock
    /\ copy' = [copy EXCEPT ![w] = Unreadable]

\* The shell variables of an iteration are of no use after it.
Forget(w) ==
    /\ map' = [map EXCEPT ![w] = None]
    /\ again' = [again EXCEPT ![w] = FALSE]
    /\ verdict' = [verdict EXCEPT ![w] = "failed"]

\* Faulty variant: the lock file is opened but not locked.
LoadUnlocked(w) ==
    /\ pc[w] \in {"claim", "finish"}
    /\ IF program = Unreadable THEN Goto(w, "exited") /\ UNCHANGED <<lock, copy>>
       ELSE /\ Goto(w, IF pc[w] = "claim" THEN "claiming" ELSE "finishing")
            /\ lock' = w
            /\ copy' = [copy EXCEPT ![w] = program]
    /\ UNCHANGED <<script, program, receipt, map, again, verdict, deaths>>

\* with_lock and load, in claim and in finish.  A program that does not parse
\* raises: the lock is released, and set -e ends the worker.
Load(w) ==
    /\ pc[w] \in {"claim", "finish"} /\ lock = None
    /\ IF program = Unreadable THEN Goto(w, "exited") /\ UNCHANGED <<lock, copy>>
       ELSE /\ Goto(w, IF pc[w] = "claim" THEN "claiming" ELSE "finishing")
            /\ lock' = w
            /\ copy' = [copy EXCEPT ![w] = program]
    /\ UNCHANGED <<script, program, receipt, map, again, verdict, deaths>>

Claim(w) ==
    /\ pc[w] = "claiming"
    /\ \E m \in First(Pending(copy[w])) :
        /\ program' = Claimed(copy[w], m, w)
        /\ map' = [map EXCEPT ![w] = m]
    /\ Unlock(w) /\ Goto(w, "run")
    /\ UNCHANGED <<script, receipt, again, verdict, deaths>>

\* Faulty variant: the search ends at the first map, pending or not.
QueueEmptyAtFirst(w) ==
    /\ pc[w] = "claiming" /\ First(Maps) \cap Pending(copy[w]) = {}
    /\ Unlock(w) /\ Goto(w, "exited")
    /\ UNCHANGED <<script, program, receipt, map, again, verdict, deaths>>

QueueEmpty(w) ==
    /\ pc[w] = "claiming" /\ Pending(copy[w]) = {}
    /\ Unlock(w) /\ Goto(w, "exited")
    /\ UNCHANGED <<script, program, receipt, map, again, verdict, deaths>>

\* What follows an end of the pipeline: the map passed, the worker improves it
\* (run_pool.sh only, once), or the map failed.
Judge(w, passed) ==
    IF passed
    THEN /\ verdict' = [verdict EXCEPT ![w] = IF again[w] THEN "pr_opened" ELSE "passed"]
         /\ Goto(w, "finish")
    ELSE /\ verdict' = [verdict EXCEPT ![w] = "failed"]
         /\ Goto(w, IF driver = "pool" /\ ~again[w] THEN "improve" ELSE "finish")

\* run_worker.py refuses a map whose source is missing or changed, and leaves
\* the receipt alone.
RunRefused(w) ==
    /\ pc[w] = "run"
    /\ Judge(w, FALSE)
    /\ UNCHANGED <<script, program, receipt, lock, copy, map, again, deaths>>

\* run_map removes the work directory, with the receipt in it.
RunStarts(w) ==
    /\ pc[w] = "run"
    /\ receipt' = [receipt EXCEPT ![map[w]] = None]
    /\ Goto(w, "running")
    /\ UNCHANGED <<script, program, lock, copy, map, again, verdict, deaths>>

\* The pipeline ends with a receipt; or without one, as for a format it does
\* not know.  It exits with 0 exactly when the receipt is perfect.
RunEnds(w) ==
    /\ pc[w] = "running"
    /\ \E r \in Receipts :
        /\ receipt' = [receipt EXCEPT ![map[w]] = r]
        /\ Judge(w, r = "perfect")
    /\ UNCHANGED <<script, program, lock, copy, map, again, deaths>>

\* run_improve.sh: an agent edits the code and may run the pipeline on the map.
Improve(w) ==
    /\ pc[w] = "improve"
    /\ \E r \in Receipts : receipt' = [receipt EXCEPT ![map[w]] = r]
    /\ \E ok \in BOOLEAN :
        /\ again' = [again EXCEPT ![w] = ok]
        /\ Goto(w, IF ok THEN "run" ELSE "finish")
    /\ UNCHANGED <<script, program, lock, copy, map, verdict, deaths>>

Finish(w) ==
    /\ pc[w] = "finishing"
    /\ program' = Finished(copy[w], map[w], verdict[w])
    /\ Unlock(w) /\ Goto(w, "claim") /\ Forget(w)
    /\ UNCHANGED <<script, receipt, deaths>>

Die(w) ==
    /\ phase = "pool" /\ pc[w] \notin Gone /\ deaths < MaxDeaths
    /\ deaths' = deaths + 1
    /\ IF pc[w] \in Locked THEN program' \in {program, Unreadable} ELSE UNCHANGED program
    /\ Unlock(w) /\ Goto(w, "dead") /\ Forget(w)
    /\ UNCHANGED <<script, receipt>>

Work(w) ==
    \/ Load(w) \/ Claim(w) \/ QueueEmpty(w) \/ RunRefused(w) \/ RunStarts(w)
    \/ RunEnds(w) \/ Improve(w) \/ Finish(w)

----------------------------------------------------------------------------
(* run_pool.sh and run_until_clear.sh. *)

Perfect(m) == receipt[m] = "perfect"

\* status(): imperfect_ids, and clear.
Imperfect ==
    {m \in Maps : program.status[m] \in {"pending", "running"} \/ ~Perfect(m)}

\* Faulty variant: no open entry is enough.
ClearByCounts == \A m \in Maps : program.status[m] \notin {"pending", "running"}

Clear ==
    Imperfect = {} /\ \A m \in Maps : program.status[m] \notin {"pending", "running"}

\* list_imperfect()
ListImperfect == {m \in Maps : ~(program.status[m] \in Done /\ Perfect(m))}

\* A new pool: every worker enters its loop.
StartPool ==
    /\ phase' = "pool"
    /\ pc' = [w \in Workers |-> "claim"]

\* program_ctl.py init, which drops the receipts of earlier runs.
Arm ==
    /\ phase = "new"
    /\ program' = [status |-> [m \in Maps |-> "pending"], by |-> [m \in Maps |-> None],
                   overall |-> "armed"]
    /\ receipt' = [m \in Maps |-> None]
    /\ StartPool
    /\ UNCHANGED <<driver, round, todo, improved, lock, copy, map, again, verdict, deaths>>

\* wait for every worker
PoolEnds ==
    /\ phase = "pool" /\ \A w \in Workers : pc[w] \in Gone
    /\ phase' = "check"
    /\ UNCHANGED <<driver, round, todo, improved, program, receipt, lock, worker, deaths>>

\* write_takeaways.py and status fail on a program that does not parse.
Check ==
    /\ phase = "check"
    /\ phase' = CASE program = Unreadable -> "aborted"
                  [] program # Unreadable /\ driver = "pool" -> "done"
                  [] OTHER -> IF Clear THEN "clear" ELSE "improving"
    /\ todo' = IF phase' = "improving" THEN ListImperfect ELSE {}
    /\ improved' = 0
    /\ UNCHANGED <<driver, round, program, receipt, lock, worker, deaths>>

\* The next map of the list is improved, or skipped for want of a receipt.
ImproveNext(m) ==
    /\ phase = "improving" /\ m \in First(todo) /\ improved < ImproveCap
    /\ todo' = todo \ {m}
    /\ \E r \in Receipts, ok \in BOOLEAN :
        IF receipt[m] = None THEN UNCHANGED <<receipt, improved>>
        ELSE /\ receipt' = [receipt EXCEPT ![m] = r]
             /\ improved' = IF ok THEN improved + 1 ELSE improved
    /\ UNCHANGED <<driver, phase, round, program, lock, worker, deaths>>

RoundOver == phase = "improving" /\ (todo = {} \/ improved >= ImproveCap)

\* requeue_imperfect, and the pool of the next round.
Requeue ==
    /\ RoundOver /\ round < MaxRounds /\ lock = None
    /\ program' = [status |-> [m \in Maps |-> IF m \in ListImperfect THEN "pending" ELSE "passed"],
                   by |-> [m \in Maps |-> IF m \in ListImperfect THEN None ELSE program.by[m]],
                   overall |-> "armed"]
    /\ receipt' = [m \in Maps |-> IF m \in ListImperfect THEN None ELSE receipt[m]]
    /\ round' = round + 1
    /\ StartPool
    /\ UNCHANGED <<driver, todo, improved, lock, copy, map, again, verdict, deaths>>

Stop ==
    /\ RoundOver /\ round = MaxRounds
    /\ phase' = "stopped"
    /\ UNCHANGED <<driver, round, todo, improved, program, receipt, lock, worker, deaths>>

Drive ==
    \/ Arm \/ PoolEnds \/ Check \/ Requeue \/ Stop
    \/ \E m \in todo : ImproveNext(m)

Next == Drive \/ \E w \in Workers : Work(w) \/ Die(w)

Spec == Init /\ [][Next]_vars

\* The script and every worker that lives keep going: the pipeline ends (its
\* external tools have timeouts), the improver's agent is assumed to end, and a
\* waiting flock is granted once the lock is free.
Fairness == WF_vars(Drive) /\ \A w \in Workers : WF_vars(Work(w))

FairSpec == Spec /\ Fairness

----------------------------------------------------------------------------
Readable == program # Unreadable

TypeOK ==
    /\ driver \in Drivers /\ phase \in Phases /\ round \in 1 .. MaxRounds
    /\ todo \subseteq Maps /\ improved \in 0 .. ImproveCap
    /\ program \in Programs \cup {Unreadable}
    /\ receipt \in [Maps -> Receipts]
    /\ lock \in Workers \cup {None}
    /\ pc \in [Workers -> Steps]
    /\ copy \in [Workers -> Programs \cup {Unreadable}]
    /\ map \in [Workers -> Maps \cup {None}]
    /\ again \in [Workers -> BOOLEAN]
    /\ verdict \in [Workers -> Statuses]
    /\ deaths \in 0 .. MaxDeaths

\* A map is worked on by one worker, and it is the one program.json names: no
\* claim, finish or requeue of another takes it away while the worker is at it,
\* so no finish records the end of somebody else's run.
Owned ==
    \A w \in Workers : pc[w] \in Busy =>
        /\ Readable => program.status[map[w]] = "running" /\ program.by[map[w]] = w
        /\ \A v \in Workers : pc[v] \in Busy /\ map[v] = map[w] => v = w

\* A map that counts as passed has the perfect receipt it was passed for: no
\* later run, improvement or requeue takes the receipt away or worsens it.
PassedIsPerfect ==
    Readable => \A m \in Maps : program.status[m] \in Done => Perfect(m)

\* When a pool ends, work is left only where workers died: an entry is running
\* only if its worker died, and pending only if all of them did.
OnlyDeathLeavesWork ==
    phase = "check" /\ Readable =>
        \A m \in Maps :
            /\ program.status[m] = "running" => pc[program.by[m]] = "dead"
            /\ program.status[m] = "pending" => \A w \in Workers : pc[w] = "dead"

\* "CLEAR" is reported only when every map passed with a perfect receipt.
ClearIsPerfect ==
    phase = "clear" =>
        Readable /\ \A m \in Maps : program.status[m] \in Done /\ Perfect(m)

\* When run_until_clear.sh decides, status() and list_imperfect() agree, although
\* the one counts a failed map with a perfect receipt as perfect and the other
\* does not: what keeps a round from clear is exactly what the next one repeats.
ListsAgree ==
    phase = "check" /\ driver = "until-clear" /\ Readable => Imperfect = ListImperfect

\* A passed map with a perfect receipt is never run again in a later round.
PerfectIsKept ==
    [][\A m \in Maps :
        Readable /\ program.status[m] \in Done /\ program' # Unreadable =>
            program'.status[m] \in Done /\ Perfect(m)']_vars

\* The script ends, however the runs and improvements end and whoever dies.
Ends == <>(phase \in Final)

====

--------------------------- MODULE MapMatrixProofs ---------------------------
(***************************************************************************)
(* The safety of the map-matrix program for any maps, any number of        *)
(* workers and deaths, either script and any budget of rounds and          *)
(* improvements.  The inductive invariant has a part for each worker (what *)
(* it holds of the lock, the program and its map), one for each map (what  *)
(* its status says of its receipt and of its worker) and one for the       *)
(* script (when the workers are gone).                                     *)
(***************************************************************************)
EXTENDS MapMatrixProgram, TLAPS

WorkerInv(w) ==
    /\ pc[w] \in Locked <=> lock = w
    /\ lock = w => Readable /\ copy[w] = program
    /\ pc[w] \in Busy =>
        /\ map[w] \in Maps
        /\ Readable => program.status[map[w]] = "running" /\ program.by[map[w]] = w
        /\ \A v \in Workers : pc[v] \in Busy /\ map[v] = map[w] => v = w
    /\ pc[w] = "improve" => driver = "pool" /\ verdict[w] = "failed"
    /\ pc[w] \in {"finish", "finishing"} =>
        /\ verdict[w] \in Done \cup {"failed"}
        /\ verdict[w] \in Done => Perfect(map[w])
        /\ driver = "until-clear" /\ verdict[w] = "failed" => ~Perfect(map[w])
    /\ pc[w] = "run" /\ driver = "until-clear" => receipt[map[w]] = None

\* While the pool runs, and until the script has looked at what it left.
Judging == phase \in {"pool", "check"}

MapInv(m) ==
    Readable =>
        /\ program.status[m] \in Done => Perfect(m)
        /\ Judging /\ program.status[m] = "running" =>
            /\ program.by[m] \in Workers
            /\ \/ pc[program.by[m]] = "dead"
               \/ pc[program.by[m]] \in Busy /\ map[program.by[m]] = m
        /\ Judging /\ program.status[m] = "pending" =>
            receipt[m] = None /\ \A w \in Workers : pc[w] # "exited"
        /\ Judging /\ driver = "until-clear" /\ program.status[m] = "failed" => ~Perfect(m)
        /\ phase = "improving" /\ m \in todo => program.status[m] \notin Done
        /\ phase = "clear" => program.status[m] \in Done

ScriptInv ==
    /\ phase # "pool" => \A w \in Workers : pc[w] \in Gone
    /\ phase \in {"improving", "clear", "stopped", "done"} => Readable
    /\ phase \in {"improving", "clear", "stopped"} => driver = "until-clear"
    /\ phase = "new" => ~Readable

IInv ==
    /\ TypeOK
    /\ \A w \in Workers : WorkerInv(w)
    /\ \A m \in Maps : MapInv(m)
    /\ ScriptInv

\* The sets of steps, for the leaves that split on them.
LEMMA StepSets ==
    /\ Locked \subseteq Steps /\ Busy \subseteq Steps /\ Gone \subseteq Steps
    /\ Gone \cap (Locked \cup Busy) = {}
    /\ Done \subseteq Statuses
    /\ "pending" \notin Done /\ "running" \notin Done /\ "failed" \notin Done
  BY DEF Locked, Busy, Gone, Steps, Done, Statuses

----------------------------------------------------------------------------
LEMMA InitIInv == Init => IInv
<1> SUFFICES ASSUME Init PROVE IInv
  OBVIOUS
<1>1. TypeOK
  BY BoundsAssumption DEF Init, TypeOK, Phases, Steps, Statuses
<1>2. \A w \in Workers : WorkerInv(w)
  BY NoneAssumption DEF Init, WorkerInv, Locked, Busy
<1>3. (\A m \in Maps : MapInv(m)) /\ ScriptInv
  BY DEF Init, MapInv, ScriptInv, Readable, Gone
<1> QED
  BY <1>1, <1>2, <1>3 DEF IInv

\* What claim and finish save is a program.
LEMMA SavedType ==
    ASSUME NEW p \in Programs, NEW m \in Maps
    PROVE  /\ \A w \in Workers : Claimed(p, m, w) \in Programs
           /\ \A s \in Statuses : Finished(p, m, s) \in Programs
  BY DEF Programs, Claimed, Finished, Statuses, Done

\* A worker's own step leaves the script where it is.
LEMMA WorkType ==
    ASSUME IInv, NEW w \in Workers, Work(w) \/ Die(w)
    PROVE  TypeOK'
<1> USE DEF IInv, TypeOK
<1>1. CASE Load(w)
  BY <1>1 DEF Load, Goto, Steps, script
<1>2. CASE Claim(w)
  <2>1. PICK m \in First(Pending(copy[w])) : program' = Claimed(copy[w], m, w)
                                              /\ map' = [map EXCEPT ![w] = m]
    BY <1>2 DEF Claim
  <2>2. m \in Maps /\ copy[w] \in Programs
    BY <1>2, <2>1 DEF First, Pending, Claim, WorkerInv, Locked, Readable
  <2>3. program' \in Programs
    BY <2>1, <2>2, SavedType
  <2> QED
    BY <1>2, <2>1, <2>2, <2>3 DEF Claim, Unlock, Goto, Steps, script
<1>3. CASE QueueEmpty(w)
  BY <1>3 DEF QueueEmpty, Unlock, Goto, Steps, script
<1>4. CASE RunRefused(w)
  BY <1>4 DEF RunRefused, Judge, Goto, Steps, Statuses, Done, script
<1>5. CASE RunStarts(w)
  BY <1>5 DEF RunStarts, Goto, Steps, Receipts, script
<1>6. CASE RunEnds(w)
  <2>1. receipt' \in [Maps -> Receipts] /\ UNCHANGED <<script, program, lock, copy, map, again, deaths>>
    BY <1>6 DEF RunEnds
  <2>2. pc' \in [Workers -> Steps] /\ verdict' \in [Workers -> Statuses]
    BY <1>6 DEF RunEnds, Judge, Goto, Steps, Statuses, Done
  <2> QED
    BY <2>1, <2>2 DEF script
<1>7. CASE Improve(w)
  <2>1. receipt' \in [Maps -> Receipts] /\ UNCHANGED <<script, program, lock, copy, map, verdict, deaths>>
    BY <1>7 DEF Improve
  <2>2. pc' \in [Workers -> Steps] /\ again' \in [Workers -> BOOLEAN]
    BY <1>7 DEF Improve, Goto, Steps
  <2> QED
    BY <2>1, <2>2 DEF script
<1>8. CASE Finish(w)
  <2>1. copy[w] \in Programs /\ map[w] \in Maps /\ verdict[w] \in Statuses
    BY <1>8 DEF Finish, WorkerInv, Locked, Busy, Readable
  <2>2. program' \in Programs
    BY <1>8, <2>1, SavedType DEF Finish
  <2> QED
    BY <1>8, <2>2 DEF Finish, Unlock, Forget, Goto, Steps, Statuses, Done, script
<1>9. CASE Die(w)
  BY <1>9, BoundsAssumption DEF Die, Unlock, Forget, Goto, Steps, Statuses, Done, script
<1> QED
  BY <1>1, <1>2, <1>3, <1>4, <1>5, <1>6, <1>7, <1>8, <1>9 DEF Work

LEMMA DriveType ==
    ASSUME IInv, Drive
    PROVE  TypeOK'
<1> USE DEF IInv, TypeOK, StartPool, worker
<1>1. CASE Arm
  BY <1>1 DEF Arm, Programs, Statuses, Receipts, Phases, Steps
<1>2. CASE PoolEnds
  BY <1>2 DEF PoolEnds, Phases
<1>3. CASE Check
  BY <1>3, BoundsAssumption DEF Check, Phases, ListImperfect
<1>4. CASE Requeue
  <2>1. Readable
    BY <1>4 DEF Requeue, RoundOver, ScriptInv
  <2>2. program' \in Programs
    BY <1>4, <2>1 DEF Requeue, Programs, Statuses, Done, Readable
  <2>3. receipt' \in [Maps -> Receipts]
    BY <1>4 DEF Requeue, Receipts
  <2> QED
    BY <1>4, <2>2, <2>3, BoundsAssumption DEF Requeue, Phases, Steps
<1>5. CASE Stop
  BY <1>5 DEF Stop, Phases
<1>6. ASSUME NEW m \in todo, ImproveNext(m) PROVE TypeOK'
  <2>1. receipt' \in [Maps -> Receipts]
    BY <1>6 DEF ImproveNext
  <2>2. improved' \in 0 .. ImproveCap
    BY <1>6, BoundsAssumption DEF ImproveNext
  <2> QED
    BY <1>6, <2>1, <2>2 DEF ImproveNext
<1> QED
  BY <1>1, <1>2, <1>3, <1>4, <1>5, <1>6 DEF Drive

----------------------------------------------------------------------------
(* Every step keeps the parts of the invariant.  A worker steps only while *)
(* the pool runs, so its steps have nothing to say of the script's part.   *)

LEMMA PoolRuns ==
    ASSUME IInv, NEW w \in Workers, Work(w) \/ Die(w)
    PROVE  phase = "pool" /\ UNCHANGED script
<1> USE DEF script
<1>1. pc[w] \notin Gone
  BY DEF Work, Load, Claim, QueueEmpty, RunRefused, RunStarts, RunEnds, Improve, Finish,
         Die, Gone
<1>2. UNCHANGED script
  BY DEF Work, Load, Claim, QueueEmpty, RunRefused, RunStarts, RunEnds, Improve, Finish, Die
<1> QED
  BY <1>1, <1>2 DEF IInv, ScriptInv

LEMMA LoadKeeps ==
    ASSUME IInv, NEW w \in Workers, Load(w)
    PROVE  /\ \A v \in Workers : WorkerInv(v)'
           /\ \A m \in Maps : MapInv(m)'
<1> USE DEF IInv, TypeOK, Load, Goto, script, Perfect, Readable
<1>1. ASSUME NEW v \in Workers PROVE WorkerInv(v)'
  BY <1>1, NoneAssumption DEF WorkerInv, Locked, Busy, Done
<1>2. ASSUME NEW m \in Maps PROVE MapInv(m)'
  BY <1>2, PoolRuns DEF MapInv, Work, Judging, Busy, Done, WorkerInv
<1> QED
  BY <1>1, <1>2

LEMMA ClaimKeeps ==
    ASSUME IInv, NEW w \in Workers, Claim(w)
    PROVE  /\ \A v \in Workers : WorkerInv(v)'
           /\ \A m \in Maps : MapInv(m)'
<1> USE DEF IInv, TypeOK, Goto, script, Perfect, Readable
<1>1. copy[w] = program /\ program \in Programs /\ lock = w /\ phase = "pool"
  BY PoolRuns DEF Claim, WorkerInv, Locked, Work
<1>2. PICK k \in Maps : /\ program.status[k] = "pending"
                        /\ program' = Claimed(program, k, w)
                        /\ map' = [map EXCEPT ![w] = k]
  BY <1>1 DEF Claim, First, Pending
<1>3. receipt[k] = None
  BY <1>1, <1>2, NoneAssumption DEF MapInv, Judging
<1>4. /\ program'.status[k] = "running" /\ program'.by[k] = w
      /\ \A m \in Maps : m # k => /\ program'.status[m] = program.status[m]
                                 /\ program'.by[m] = program.by[m]
  BY <1>1, <1>2 DEF Claimed, Programs
<1>5. \A v \in Workers : pc[v] \in Busy => map[v] # k
  BY <1>1, <1>2 DEF WorkerInv
<1>6. lock' = None /\ pc' = [pc EXCEPT ![w] = "run"]
      /\ UNCHANGED <<script, receipt, again, verdict, deaths>>
      /\ copy' = [copy EXCEPT ![w] = Unreadable]
  BY <1>1 DEF Claim, Unlock
<1>7. program' # Unreadable
  BY <1>1, <1>2, SavedType, NoneAssumption
<1>8. ASSUME NEW v \in Workers PROVE WorkerInv(v)'
  BY <1>1, <1>2, <1>3, <1>4, <1>5, <1>6, <1>7, NoneAssumption DEF WorkerInv, Locked, Busy, Done
<1>9. ASSUME NEW m \in Maps PROVE MapInv(m)'
  <2>1. Readable /\ MapInv(m)
    BY <1>1, NoneAssumption
  <2>2. CASE m = k
    BY <1>1, <1>2, <1>4, <1>6, <2>2 DEF MapInv, Judging, Busy, Done
  <2>3. CASE m # k
    <3>1. program.by[m] = w => program.status[m] # "running"
      BY <1>1, <2>1 DEF MapInv, Judging, Claim, Busy
    <3> QED
      BY <1>1, <1>2, <1>4, <1>6, <2>1, <2>3, <3>1 DEF MapInv, Judging, Busy, Done
  <2> QED
    BY <2>2, <2>3
<1> QED
  BY <1>8, <1>9

LEMMA QueueEmptyKeeps ==
    ASSUME IInv, NEW w \in Workers, QueueEmpty(w)
    PROVE  /\ \A v \in Workers : WorkerInv(v)'
           /\ \A m \in Maps : MapInv(m)'
<1> USE DEF IInv, TypeOK, QueueEmpty, Unlock, Goto, script, Perfect, Readable
<1>1. ASSUME NEW v \in Workers PROVE WorkerInv(v)'
  BY NoneAssumption DEF WorkerInv, Locked, Busy, Done
<1>2. ASSUME NEW m \in Maps PROVE MapInv(m)'
  BY PoolRuns DEF MapInv, Work, Judging, Busy, Done, WorkerInv, Pending, Locked
<1> QED
  BY <1>1, <1>2

LEMMA RunRefusedKeeps ==
    ASSUME IInv, NEW w \in Workers, RunRefused(w)
    PROVE  /\ \A v \in Workers : WorkerInv(v)'
           /\ \A m \in Maps : MapInv(m)'
<1> USE DEF IInv, TypeOK, RunRefused, Judge, Goto, script, Perfect, Readable
<1>1. ASSUME NEW v \in Workers PROVE WorkerInv(v)'
  BY NoneAssumption DEF WorkerInv, Locked, Busy, Done
<1>2. ASSUME NEW m \in Maps PROVE MapInv(m)'
  BY PoolRuns DEF MapInv, Work, Judging, Busy, Done, WorkerInv
<1> QED
  BY <1>1, <1>2

LEMMA RunStartsKeeps ==
    ASSUME IInv, NEW w \in Workers, RunStarts(w)
    PROVE  /\ \A v \in Workers : WorkerInv(v)'
           /\ \A m \in Maps : MapInv(m)'
<1> USE DEF IInv, TypeOK, RunStarts, Goto, script, Perfect, Readable
<1>1. ASSUME NEW v \in Workers PROVE WorkerInv(v)'
  BY NoneAssumption DEF WorkerInv, Locked, Busy, Done, MapInv
<1>2. ASSUME NEW m \in Maps PROVE MapInv(m)'
  BY PoolRuns DEF MapInv, Work, Judging, Busy, Done, WorkerInv
<1> QED
  BY <1>1, <1>2

LEMMA RunEndsKeeps ==
    ASSUME IInv, NEW w \in Workers, RunEnds(w)
    PROVE  /\ \A v \in Workers : WorkerInv(v)'
           /\ \A m \in Maps : MapInv(m)'
<1> USE DEF IInv, TypeOK, RunEnds, Judge, Goto, script, Perfect, Readable
<1>1. ASSUME NEW v \in Workers PROVE WorkerInv(v)'
  BY NoneAssumption DEF WorkerInv, Locked, Busy, Done
<1>2. ASSUME NEW m \in Maps PROVE MapInv(m)'
  BY PoolRuns DEF MapInv, Work, Judging, Busy, Done, WorkerInv
<1> QED
  BY <1>1, <1>2

LEMMA ImproveKeeps ==
    ASSUME IInv, NEW w \in Workers, Improve(w)
    PROVE  /\ \A v \in Workers : WorkerInv(v)'
           /\ \A m \in Maps : MapInv(m)'
<1> USE DEF IInv, TypeOK, Improve, Goto, script, Perfect, Readable
<1>1. ASSUME NEW v \in Workers PROVE WorkerInv(v)'
  BY NoneAssumption DEF WorkerInv, Locked, Busy, Done
<1>2. ASSUME NEW m \in Maps PROVE MapInv(m)'
  BY PoolRuns DEF MapInv, Work, Judging, Busy, Done, WorkerInv
<1> QED
  BY <1>1, <1>2

LEMMA FinishKeeps ==
    ASSUME IInv, NEW w \in Workers, Finish(w)
    PROVE  /\ \A v \in Workers : WorkerInv(v)'
           /\ \A m \in Maps : MapInv(m)'
<1> USE DEF IInv, TypeOK, Finish, Unlock, Forget, Goto, script, Perfect, Readable
<1>1. ASSUME NEW v \in Workers PROVE WorkerInv(v)'
  BY NoneAssumption DEF WorkerInv, Locked, Busy, Done, Finished, Programs
<1>2. ASSUME NEW m \in Maps PROVE MapInv(m)'
  <2>1. copy[w] = program /\ program \in Programs /\ map[w] \in Maps /\ phase = "pool"
    BY PoolRuns DEF WorkerInv, Locked, Busy, Work
  <2>2. /\ program'.status[m] = IF m = map[w] THEN verdict[w] ELSE program.status[m]
        /\ program'.by[m] = program.by[m]
    BY <2>1 DEF Finished, Programs
  <2>3. CASE m = map[w]
    BY <2>1, <2>2, <2>3 DEF MapInv, WorkerInv, Done
  <2>4. CASE m # map[w]
    <3>1. Readable /\ MapInv(m)
      BY <2>1, NoneAssumption
    <3>2. program.by[m] = w => program.status[m] # "running"
      BY <2>1, <2>4, <3>1 DEF MapInv, Judging, Busy
    <3> QED
      BY <2>1, <2>2, <2>4, <3>1, <3>2 DEF MapInv, Judging, Busy
  <2> QED
    BY <2>3, <2>4
<1> QED
  BY <1>1, <1>2

LEMMA DieKeeps ==
    ASSUME IInv, NEW w \in Workers, Die(w)
    PROVE  /\ \A v \in Workers : WorkerInv(v)'
           /\ \A m \in Maps : MapInv(m)'
<1> USE DEF IInv, TypeOK, Die, Unlock, Forget, Goto, script, Perfect, Readable
<1>1. ASSUME NEW v \in Workers PROVE WorkerInv(v)'
  BY NoneAssumption DEF WorkerInv, Locked, Busy, Done
<1>2. ASSUME NEW m \in Maps PROVE MapInv(m)'
  BY PoolRuns DEF MapInv, Work, Judging, Busy, Done, WorkerInv, Locked, Gone
<1> QED
  BY <1>1, <1>2

\* The script acts on the program only when every worker has ended.
LEMMA DriveKeeps ==
    ASSUME IInv, Drive
    PROVE  /\ \A w \in Workers : WorkerInv(w)'
           /\ \A m \in Maps : MapInv(m)'
           /\ ScriptInv'
<1> USE DEF IInv, TypeOK, StartPool, worker, Perfect, Readable
<1> DEFINE Kept == /\ \A w \in Workers : WorkerInv(w)'
                   /\ \A m \in Maps : MapInv(m)'
                   /\ ScriptInv'
<1>1. phase # "pool" => \A w \in Workers : lock # w /\ pc[w] \in Gone
  BY DEF ScriptInv, WorkerInv, Locked, Gone
<1>2. CASE Arm
  <2>1. ASSUME NEW w \in Workers PROVE WorkerInv(w)'
    BY <1>1, <1>2 DEF Arm, WorkerInv, Locked, Busy
  <2>2. ASSUME NEW m \in Maps PROVE MapInv(m)'
    BY <1>2 DEF Arm, MapInv, Done
  <2>3. ScriptInv'
    BY <1>2 DEF Arm, ScriptInv
  <2> QED
    BY <2>1, <2>2, <2>3
<1>3. CASE PoolEnds
  <2>1. ASSUME NEW w \in Workers PROVE WorkerInv(w)'
    BY <1>3 DEF PoolEnds, WorkerInv
  <2>2. ASSUME NEW m \in Maps PROVE MapInv(m)'
    BY <1>3 DEF PoolEnds, MapInv, Judging
  <2>3. ScriptInv'
    BY <1>3 DEF PoolEnds, ScriptInv
  <2> QED
    BY <2>1, <2>2, <2>3
<1>4. CASE Check
  <2>1. ASSUME NEW w \in Workers PROVE WorkerInv(w)'
    BY <1>4 DEF Check, WorkerInv
  <2>2. ASSUME NEW m \in Maps PROVE MapInv(m)'
    <3>1. phase' \notin {"pool", "check"}
      BY <1>4 DEF Check
    <3>2. phase' = "clear" => program.status[m] \in Done
      BY <1>4, DriversAssumption
      DEF Check, Clear, Imperfect, MapInv, Judging, Programs, Statuses
    <3>3. phase' = "improving" /\ m \in todo' => program.status[m] \notin Done
      BY <1>4 DEF Check, ListImperfect, MapInv
    <3> QED
      BY <1>4, <3>1, <3>2, <3>3 DEF Check, MapInv, Judging
  <2>3. ScriptInv'
    BY <1>1, <1>4, DriversAssumption DEF Check, ScriptInv
  <2> QED
    BY <2>1, <2>2, <2>3
<1>5. CASE Requeue
  <2>1. Readable /\ phase = "improving" /\ program \in Programs
    BY <1>5 DEF Requeue, RoundOver, ScriptInv
  <2>2. ASSUME NEW w \in Workers PROVE WorkerInv(w)'
    BY <1>1, <1>5, <2>1 DEF Requeue, WorkerInv, Locked, Busy
  <2>3. ASSUME NEW m \in Maps PROVE MapInv(m)'
    BY <1>5, <2>1 DEF Requeue, MapInv, Done, ListImperfect
  <2>4. ScriptInv'
    BY <1>5 DEF Requeue, ScriptInv
  <2> QED
    BY <2>2, <2>3, <2>4
<1>6. CASE Stop
  <2>1. ASSUME NEW w \in Workers PROVE WorkerInv(w)'
    BY <1>6 DEF Stop, WorkerInv
  <2>2. ASSUME NEW m \in Maps PROVE MapInv(m)'
    BY <1>6 DEF Stop, RoundOver, MapInv, Judging
  <2>3. ScriptInv'
    BY <1>6 DEF Stop, RoundOver, ScriptInv
  <2> QED
    BY <2>1, <2>2, <2>3
<1>7. ASSUME NEW k \in todo, ImproveNext(k) PROVE Kept
  <2>1. ASSUME NEW w \in Workers PROVE WorkerInv(w)'
    BY <1>1, <1>7 DEF ImproveNext, WorkerInv, Locked, Busy, Gone
  <2>2. ASSUME NEW m \in Maps PROVE MapInv(m)'
    BY <1>7 DEF ImproveNext, MapInv, Judging
  <2>3. ScriptInv'
    BY <1>7 DEF ImproveNext, ScriptInv
  <2> QED
    BY <2>1, <2>2, <2>3
<1> QED
  BY <1>2, <1>3, <1>4, <1>5, <1>6, <1>7 DEF Drive

----------------------------------------------------------------------------
LEMMA Step == IInv /\ [Next]_vars => IInv'
<1> SUFFICES ASSUME IInv, [Next]_vars PROVE IInv'
  OBVIOUS
<1>1. CASE UNCHANGED vars
  BY <1>1 DEF IInv, TypeOK, WorkerInv, MapInv, ScriptInv, Judging, Perfect, Readable,
              vars, script, worker
<1>2. CASE Drive
  BY <1>2, DriveType, DriveKeeps DEF IInv
<1>3. ASSUME NEW w \in Workers, Work(w) \/ Die(w) PROVE IInv'
  <2>1. TypeOK'
    BY <1>3, WorkType
  <2>2. /\ \A v \in Workers : WorkerInv(v)'
        /\ \A m \in Maps : MapInv(m)'
    BY <1>3, LoadKeeps, ClaimKeeps, QueueEmptyKeeps, RunRefusedKeeps, RunStartsKeeps,
       RunEndsKeeps, ImproveKeeps, FinishKeeps, DieKeeps DEF Work
  <2>3. ScriptInv'
    BY <1>3, PoolRuns DEF ScriptInv, script
  <2> QED
    BY <2>1, <2>2, <2>3 DEF IInv
<1> QED
  BY <1>1, <1>2, <1>3 DEF Next

\* The inductive invariant holds in every state of the program.
THEOREM Invariance == Spec => []IInv
  BY InitIInv, Step, PTL DEF Spec

\* Every variable keeps its type; what claim, finish and requeue save is a program.
THEOREM TypeCorrect == Spec => []TypeOK
  BY Invariance, PTL DEF IInv

\* The claims of any number of workers exclude each other, and no finish records
\* the end of a map that another worker runs.
THEOREM OwnedAlways == Spec => []Owned
<1>1. IInv => Owned
  BY DEF IInv, WorkerInv, Owned
<1> QED
  BY <1>1, Invariance, PTL

\* A map that counts as passed keeps its perfect receipt.
THEOREM PassedIsPerfectAlways == Spec => []PassedIsPerfect
<1>1. IInv => PassedIsPerfect
  BY DEF IInv, MapInv, PassedIsPerfect
<1> QED
  BY <1>1, Invariance, PTL

\* Without deaths a pool leaves no map pending or running, whatever the workers did.
THEOREM OnlyDeathLeavesWorkAlways == Spec => []OnlyDeathLeavesWork
<1>1. IInv => OnlyDeathLeavesWork
  BY DEF IInv, TypeOK, MapInv, ScriptInv, Judging, Busy, Gone, OnlyDeathLeavesWork
<1> QED
  BY <1>1, Invariance, PTL

\* run_until_clear.sh reports CLEAR only when every map passed perfectly.
THEOREM ClearIsPerfectAlways == Spec => []ClearIsPerfect
<1>1. IInv => ClearIsPerfect
  BY DEF IInv, MapInv, ScriptInv, ClearIsPerfect
<1> QED
  BY <1>1, Invariance, PTL

\* After a pool of run_until_clear.sh, status() and list_imperfect() agree.
THEOREM ListsAgreeAlways == Spec => []ListsAgree
<1>1. IInv => ListsAgree
  <2> SUFFICES ASSUME IInv, phase = "check", driver = "until-clear", Readable
               PROVE  Imperfect = ListImperfect
    BY DEF ListsAgree
  <2>1. ASSUME NEW m \in Maps PROVE m \in Imperfect <=> m \in ListImperfect
    BY DEF IInv, TypeOK, Programs, Statuses, MapInv, Judging, Readable, Imperfect,
           ListImperfect, Done
  <2> QED
    BY <2>1 DEF Imperfect, ListImperfect
<1> QED
  BY <1>1, Invariance, PTL

\* A passed map is never run again: neither a worker, nor an improvement, nor a
\* requeue of a later round touches its entry or its receipt.
THEOREM PerfectIsKeptAlways == Spec => PerfectIsKept
<1> DEFINE Keeps == \A m \in Maps :
        Readable /\ program.status[m] \in Done /\ program' # Unreadable =>
            program'.status[m] \in Done /\ Perfect(m)'
<1>1. IInv /\ IInv' /\ [Next]_vars => [Keeps]_vars
  <2> SUFFICES ASSUME IInv, IInv', Next, NEW m \in Maps, Readable,
                      program.status[m] \in Done, program' # Unreadable
               PROVE  program'.status[m] \in Done
    BY DEF IInv, MapInv, Readable
  <2> USE DEF Readable
  <2>1. program \in Programs /\ Perfect(m)
    BY DEF IInv, TypeOK, MapInv
  <2>2. CASE Drive
    BY <2>1, <2>2 DEF Drive, Arm, PoolEnds, Check, Requeue, Stop, ImproveNext, IInv,
                      ScriptInv, ListImperfect, Done
  <2>3. ASSUME NEW w \in Workers, Claim(w) PROVE program'.status[m] \in Done
    <3>1. copy[w] = program
      BY <2>3 DEF Claim, IInv, WorkerInv, Locked
    <3> QED
      BY <2>1, <2>3, <3>1 DEF Claim, First, Pending, Claimed, Programs, Done
  <2>4. ASSUME NEW w \in Workers, Finish(w) PROVE program'.status[m] \in Done
    <3>1. copy[w] = program /\ map[w] # m
      BY <2>4 DEF Finish, IInv, WorkerInv, Locked, Busy, Done
    <3> QED
      BY <2>1, <2>4, <3>1 DEF Finish, Finished, Programs
  <2>5. ASSUME NEW w \in Workers, Work(w) \/ Die(w), ~Claim(w), ~Finish(w)
        PROVE  program'.status[m] \in Done
    BY <2>5 DEF Work, Load, QueueEmpty, RunRefused, RunStarts, RunEnds, Improve, Die
  <2> QED
    BY <2>2, <2>3, <2>4, <2>5 DEF Next
<1> QED
  BY <1>1, Invariance, PTL DEF Spec, PerfectIsKept
====

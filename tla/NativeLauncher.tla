--------------------------- MODULE NativeLauncher ---------------------------
(***************************************************************************)
(* gavinying_launcher.py: one bounded polling pass of a native tool, whose *)
(* validated readings become result.json.  Launchers of several compiled   *)
(* setups may be started on one output directory at any time.  What keeps  *)
(* them apart is the directory: the owner file, a lock, a temporary        *)
(* document and a stage, each made exclusively.  A launcher may be sent    *)
(* SIGTERM and SIGINT, once each, or be killed outright; where a signal    *)
(* lands between two statements decides what it leaves behind.             *)
(***************************************************************************)
EXTENDS Naturals, FiniteSets

CONSTANTS
    Runs,           \* the passes, one per launcher process
    Setups,         \* compiled setups: the binding of a launcher
    None,
    MaxFaults,      \* bound: signals caught and writes failed, all together
    MaxKills        \* bound: launchers killed outright

ASSUME BoundAssumption == MaxFaults \in Nat /\ MaxKills \in Nat

VARIABLES
    setup,          \* the setup each launcher was compiled for
    made, owner,    \* the output directory exists; the setup in .owner.json
    lock, tmp,      \* the runs that made .lock and .result.tmp
    stage, export,  \* the run that made .stage; the native.json inside it
    shown,          \* result.json
    pc, held, mine, \* of a launcher: the variables locked and staged
    verdict, done,  \* result['status'] of a launcher; run returned a result
    receipt,        \* what a launcher printed
    child,          \* the native process of each run
    struck, killed, \* history: what struck a run; the runs killed outright
    used,           \* history: the export whose values a run accepted
    loose,          \* history: children their launcher forgot while they ran
    past            \* history: the runs that have announced themselves

disk == <<made, owner, lock, tmp, stage, export, shown>>
locals == <<held, mine, verdict, done, receipt>>
history == <<struck, killed, used, loose, past>>
vars == <<setup, disk, pc, locals, child, history>>

Opening == {"start", "adopt", "check", "lock"}
Guarded == {"config", "stage", "staged", "spawn", "spawned", "native", "reaping",
            "collect"}
Inside == Guarded \cup {"announce", "announcing", "cleanup", "conclude", "concluding"}
Ended == {"ended", "killed"}
Faults == {"SIGTERM", "SIGINT", "ENOSPC"}
Steps == Opening \cup {"locked"} \cup Inside \cup {"unlock", "report"}

Document == [run : Runs, status : {"running", "succeeded", "failed"}]
Export == [by : Runs, valid : BOOLEAN]

ASSUME NoneAssumption == None \notin Runs \cup Setups \cup Document \cup Export

TypeOK ==
    /\ setup \in [Runs -> Setups]
    /\ made \in BOOLEAN /\ owner \in Setups \cup {None}
    /\ {lock, tmp, stage} \subseteq Runs \cup {None}
    /\ export \in Export \cup {None} /\ shown \in Document \cup {None}
    /\ pc \in [Runs -> Steps \cup Ended \cup {"idle"}]
    /\ {held, mine, done} \subseteq [Runs -> BOOLEAN]
    /\ verdict \in [Runs -> {"running", "succeeded", "failed"}]
    /\ receipt \in [Runs -> {"none", "succeeded", "failed"}]
    /\ child \in [Runs -> {"none", "running", "ok", "bad"}]
    /\ struck \subseteq Runs \X Faults /\ killed \subseteq Runs
    /\ used \in [Runs -> Export \cup {None}] /\ {loose, past} \subseteq SUBSET Runs

Init ==
    /\ setup \in [Runs -> Setups]
    /\ made = FALSE /\ owner = None
    /\ lock = None /\ tmp = None /\ stage = None /\ export = None /\ shown = None
    /\ pc = [r \in Runs |-> "idle"]
    /\ held = [r \in Runs |-> FALSE] /\ mine = held /\ done = held
    /\ verdict = [r \in Runs |-> "running"]
    /\ receipt = [r \in Runs |-> "none"] /\ child = receipt
    /\ struck = {} /\ killed = {}
    /\ used = [r \in Runs |-> None] /\ loose = {} /\ past = {}

----------------------------------------------------------------------------
Goto(r, from, to) == pc[r] = from /\ pc' = [pc EXCEPT ![r] = to]
Judge(r, status) == verdict' = [verdict EXCEPT ![r] = status]

\* The guards of _open_output and _check_result.
Owns(r) == owner = setup[r]
Ours(r) == shown = None \/ setup[shown.run] = setup[r]

Launch(r) ==
    /\ Goto(r, "idle", "start")
    /\ UNCHANGED <<setup, disk, locals, child, history>>

\* os.mkdir: whoever makes the directory adopts it, the others check it.
OpenOutput(r) ==
    /\ Goto(r, "start", IF made THEN "check" ELSE "adopt")
    /\ made' = TRUE
    /\ UNCHANGED <<setup, owner, lock, tmp, stage, export, shown, locals, child, history>>

WriteOwner(r) ==
    /\ Goto(r, "adopt", "lock")
    /\ owner' = setup[r]
    /\ UNCHANGED <<setup, made, lock, tmp, stage, export, shown, locals, child, history>>

CheckOwner(r) ==
    /\ Goto(r, "check", IF Owns(r) /\ Ours(r) THEN "lock" ELSE "report")
    /\ UNCHANGED <<setup, disk, locals, child, history>>

\* Faulty variant: the lock is opened without O_EXCL.
TakeLockShared(r) ==
    /\ Goto(r, "lock", "locked")
    /\ lock' = r
    /\ UNCHANGED <<setup, made, owner, tmp, stage, export, shown, locals, child, history>>

TakeLock(r) ==
    /\ Goto(r, "lock", IF lock = None THEN "locked" ELSE "report")
    /\ lock' = IF lock = None THEN r ELSE lock
    /\ UNCHANGED <<setup, made, owner, tmp, stage, export, shown, locals, child, history>>

KnowLock(r) ==
    /\ Goto(r, "locked", "announce")
    /\ held' = [held EXCEPT ![r] = TRUE]
    /\ UNCHANGED <<setup, disk, mine, verdict, done, receipt, child, history>>

\* _publish up to the exclusive .result.tmp, for either document.
OpenDocument(r, from, to) ==
    /\ Goto(r, from, IF Ours(r) /\ tmp = None THEN to ELSE "unlock")
    /\ tmp' = IF Ours(r) /\ tmp = None THEN r ELSE tmp
    /\ UNCHANGED <<setup, made, owner, lock, stage, export, shown, locals, child, history>>

\* os.replace: the document appears and the temporary file is gone.
Announce(r) ==
    /\ Goto(r, "announcing", "config")
    /\ shown' = [run |-> r, status |-> "running"] /\ past' = past \cup {r}
    /\ tmp' = None
    /\ UNCHANGED <<setup, made, owner, lock, stage, export, locals, child, struck, killed, used,
                   loose>>

CheckConfig(r) ==
    /\ Goto(r, "config", "stage")
    /\ UNCHANGED <<setup, disk, locals, child, history>>

\* Faulty variant: os.mkdir with exist_ok, so a stage left behind is used again.
MakeStageAgain(r) ==
    /\ Goto(r, "stage", "staged")
    /\ stage' = r
    /\ UNCHANGED <<setup, made, owner, lock, tmp, export, shown, locals, child, history>>

MakeStage(r) ==
    /\ Goto(r, "stage", IF stage = None THEN "staged" ELSE "cleanup")
    /\ stage' = IF stage = None THEN r ELSE stage
    /\ Judge(r, IF stage = None THEN verdict[r] ELSE "failed")
    /\ UNCHANGED <<setup, made, owner, lock, tmp, export, shown, held, mine, done,
                   receipt, child, history>>

KnowStage(r) ==
    /\ Goto(r, "staged", "spawn")
    /\ mine' = [mine EXCEPT ![r] = TRUE]
    /\ UNCHANGED <<setup, disk, held, verdict, done, receipt, child, history>>

Spawn(r) ==
    /\ Goto(r, "spawn", "spawned")
    /\ child' = [child EXCEPT ![r] = "running"]
    /\ UNCHANGED <<setup, disk, locals, history>>

\* The try of execute_native begins after Popen has returned.
Watch(r) ==
    /\ Goto(r, "spawned", "native")
    /\ UNCHANGED <<setup, disk, locals, child, history>>

NativeEnds(r) ==
    /\ Goto(r, "native", "collect") /\ child[r] # "running"
    /\ UNCHANGED <<setup, disk, locals, child, history>>

\* Faulty variant: no deadline on the native process.
NativeLimitNever(r) == FALSE /\ UNCHANGED vars

\* The deadline passes or the output grows beyond its bound.
NativeLimit(r) ==
    /\ Goto(r, "native", "reaping") /\ child[r] = "running"
    /\ UNCHANGED <<setup, disk, locals, child, history>>

Reap(r) ==
    /\ Goto(r, "reaping", "cleanup")
    /\ child' = [child EXCEPT ![r] = IF @ = "running" THEN "bad" ELSE @]
    /\ Judge(r, "failed")
    /\ UNCHANGED <<setup, disk, held, mine, done, receipt, history>>

Acceptable(r) == child[r] = "ok" /\ export # None /\ export.valid

Collect(r) ==
    /\ Goto(r, "collect", "cleanup")
    /\ Judge(r, IF Acceptable(r) THEN "succeeded" ELSE "failed")
    /\ used' = [used EXCEPT ![r] = IF Acceptable(r) THEN export ELSE @]
    /\ UNCHANGED <<setup, disk, held, mine, done, receipt, child, struck, killed,
                   loose, past>>

\* An OSError of any step of the inner try, or a config whose hash differs.
Fails(r) ==
    /\ \E at \in Guarded \ {"native", "reaping"} : Goto(r, at, "cleanup")
    /\ pc[r] # "spawned"
    /\ Judge(r, "failed")
    /\ mine' = [mine EXCEPT ![r] = @ \/ pc[r] = "staged"]
    /\ UNCHANGED <<setup, disk, held, done, receipt, child, history>>

\* Faulty variant: the lock goes with the stage, before the result is out.
CleanupUnlocks(r) ==
    /\ Goto(r, "cleanup", "conclude")
    /\ stage' = IF mine[r] THEN None ELSE stage
    /\ export' = IF mine[r] THEN None ELSE export
    /\ lock' = None
    /\ UNCHANGED <<setup, made, owner, tmp, shown, locals, child, history>>

Cleanup(r) ==
    /\ Goto(r, "cleanup", "conclude")
    /\ stage' = IF mine[r] THEN None ELSE stage
    /\ export' = IF mine[r] THEN None ELSE export
    /\ UNCHANGED <<setup, made, owner, lock, tmp, shown, locals, child, history>>

CleanupFails(r) ==
    /\ Goto(r, "cleanup", "conclude") /\ mine[r]
    /\ Judge(r, "failed")
    /\ UNCHANGED <<setup, disk, held, mine, done, receipt, child, history>>

Conclude(r) ==
    /\ Goto(r, "concluding", "unlock")
    /\ shown' = [run |-> r, status |-> verdict[r]]
    /\ tmp' = None /\ done' = [done EXCEPT ![r] = TRUE]
    /\ UNCHANGED <<setup, made, owner, lock, stage, export, held, mine, verdict, receipt,
                   child, history>>

Unlock(r) ==
    /\ Goto(r, "unlock", "report")
    /\ lock' = IF held[r] THEN None ELSE lock
    /\ UNCHANGED <<setup, made, owner, tmp, stage, export, shown, locals, child, history>>

\* invocation_receipt: published is whether run returned.
Report(r) ==
    /\ Goto(r, "report", "ended")
    /\ receipt' = [receipt EXCEPT
        ![r] = IF done[r] /\ verdict[r] = "succeeded" THEN "succeeded" ELSE "failed"]
    /\ UNCHANGED <<setup, disk, held, mine, verdict, done, child, history>>

LauncherStep(r) ==
    \/ OpenOutput(r) \/ WriteOwner(r) \/ CheckOwner(r) \/ TakeLock(r) \/ KnowLock(r)
    \/ OpenDocument(r, "announce", "announcing") \/ Announce(r)
    \/ CheckConfig(r) \/ MakeStage(r) \/ KnowStage(r) \/ Spawn(r) \/ Watch(r)
    \/ NativeEnds(r) \/ NativeLimit(r) \/ Reap(r) \/ Collect(r) \/ Fails(r)
    \/ Cleanup(r) \/ CleanupFails(r)
    \/ OpenDocument(r, "conclude", "concluding") \/ Conclude(r)
    \/ Unlock(r) \/ Report(r)

----------------------------------------------------------------------------
(* The native process writes to a path inside .stage, whoever made it.     *)

ChildExports(r, valid) ==
    /\ child[r] = "running" /\ stage # None
    /\ export' = [by |-> r, valid |-> valid]
    /\ UNCHANGED <<setup, made, owner, lock, tmp, stage, shown, pc, locals, child, history>>

ChildExits(r, code) ==
    /\ child[r] = "running"
    /\ child' = [child EXCEPT ![r] = code]
    /\ UNCHANGED <<setup, disk, pc, locals, history>>

----------------------------------------------------------------------------
(* Signals: _interrupted raises in whatever statement is being executed.   *)

\* The launcher was already past its try statements, or before them.
Escape(r) ==
    /\ \E at \in Opening \cup {"locked", "announce", "config", "cleanup", "conclude"} :
        Goto(r, at, "unlock")
    /\ UNCHANGED <<disk, locals, child, loose>>

\* Inside _write_new the temporary file stays; in the try of _publish it goes.
EscapeDocument(r) ==
    /\ \E at \in {"announcing", "concluding"} : Goto(r, at, "unlock")
    /\ tmp' \in {tmp, None}
    /\ UNCHANGED <<made, owner, lock, stage, export, shown, locals, child, loose>>

\* The except of the inner try; between Popen and the try of execute_native
\* nobody has been told of the child, nor of .stage before staged is set.
Guard(r) ==
    /\ \E at \in Guarded \ {"native"} : Goto(r, at, "cleanup")
    /\ Judge(r, "failed")
    /\ loose' = IF child[r] = "running" THEN loose \cup {r} ELSE loose
    /\ UNCHANGED <<disk, held, mine, done, receipt, child>>

GuardNative(r) ==
    /\ \E at \in {"native", "reaping"} : Goto(r, at, "reaping")
    /\ UNCHANGED <<disk, locals, child, loose>>

GuardCleanup(r) ==
    /\ Goto(r, "cleanup", "conclude") /\ mine[r]
    /\ Judge(r, "failed")
    /\ UNCHANGED <<disk, held, mine, done, receipt, child, loose>>

\* In the outer finally, before or after the lock is removed.
EscapeUnlock(r) ==
    /\ \E at \in {"unlock", "report"}, to \in {"unlock", "report"} :
        Goto(r, at, to) /\ (at = "report" => to = "report")
    /\ done' = [done EXCEPT ![r] = FALSE]
    /\ UNCHANGED <<disk, held, mine, verdict, receipt, child, loose>>

\* The handler makes the signal it caught ignored from then on.
Interrupt(r) ==
    /\ Cardinality(struck) < MaxFaults
    /\ \E signum \in {"SIGTERM", "SIGINT"} :
        <<r, signum>> \notin struck /\ struck' = struck \cup {<<r, signum>>}
    /\ \/ Escape(r) \/ EscapeDocument(r) \/ Guard(r) \/ GuardNative(r)
       \/ GuardCleanup(r) \/ EscapeUnlock(r)
    /\ UNCHANGED <<setup, killed, used, past>>

\* A full disk: _write_new has made the file and raises, and nothing removes it.
WriteFails(r) ==
    /\ Cardinality(struck) < MaxFaults
    /\ \E at \in {"adopt", "locked", "announcing", "concluding"} :
        Goto(r, at, IF at = "adopt" THEN "report" ELSE "unlock")
    /\ struck' = struck \cup {<<r, "ENOSPC">>}
    /\ UNCHANGED <<setup, disk, locals, child, killed, used, loose, past>>

\* SIGKILL or a lost machine; the child is in a session of its own.
Kill(r) ==
    /\ \E at \in Steps : Goto(r, at, "killed")
    /\ Cardinality(killed) < MaxKills
    /\ killed' = killed \cup {r}
    /\ UNCHANGED <<setup, disk, locals, child, struck, used, loose, past>>

Next == \E r \in Runs :
    \/ Launch(r) \/ LauncherStep(r) \/ Interrupt(r) \/ WriteFails(r) \/ Kill(r)
    \/ \E valid \in BOOLEAN : ChildExports(r, valid)
    \/ \E code \in {"ok", "bad"} : ChildExits(r, code)

Spec ==
    /\ Init /\ [][Next]_vars
    /\ \A r \in Runs : WF_vars(LauncherStep(r))

----------------------------------------------------------------------------
(* Properties. *)

Holding(r) == held[r] /\ pc[r] \notin Ended \cup {"report"}

\* Launchers exclude one another by the lock file alone: whoever believes to
\* hold it is the one that made it, and only that launcher has a document or
\* a stage open (gavinying_launcher.py:269-273).
OneHolder ==
    /\ \A r \in Runs : Holding(r) => lock = r
    /\ \A r \in Runs : pc[r] \in Inside => Holding(r)

\* Values are shown as current only when the setup that owns the directory
\* ran a native process to a clean exit in that very pass and its export was
\* valid.  The export is that process's own, or that of a child whose launcher
\* was struck between Popen and the try and forgot it while it ran: such a child
\* still writes to the path it was given, where the stage of this pass may be by
\* then (gavinying_launcher.py:294-308).
Earned ==
    shown # None =>
        /\ setup[shown.run] = owner
        /\ shown.status = "succeeded" =>
            /\ child[shown.run] = "ok"
            /\ used[shown.run] # None /\ used[shown.run].valid
            /\ used[shown.run].by \in {shown.run} \cup loose

\* A receipt says succeeded only of a pass whose values were published
\* (gavinying_launcher.py:351-362).
ReceiptTrue ==
    \A r \in Runs : receipt[r] = "succeeded" =>
        r \in past /\ (shown.run = r => shown.status = "succeeded")

\* Every launcher comes to an end, whatever its child does and wherever a
\* signal finds it (gavinying_launcher.py:97-134).
Ends == \A r \in Runs : pc[r] = "start" ~> pc[r] \in Ended

\* What a reader of result.json sees is the line of passes OutputRecord
\* promises, however launchers of one setup or of several meet, stop or die.
Record == INSTANCE OutputRecord
ImplementsRecord == Record!Spec

=============================================================================

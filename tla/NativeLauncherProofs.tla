------------------------ MODULE NativeLauncherProofs ------------------------
(***************************************************************************)
(* What holds of NativeLauncher for any number of launchers, setups,       *)
(* signals and deaths: the exclusion by the lock, the origin of the values *)
(* shown as current, and that result.json implements OutputRecord.         *)
(***************************************************************************)
EXTENDS NativeLauncher, TLAPS

Staged == {"staged", "spawn", "spawned", "native", "reaping", "collect"}
Announced == Guarded \cup {"cleanup", "conclude", "concluding"}
Finishing == {"unlock", "report"} \cup Ended

\* Where a launcher stands tells whether it knows of its lock.
LockInv == \A r \in Runs :
    /\ pc[r] \in Opening \cup {"idle", "locked"} => ~held[r]
    /\ pc[r] = "locked" => lock = r
    /\ pc[r] \in Inside => held[r]
    /\ pc[r] \in Inside \cup {"unlock"} /\ held[r] => lock = r

\* The directory has one setup, and only its launchers come past the check.
OwnerInv ==
    /\ owner # None => made
    /\ past # {} => owner # None
    /\ \A r \in Runs :
        /\ pc[r] = "adopt" => made /\ owner = None
        /\ pc[r] \in {"lock", "locked"} \cup Inside => owner = setup[r]
        /\ r \in past => owner = setup[r]
        /\ \A q \in Runs : pc[r] = "adopt" /\ pc[q] = "adopt" => q = r

\* The document belongs to the last run that announced itself, and waits for
\* the end of that run while it is under way.
ShownInv ==
    /\ shown # None => shown.run \in past
    /\ \A r \in Runs :
        /\ pc[r] \in {"idle", "locked", "announce", "announcing"} \cup Opening => r \notin past
        /\ pc[r] \in Announced => shown = [run |-> r, status |-> "running"]
        /\ done[r] => pc[r] \in Finishing /\ r \in past
        /\ done[r] /\ shown.run = r => shown.status = verdict[r]

\* Who may write into the stage that is there.
StageInv ==
    /\ stage = None => export = None
    /\ export # None => export.by \in {stage} \cup loose
    /\ \A r \in Runs :
        /\ pc[r] \in Staged => stage = r
        /\ mine[r] /\ pc[r] = "cleanup" => stage = r
        /\ mine[r] => pc[r] \in Staged \cup {"cleanup", "conclude", "concluding"} \cup Finishing
        /\ child[r] = "running" => r \in loose \/
            (stage = r /\ lock = r /\ held[r] /\ pc[r] \in {"spawned", "native", "reaping", "killed"})

\* A verdict of success has its reasons.
VerdictInv == \A r \in Runs :
    /\ pc[r] \in Staged => verdict[r] = "running"
    /\ pc[r] \in Opening \cup {"idle", "locked", "announce", "announcing", "config", "stage"} =>
        verdict[r] = "running"
    /\ child[r] # "none" => verdict[r] # "running" \/ pc[r] \in Staged \cup Finishing
    /\ verdict[r] = "succeeded" \/ (shown # None /\ shown = [run |-> r, status |-> "succeeded"]) =>
        /\ child[r] = "ok"
        /\ used[r] # None /\ used[r].valid
        /\ used[r].by \in {r} \cup loose
    /\ receipt[r] = "succeeded" => done[r] /\ verdict[r] = "succeeded" /\ pc[r] \in Ended

IInv == TypeOK /\ LockInv /\ OwnerInv /\ ShownInv /\ StageInv /\ VerdictInv

----------------------------------------------------------------------------
\* Every step keeps the types.
LEMMA TypeNext == TypeOK /\ [Next]_vars => TypeOK'
<1> SUFFICES ASSUME TypeOK, [Next]_vars PROVE TypeOK'
  OBVIOUS
<1> USE DEF TypeOK, Faults, Document, Export, Opening, Guarded, Inside, Ended, Steps, Staged, Announced, Finishing
<1>1. CASE UNCHANGED vars
  BY <1>1 DEF vars, disk, locals, history
<1>2. ASSUME NEW r \in Runs, Launch(r) \/ LauncherStep(r) \/ Interrupt(r) \/ WriteFails(r) \/ Kill(r)
      PROVE TypeOK'
  <2>1. CASE Launch(r)
    BY <1>2, <2>1 DEF Launch, Goto, Judge, Owns, Ours, disk, locals, history
  <2>2. CASE OpenOutput(r)
    BY <1>2, <2>2 DEF OpenOutput, Goto, Judge, Owns, Ours, disk, locals, history
  <2>3. CASE WriteOwner(r)
    BY <1>2, <2>3 DEF WriteOwner, Goto, Judge, Owns, Ours, disk, locals, history
  <2>4. CASE CheckOwner(r)
    BY <1>2, <2>4 DEF CheckOwner, Goto, Judge, Owns, Ours, disk, locals, history
  <2>5. CASE TakeLock(r)
    BY <1>2, <2>5 DEF TakeLock, Goto, Judge, Owns, Ours, disk, locals, history
  <2>6. CASE KnowLock(r)
    BY <1>2, <2>6 DEF KnowLock, Goto, Judge, Owns, Ours, disk, locals, history
  <2>7. CASE OpenDocument(r, "announce", "announcing")
    BY <1>2, <2>7 DEF OpenDocument, Goto, Judge, Owns, Ours, disk, locals, history
  <2>8. CASE Announce(r)
    BY <1>2, <2>8 DEF Announce, Goto, Judge, Owns, Ours, disk, locals, history
  <2>9. CASE CheckConfig(r)
    BY <1>2, <2>9 DEF CheckConfig, Goto, Judge, Owns, Ours, disk, locals, history
  <2>10. CASE MakeStage(r)
    BY <1>2, <2>10 DEF MakeStage, Goto, Judge, Owns, Ours, disk, locals, history
  <2>11. CASE KnowStage(r)
    BY <1>2, <2>11 DEF KnowStage, Goto, Judge, Owns, Ours, disk, locals, history
  <2>12. CASE Spawn(r)
    BY <1>2, <2>12 DEF Spawn, Goto, Judge, Owns, Ours, disk, locals, history
  <2>13. CASE Watch(r)
    BY <1>2, <2>13 DEF Watch, Goto, Judge, Owns, Ours, disk, locals, history
  <2>14. CASE NativeEnds(r)
    BY <1>2, <2>14 DEF NativeEnds, Goto, Judge, Owns, Ours, disk, locals, history
  <2>15. CASE NativeLimit(r)
    BY <1>2, <2>15 DEF NativeLimit, Goto, Judge, Owns, Ours, disk, locals, history
  <2>16. CASE Reap(r)
    BY <1>2, <2>16 DEF Reap, Goto, Judge, Owns, Ours, disk, locals, history
  <2>17. CASE Collect(r)
    BY <1>2, <2>17 DEF Collect, Acceptable, Goto, Judge, Owns, Ours, disk, locals, history
  <2>18. CASE Fails(r)
    BY <1>2, <2>18 DEF Fails, Goto, Judge, Owns, Ours, disk, locals, history
  <2>19. CASE Cleanup(r)
    BY <1>2, <2>19 DEF Cleanup, Goto, Judge, Owns, Ours, disk, locals, history
  <2>20. CASE CleanupFails(r)
    BY <1>2, <2>20 DEF CleanupFails, Goto, Judge, Owns, Ours, disk, locals, history
  <2>21. CASE OpenDocument(r, "conclude", "concluding")
    BY <1>2, <2>21 DEF OpenDocument, Goto, Judge, Owns, Ours, disk, locals, history
  <2>22. CASE Conclude(r)
    BY <1>2, <2>22 DEF Conclude, Goto, Judge, Owns, Ours, disk, locals, history
  <2>23. CASE Unlock(r)
    BY <1>2, <2>23 DEF Unlock, Goto, Judge, Owns, Ours, disk, locals, history
  <2>24. CASE Report(r)
    BY <1>2, <2>24 DEF Report, Goto, Judge, Owns, Ours, disk, locals, history
  <2>25. CASE Interrupt(r)
    <3>1. struck' \subseteq Runs \X Faults /\ UNCHANGED <<setup, killed, used, past>>
      BY <2>25 DEF Interrupt
    <3>2. CASE Escape(r)
      BY <1>2, <3>1, <3>2 DEF Escape, Goto, Judge, disk, locals
    <3>3. CASE EscapeDocument(r)
      BY <1>2, <3>1, <3>3 DEF EscapeDocument, Goto, Judge, disk, locals
    <3>4. CASE Guard(r)
      BY <1>2, <3>1, <3>4 DEF Guard, Goto, Judge, disk, locals
    <3>5. CASE GuardNative(r)
      BY <1>2, <3>1, <3>5 DEF GuardNative, Goto, Judge, disk, locals
    <3>6. CASE GuardCleanup(r)
      BY <1>2, <3>1, <3>6 DEF GuardCleanup, Goto, Judge, disk, locals
    <3>7. CASE EscapeUnlock(r)
      BY <1>2, <3>1, <3>7 DEF EscapeUnlock, Goto, Judge, disk, locals
    <3> QED BY <2>25, <3>2, <3>3, <3>4, <3>5, <3>6, <3>7 DEF Interrupt
  <2>26. CASE WriteFails(r)
    BY <1>2, <2>26 DEF WriteFails, Goto, Judge, Owns, Ours, disk, locals, history
  <2>27. CASE Kill(r)
    BY <1>2, <2>27 DEF Kill, Goto, Judge, Owns, Ours, disk, locals, history
  <2> QED BY <1>2, <2>1, <2>2, <2>3, <2>4, <2>5, <2>6, <2>7, <2>8, <2>9, <2>10, <2>11, <2>12, <2>13, <2>14, <2>15, <2>16, <2>17, <2>18, <2>19, <2>20, <2>21, <2>22, <2>23, <2>24, <2>25, <2>26, <2>27 DEF LauncherStep
<1>3. ASSUME NEW r \in Runs, NEW valid \in BOOLEAN, ChildExports(r, valid)
      PROVE TypeOK'
  BY <1>3 DEF ChildExports, locals, history
<1>4. ASSUME NEW r \in Runs, NEW code \in {"ok", "bad"}, ChildExits(r, code)
      PROVE TypeOK'
  BY <1>4 DEF ChildExits, disk, locals, history
<1> QED BY <1>1, <1>2, <1>3, <1>4 DEF Next

----------------------------------------------------------------------------
\* The lock file names its holder.
LEMMA LockNext == TypeOK /\ LockInv /\ [Next]_vars => LockInv'
<1> SUFFICES ASSUME TypeOK /\ LockInv, [Next]_vars PROVE LockInv'
  OBVIOUS
<1> USE NoneAssumption DEF TypeOK, LockInv, Opening, Guarded, Inside, Ended, Steps, Staged, Announced, Finishing
<1>1. CASE UNCHANGED vars
  BY <1>1 DEF vars, disk, locals, history
<1>2. ASSUME NEW r \in Runs, Launch(r) \/ LauncherStep(r) \/ Interrupt(r) \/ WriteFails(r) \/ Kill(r)
      PROVE LockInv'
  <2>1. CASE Launch(r)
    BY <1>2, <2>1 DEF Launch, Goto, Judge, Owns, Ours, disk, locals, history
  <2>2. CASE OpenOutput(r)
    BY <1>2, <2>2 DEF OpenOutput, Goto, Judge, Owns, Ours, disk, locals, history
  <2>3. CASE WriteOwner(r)
    BY <1>2, <2>3 DEF WriteOwner, Goto, Judge, Owns, Ours, disk, locals, history
  <2>4. CASE CheckOwner(r)
    BY <1>2, <2>4 DEF CheckOwner, Goto, Judge, Owns, Ours, disk, locals, history
  <2>5. CASE TakeLock(r)
    BY <1>2, <2>5 DEF TakeLock, Goto, Judge, Owns, Ours, disk, locals, history
  <2>6. CASE KnowLock(r)
    BY <1>2, <2>6 DEF KnowLock, Goto, Judge, Owns, Ours, disk, locals, history
  <2>7. CASE OpenDocument(r, "announce", "announcing")
    BY <1>2, <2>7 DEF OpenDocument, Goto, Judge, Owns, Ours, disk, locals, history
  <2>8. CASE Announce(r)
    BY <1>2, <2>8 DEF Announce, Goto, Judge, Owns, Ours, disk, locals, history
  <2>9. CASE CheckConfig(r)
    BY <1>2, <2>9 DEF CheckConfig, Goto, Judge, Owns, Ours, disk, locals, history
  <2>10. CASE MakeStage(r)
    BY <1>2, <2>10 DEF MakeStage, Goto, Judge, Owns, Ours, disk, locals, history
  <2>11. CASE KnowStage(r)
    BY <1>2, <2>11 DEF KnowStage, Goto, Judge, Owns, Ours, disk, locals, history
  <2>12. CASE Spawn(r)
    BY <1>2, <2>12 DEF Spawn, Goto, Judge, Owns, Ours, disk, locals, history
  <2>13. CASE Watch(r)
    BY <1>2, <2>13 DEF Watch, Goto, Judge, Owns, Ours, disk, locals, history
  <2>14. CASE NativeEnds(r)
    BY <1>2, <2>14 DEF NativeEnds, Goto, Judge, Owns, Ours, disk, locals, history
  <2>15. CASE NativeLimit(r)
    BY <1>2, <2>15 DEF NativeLimit, Goto, Judge, Owns, Ours, disk, locals, history
  <2>16. CASE Reap(r)
    BY <1>2, <2>16 DEF Reap, Goto, Judge, Owns, Ours, disk, locals, history
  <2>17. CASE Collect(r)
    BY <1>2, <2>17 DEF Collect, Acceptable, Goto, Judge, Owns, Ours, disk, locals, history
  <2>18. CASE Fails(r)
    BY <1>2, <2>18 DEF Fails, Goto, Judge, Owns, Ours, disk, locals, history
  <2>19. CASE Cleanup(r)
    BY <1>2, <2>19 DEF Cleanup, Goto, Judge, Owns, Ours, disk, locals, history
  <2>20. CASE CleanupFails(r)
    BY <1>2, <2>20 DEF CleanupFails, Goto, Judge, Owns, Ours, disk, locals, history
  <2>21. CASE OpenDocument(r, "conclude", "concluding")
    BY <1>2, <2>21 DEF OpenDocument, Goto, Judge, Owns, Ours, disk, locals, history
  <2>22. CASE Conclude(r)
    BY <1>2, <2>22 DEF Conclude, Goto, Judge, Owns, Ours, disk, locals, history
  <2>23. CASE Unlock(r)
    BY <1>2, <2>23 DEF Unlock, Goto, Judge, Owns, Ours, disk, locals, history
  <2>24. CASE Report(r)
    BY <1>2, <2>24 DEF Report, Goto, Judge, Owns, Ours, disk, locals, history
  <2>25. CASE Interrupt(r)
    BY <1>2, <2>25 DEF Interrupt, Escape, EscapeDocument, Guard, GuardNative, GuardCleanup, EscapeUnlock, Goto, Judge, Owns, Ours, disk, locals, history
  <2>26. CASE WriteFails(r)
    BY <1>2, <2>26 DEF WriteFails, Goto, Judge, Owns, Ours, disk, locals, history
  <2>27. CASE Kill(r)
    BY <1>2, <2>27 DEF Kill, Goto, Judge, Owns, Ours, disk, locals, history
  <2> QED BY <1>2, <2>1, <2>2, <2>3, <2>4, <2>5, <2>6, <2>7, <2>8, <2>9, <2>10, <2>11, <2>12, <2>13, <2>14, <2>15, <2>16, <2>17, <2>18, <2>19, <2>20, <2>21, <2>22, <2>23, <2>24, <2>25, <2>26, <2>27 DEF LauncherStep
<1>3. ASSUME NEW r \in Runs, NEW valid \in BOOLEAN, ChildExports(r, valid)
      PROVE LockInv'
  BY <1>3 DEF ChildExports, locals, history
<1>4. ASSUME NEW r \in Runs, NEW code \in {"ok", "bad"}, ChildExits(r, code)
      PROVE LockInv'
  BY <1>4 DEF ChildExits, disk, locals, history
<1> QED BY <1>1, <1>2, <1>3, <1>4 DEF Next

----------------------------------------------------------------------------
\* A directory keeps its setup.
LEMMA OwnerNext == TypeOK /\ OwnerInv /\ [Next]_vars => OwnerInv'
<1> SUFFICES ASSUME TypeOK /\ OwnerInv, [Next]_vars PROVE OwnerInv'
  OBVIOUS
<1> USE NoneAssumption DEF TypeOK, OwnerInv, Opening, Guarded, Inside, Ended, Steps, Staged, Announced, Finishing
<1>1. CASE UNCHANGED vars
  BY <1>1 DEF vars, disk, locals, history
<1>2. ASSUME NEW r \in Runs, Launch(r) \/ LauncherStep(r) \/ Interrupt(r) \/ WriteFails(r) \/ Kill(r)
      PROVE OwnerInv'
  <2>1. CASE Launch(r)
    BY <1>2, <2>1 DEF Launch, Goto, Judge, Owns, Ours, disk, locals, history
  <2>2. CASE OpenOutput(r)
    BY <1>2, <2>2 DEF OpenOutput, Goto, Judge, Owns, Ours, disk, locals, history
  <2>3. CASE WriteOwner(r)
    BY <1>2, <2>3 DEF WriteOwner, Goto, Judge, Owns, Ours, disk, locals, history
  <2>4. CASE CheckOwner(r)
    BY <1>2, <2>4 DEF CheckOwner, Goto, Judge, Owns, Ours, disk, locals, history
  <2>5. CASE TakeLock(r)
    BY <1>2, <2>5 DEF TakeLock, Goto, Judge, Owns, Ours, disk, locals, history
  <2>6. CASE KnowLock(r)
    BY <1>2, <2>6 DEF KnowLock, Goto, Judge, Owns, Ours, disk, locals, history
  <2>7. CASE OpenDocument(r, "announce", "announcing")
    BY <1>2, <2>7 DEF OpenDocument, Goto, Judge, Owns, Ours, disk, locals, history
  <2>8. CASE Announce(r)
    BY <1>2, <2>8 DEF Announce, Goto, Judge, Owns, Ours, disk, locals, history
  <2>9. CASE CheckConfig(r)
    BY <1>2, <2>9 DEF CheckConfig, Goto, Judge, Owns, Ours, disk, locals, history
  <2>10. CASE MakeStage(r)
    BY <1>2, <2>10 DEF MakeStage, Goto, Judge, Owns, Ours, disk, locals, history
  <2>11. CASE KnowStage(r)
    BY <1>2, <2>11 DEF KnowStage, Goto, Judge, Owns, Ours, disk, locals, history
  <2>12. CASE Spawn(r)
    BY <1>2, <2>12 DEF Spawn, Goto, Judge, Owns, Ours, disk, locals, history
  <2>13. CASE Watch(r)
    BY <1>2, <2>13 DEF Watch, Goto, Judge, Owns, Ours, disk, locals, history
  <2>14. CASE NativeEnds(r)
    BY <1>2, <2>14 DEF NativeEnds, Goto, Judge, Owns, Ours, disk, locals, history
  <2>15. CASE NativeLimit(r)
    BY <1>2, <2>15 DEF NativeLimit, Goto, Judge, Owns, Ours, disk, locals, history
  <2>16. CASE Reap(r)
    BY <1>2, <2>16 DEF Reap, Goto, Judge, Owns, Ours, disk, locals, history
  <2>17. CASE Collect(r)
    BY <1>2, <2>17 DEF Collect, Acceptable, Goto, Judge, Owns, Ours, disk, locals, history
  <2>18. CASE Fails(r)
    BY <1>2, <2>18 DEF Fails, Goto, Judge, Owns, Ours, disk, locals, history
  <2>19. CASE Cleanup(r)
    BY <1>2, <2>19 DEF Cleanup, Goto, Judge, Owns, Ours, disk, locals, history
  <2>20. CASE CleanupFails(r)
    BY <1>2, <2>20 DEF CleanupFails, Goto, Judge, Owns, Ours, disk, locals, history
  <2>21. CASE OpenDocument(r, "conclude", "concluding")
    BY <1>2, <2>21 DEF OpenDocument, Goto, Judge, Owns, Ours, disk, locals, history
  <2>22. CASE Conclude(r)
    BY <1>2, <2>22 DEF Conclude, Goto, Judge, Owns, Ours, disk, locals, history
  <2>23. CASE Unlock(r)
    BY <1>2, <2>23 DEF Unlock, Goto, Judge, Owns, Ours, disk, locals, history
  <2>24. CASE Report(r)
    BY <1>2, <2>24 DEF Report, Goto, Judge, Owns, Ours, disk, locals, history
  <2>25. CASE Interrupt(r)
    BY <1>2, <2>25 DEF Interrupt, Escape, EscapeDocument, Guard, GuardNative, GuardCleanup, EscapeUnlock, Goto, Judge, Owns, Ours, disk, locals, history
  <2>26. CASE WriteFails(r)
    BY <1>2, <2>26 DEF WriteFails, Goto, Judge, Owns, Ours, disk, locals, history
  <2>27. CASE Kill(r)
    BY <1>2, <2>27 DEF Kill, Goto, Judge, Owns, Ours, disk, locals, history
  <2> QED BY <1>2, <2>1, <2>2, <2>3, <2>4, <2>5, <2>6, <2>7, <2>8, <2>9, <2>10, <2>11, <2>12, <2>13, <2>14, <2>15, <2>16, <2>17, <2>18, <2>19, <2>20, <2>21, <2>22, <2>23, <2>24, <2>25, <2>26, <2>27 DEF LauncherStep
<1>3. ASSUME NEW r \in Runs, NEW valid \in BOOLEAN, ChildExports(r, valid)
      PROVE OwnerInv'
  BY <1>3 DEF ChildExports, locals, history
<1>4. ASSUME NEW r \in Runs, NEW code \in {"ok", "bad"}, ChildExits(r, code)
      PROVE OwnerInv'
  BY <1>4 DEF ChildExits, disk, locals, history
<1> QED BY <1>1, <1>2, <1>3, <1>4 DEF Next

----------------------------------------------------------------------------
\* Only the holder of the lock replaces the document.
LEMMA ShownNext == TypeOK /\ LockInv /\ ShownInv /\ [Next]_vars => ShownInv'
<1> SUFFICES ASSUME TypeOK /\ LockInv /\ ShownInv, [Next]_vars PROVE ShownInv'
  OBVIOUS
<1> USE NoneAssumption DEF TypeOK, Document, LockInv, ShownInv, Opening, Guarded, Inside, Ended, Steps, Staged, Announced, Finishing
<1>1. CASE UNCHANGED vars
  BY <1>1 DEF vars, disk, locals, history
<1>2. ASSUME NEW r \in Runs, Launch(r) \/ LauncherStep(r) \/ Interrupt(r) \/ WriteFails(r) \/ Kill(r)
      PROVE ShownInv'
  <2>1. CASE Launch(r)
    BY <1>2, <2>1 DEF Launch, Goto, Judge, Owns, Ours, disk, locals, history
  <2>2. CASE OpenOutput(r)
    BY <1>2, <2>2 DEF OpenOutput, Goto, Judge, Owns, Ours, disk, locals, history
  <2>3. CASE WriteOwner(r)
    BY <1>2, <2>3 DEF WriteOwner, Goto, Judge, Owns, Ours, disk, locals, history
  <2>4. CASE CheckOwner(r)
    BY <1>2, <2>4 DEF CheckOwner, Goto, Judge, Owns, Ours, disk, locals, history
  <2>5. CASE TakeLock(r)
    BY <1>2, <2>5 DEF TakeLock, Goto, Judge, Owns, Ours, disk, locals, history
  <2>6. CASE KnowLock(r)
    BY <1>2, <2>6 DEF KnowLock, Goto, Judge, Owns, Ours, disk, locals, history
  <2>7. CASE OpenDocument(r, "announce", "announcing")
    BY <1>2, <2>7 DEF OpenDocument, Goto, Judge, Owns, Ours, disk, locals, history
  <2>8. CASE Announce(r)
    BY <1>2, <2>8 DEF Announce, Goto, Judge, Owns, Ours, disk, locals, history
  <2>9. CASE CheckConfig(r)
    BY <1>2, <2>9 DEF CheckConfig, Goto, Judge, Owns, Ours, disk, locals, history
  <2>10. CASE MakeStage(r)
    BY <1>2, <2>10 DEF MakeStage, Goto, Judge, Owns, Ours, disk, locals, history
  <2>11. CASE KnowStage(r)
    BY <1>2, <2>11 DEF KnowStage, Goto, Judge, Owns, Ours, disk, locals, history
  <2>12. CASE Spawn(r)
    BY <1>2, <2>12 DEF Spawn, Goto, Judge, Owns, Ours, disk, locals, history
  <2>13. CASE Watch(r)
    BY <1>2, <2>13 DEF Watch, Goto, Judge, Owns, Ours, disk, locals, history
  <2>14. CASE NativeEnds(r)
    BY <1>2, <2>14 DEF NativeEnds, Goto, Judge, Owns, Ours, disk, locals, history
  <2>15. CASE NativeLimit(r)
    BY <1>2, <2>15 DEF NativeLimit, Goto, Judge, Owns, Ours, disk, locals, history
  <2>16. CASE Reap(r)
    BY <1>2, <2>16 DEF Reap, Goto, Judge, Owns, Ours, disk, locals, history
  <2>17. CASE Collect(r)
    BY <1>2, <2>17 DEF Collect, Acceptable, Goto, Judge, Owns, Ours, disk, locals, history
  <2>18. CASE Fails(r)
    BY <1>2, <2>18 DEF Fails, Goto, Judge, Owns, Ours, disk, locals, history
  <2>19. CASE Cleanup(r)
    BY <1>2, <2>19 DEF Cleanup, Goto, Judge, Owns, Ours, disk, locals, history
  <2>20. CASE CleanupFails(r)
    BY <1>2, <2>20 DEF CleanupFails, Goto, Judge, Owns, Ours, disk, locals, history
  <2>21. CASE OpenDocument(r, "conclude", "concluding")
    BY <1>2, <2>21 DEF OpenDocument, Goto, Judge, Owns, Ours, disk, locals, history
  <2>22. CASE Conclude(r)
    <3>1. pc[r] = "concluding" /\ r \in past /\ shown # None
      BY <1>2, <2>22 DEF Conclude, Goto
    <3>2. /\ shown' = [run |-> r, status |-> verdict[r]]
          /\ pc' = [pc EXCEPT ![r] = "unlock"] /\ done' = [done EXCEPT ![r] = TRUE]
          /\ UNCHANGED <<past, verdict, held, lock>>
      BY <2>22 DEF Conclude, Goto, history
    <3>3. \A q \in Runs \ {r} : pc[q] \notin Announced /\ pc'[q] = pc[q] /\ done'[q] = done[q]
      BY <1>2, <3>1, <3>2
    <3>4. shown'.run = r /\ shown'.status = verdict'[r] /\ shown' # None
      BY <1>2, <3>1, <3>2
    <3> QED BY <1>2, <3>1, <3>2, <3>3, <3>4
  <2>23. CASE Unlock(r)
    BY <1>2, <2>23 DEF Unlock, Goto, Judge, Owns, Ours, disk, locals, history
  <2>24. CASE Report(r)
    BY <1>2, <2>24 DEF Report, Goto, Judge, Owns, Ours, disk, locals, history
  <2>25. CASE Interrupt(r)
    BY <1>2, <2>25 DEF Interrupt, Escape, EscapeDocument, Guard, GuardNative, GuardCleanup, EscapeUnlock, Goto, Judge, Owns, Ours, disk, locals, history
  <2>26. CASE WriteFails(r)
    BY <1>2, <2>26 DEF WriteFails, Goto, Judge, Owns, Ours, disk, locals, history
  <2>27. CASE Kill(r)
    BY <1>2, <2>27 DEF Kill, Goto, Judge, Owns, Ours, disk, locals, history
  <2> QED BY <1>2, <2>1, <2>2, <2>3, <2>4, <2>5, <2>6, <2>7, <2>8, <2>9, <2>10, <2>11, <2>12, <2>13, <2>14, <2>15, <2>16, <2>17, <2>18, <2>19, <2>20, <2>21, <2>22, <2>23, <2>24, <2>25, <2>26, <2>27 DEF LauncherStep
<1>3. ASSUME NEW r \in Runs, NEW valid \in BOOLEAN, ChildExports(r, valid)
      PROVE ShownInv'
  BY <1>3 DEF ChildExports, locals, history
<1>4. ASSUME NEW r \in Runs, NEW code \in {"ok", "bad"}, ChildExits(r, code)
      PROVE ShownInv'
  BY <1>4 DEF ChildExits, disk, locals, history
<1> QED BY <1>1, <1>2, <1>3, <1>4 DEF Next

----------------------------------------------------------------------------
\* Only the holder of the lock has a stage and a child it knows of.
LEMMA StageNext == TypeOK /\ LockInv /\ StageInv /\ [Next]_vars => StageInv'
<1> SUFFICES ASSUME TypeOK /\ LockInv /\ StageInv, [Next]_vars PROVE StageInv'
  OBVIOUS
<1> USE NoneAssumption DEF TypeOK, Export, LockInv, StageInv, Opening, Guarded, Inside, Ended, Steps, Staged, Announced, Finishing
<1>1. CASE UNCHANGED vars
  BY <1>1 DEF vars, disk, locals, history
<1>2. ASSUME NEW r \in Runs, Launch(r) \/ LauncherStep(r) \/ Interrupt(r) \/ WriteFails(r) \/ Kill(r)
      PROVE StageInv'
  <2>1. CASE Launch(r)
    BY <1>2, <2>1 DEF Launch, Goto, Judge, Owns, Ours, disk, locals, history
  <2>2. CASE OpenOutput(r)
    BY <1>2, <2>2 DEF OpenOutput, Goto, Judge, Owns, Ours, disk, locals, history
  <2>3. CASE WriteOwner(r)
    BY <1>2, <2>3 DEF WriteOwner, Goto, Judge, Owns, Ours, disk, locals, history
  <2>4. CASE CheckOwner(r)
    BY <1>2, <2>4 DEF CheckOwner, Goto, Judge, Owns, Ours, disk, locals, history
  <2>5. CASE TakeLock(r)
    BY <1>2, <2>5 DEF TakeLock, Goto, Judge, Owns, Ours, disk, locals, history
  <2>6. CASE KnowLock(r)
    BY <1>2, <2>6 DEF KnowLock, Goto, Judge, Owns, Ours, disk, locals, history
  <2>7. CASE OpenDocument(r, "announce", "announcing")
    BY <1>2, <2>7 DEF OpenDocument, Goto, Judge, Owns, Ours, disk, locals, history
  <2>8. CASE Announce(r)
    BY <1>2, <2>8 DEF Announce, Goto, Judge, Owns, Ours, disk, locals, history
  <2>9. CASE CheckConfig(r)
    BY <1>2, <2>9 DEF CheckConfig, Goto, Judge, Owns, Ours, disk, locals, history
  <2>10. CASE MakeStage(r)
    BY <1>2, <2>10 DEF MakeStage, Goto, Judge, Owns, Ours, disk, locals, history
  <2>11. CASE KnowStage(r)
    BY <1>2, <2>11 DEF KnowStage, Goto, Judge, Owns, Ours, disk, locals, history
  <2>12. CASE Spawn(r)
    BY <1>2, <2>12 DEF Spawn, Goto, Judge, Owns, Ours, disk, locals, history
  <2>13. CASE Watch(r)
    BY <1>2, <2>13 DEF Watch, Goto, Judge, Owns, Ours, disk, locals, history
  <2>14. CASE NativeEnds(r)
    BY <1>2, <2>14 DEF NativeEnds, Goto, Judge, Owns, Ours, disk, locals, history
  <2>15. CASE NativeLimit(r)
    BY <1>2, <2>15 DEF NativeLimit, Goto, Judge, Owns, Ours, disk, locals, history
  <2>16. CASE Reap(r)
    BY <1>2, <2>16 DEF Reap, Goto, Judge, Owns, Ours, disk, locals, history
  <2>17. CASE Collect(r)
    BY <1>2, <2>17 DEF Collect, Acceptable, Goto, Judge, Owns, Ours, disk, locals, history
  <2>18. CASE Fails(r)
    BY <1>2, <2>18 DEF Fails, Goto, Judge, Owns, Ours, disk, locals, history
  <2>19. CASE Cleanup(r)
    BY <1>2, <2>19 DEF Cleanup, Goto, Judge, Owns, Ours, disk, locals, history
  <2>20. CASE CleanupFails(r)
    BY <1>2, <2>20 DEF CleanupFails, Goto, Judge, Owns, Ours, disk, locals, history
  <2>21. CASE OpenDocument(r, "conclude", "concluding")
    BY <1>2, <2>21 DEF OpenDocument, Goto, Judge, Owns, Ours, disk, locals, history
  <2>22. CASE Conclude(r)
    BY <1>2, <2>22 DEF Conclude, Goto, Judge, Owns, Ours, disk, locals, history
  <2>23. CASE Unlock(r)
    BY <1>2, <2>23 DEF Unlock, Goto, Judge, Owns, Ours, disk, locals, history
  <2>24. CASE Report(r)
    BY <1>2, <2>24 DEF Report, Goto, Judge, Owns, Ours, disk, locals, history
  <2>25. CASE Interrupt(r)
    BY <1>2, <2>25 DEF Interrupt, Escape, EscapeDocument, Guard, GuardNative, GuardCleanup, EscapeUnlock, Goto, Judge, Owns, Ours, disk, locals, history
  <2>26. CASE WriteFails(r)
    BY <1>2, <2>26 DEF WriteFails, Goto, Judge, Owns, Ours, disk, locals, history
  <2>27. CASE Kill(r)
    BY <1>2, <2>27 DEF Kill, Goto, Judge, Owns, Ours, disk, locals, history
  <2> QED BY <1>2, <2>1, <2>2, <2>3, <2>4, <2>5, <2>6, <2>7, <2>8, <2>9, <2>10, <2>11, <2>12, <2>13, <2>14, <2>15, <2>16, <2>17, <2>18, <2>19, <2>20, <2>21, <2>22, <2>23, <2>24, <2>25, <2>26, <2>27 DEF LauncherStep
<1>3. ASSUME NEW r \in Runs, NEW valid \in BOOLEAN, ChildExports(r, valid)
      PROVE StageInv'
  BY <1>3 DEF ChildExports, locals, history
<1>4. ASSUME NEW r \in Runs, NEW code \in {"ok", "bad"}, ChildExits(r, code)
      PROVE StageInv'
  BY <1>4 DEF ChildExits, disk, locals, history
<1> QED BY <1>1, <1>2, <1>3, <1>4 DEF Next

----------------------------------------------------------------------------
\* A verdict of success is reached and published for a reason.
LEMMA VerdictNext == TypeOK /\ ShownInv /\ StageInv /\ VerdictInv /\ [Next]_vars => VerdictInv'
<1> SUFFICES ASSUME TypeOK /\ ShownInv /\ StageInv /\ VerdictInv, [Next]_vars PROVE VerdictInv'
  OBVIOUS
<1> USE NoneAssumption DEF TypeOK, Document, Export, ShownInv, StageInv, VerdictInv, Opening, Guarded, Inside, Ended, Steps, Staged, Announced, Finishing
<1>1. CASE UNCHANGED vars
  BY <1>1 DEF vars, disk, locals, history
<1>2. ASSUME NEW r \in Runs, Launch(r) \/ LauncherStep(r) \/ Interrupt(r) \/ WriteFails(r) \/ Kill(r)
      PROVE VerdictInv'
  <2>1. CASE Launch(r)
    BY <1>2, <2>1 DEF Launch, Goto, Judge, Owns, Ours, disk, locals, history
  <2>2. CASE OpenOutput(r)
    BY <1>2, <2>2 DEF OpenOutput, Goto, Judge, Owns, Ours, disk, locals, history
  <2>3. CASE WriteOwner(r)
    BY <1>2, <2>3 DEF WriteOwner, Goto, Judge, Owns, Ours, disk, locals, history
  <2>4. CASE CheckOwner(r)
    BY <1>2, <2>4 DEF CheckOwner, Goto, Judge, Owns, Ours, disk, locals, history
  <2>5. CASE TakeLock(r)
    BY <1>2, <2>5 DEF TakeLock, Goto, Judge, Owns, Ours, disk, locals, history
  <2>6. CASE KnowLock(r)
    BY <1>2, <2>6 DEF KnowLock, Goto, Judge, Owns, Ours, disk, locals, history
  <2>7. CASE OpenDocument(r, "announce", "announcing")
    BY <1>2, <2>7 DEF OpenDocument, Goto, Judge, Owns, Ours, disk, locals, history
  <2>8. CASE Announce(r)
    BY <1>2, <2>8 DEF Announce, Goto, Judge, Owns, Ours, disk, locals, history
  <2>9. CASE CheckConfig(r)
    BY <1>2, <2>9 DEF CheckConfig, Goto, Judge, Owns, Ours, disk, locals, history
  <2>10. CASE MakeStage(r)
    BY <1>2, <2>10 DEF MakeStage, Goto, Judge, Owns, Ours, disk, locals, history
  <2>11. CASE KnowStage(r)
    BY <1>2, <2>11 DEF KnowStage, Goto, Judge, Owns, Ours, disk, locals, history
  <2>12. CASE Spawn(r)
    BY <1>2, <2>12 DEF Spawn, Goto, Judge, Owns, Ours, disk, locals, history
  <2>13. CASE Watch(r)
    BY <1>2, <2>13 DEF Watch, Goto, Judge, Owns, Ours, disk, locals, history
  <2>14. CASE NativeEnds(r)
    BY <1>2, <2>14 DEF NativeEnds, Goto, Judge, Owns, Ours, disk, locals, history
  <2>15. CASE NativeLimit(r)
    BY <1>2, <2>15 DEF NativeLimit, Goto, Judge, Owns, Ours, disk, locals, history
  <2>16. CASE Reap(r)
    BY <1>2, <2>16 DEF Reap, Goto, Judge, Owns, Ours, disk, locals, history
  <2>17. CASE Collect(r)
    BY <1>2, <2>17 DEF Collect, Acceptable, Goto, Judge, Owns, Ours, disk, locals, history
  <2>18. CASE Fails(r)
    BY <1>2, <2>18 DEF Fails, Goto, Judge, Owns, Ours, disk, locals, history
  <2>19. CASE Cleanup(r)
    BY <1>2, <2>19 DEF Cleanup, Goto, Judge, Owns, Ours, disk, locals, history
  <2>20. CASE CleanupFails(r)
    BY <1>2, <2>20 DEF CleanupFails, Goto, Judge, Owns, Ours, disk, locals, history
  <2>21. CASE OpenDocument(r, "conclude", "concluding")
    BY <1>2, <2>21 DEF OpenDocument, Goto, Judge, Owns, Ours, disk, locals, history
  <2>22. CASE Conclude(r)
    BY <1>2, <2>22 DEF Conclude, Goto, Judge, Owns, Ours, disk, locals, history
  <2>23. CASE Unlock(r)
    BY <1>2, <2>23 DEF Unlock, Goto, Judge, Owns, Ours, disk, locals, history
  <2>24. CASE Report(r)
    BY <1>2, <2>24 DEF Report, Goto, Judge, Owns, Ours, disk, locals, history
  <2>25. CASE Interrupt(r)
    BY <1>2, <2>25 DEF Interrupt, Escape, EscapeDocument, Guard, GuardNative, GuardCleanup, EscapeUnlock, Goto, Judge, Owns, Ours, disk, locals, history
  <2>26. CASE WriteFails(r)
    BY <1>2, <2>26 DEF WriteFails, Goto, Judge, Owns, Ours, disk, locals, history
  <2>27. CASE Kill(r)
    BY <1>2, <2>27 DEF Kill, Goto, Judge, Owns, Ours, disk, locals, history
  <2> QED BY <1>2, <2>1, <2>2, <2>3, <2>4, <2>5, <2>6, <2>7, <2>8, <2>9, <2>10, <2>11, <2>12, <2>13, <2>14, <2>15, <2>16, <2>17, <2>18, <2>19, <2>20, <2>21, <2>22, <2>23, <2>24, <2>25, <2>26, <2>27 DEF LauncherStep
<1>3. ASSUME NEW r \in Runs, NEW valid \in BOOLEAN, ChildExports(r, valid)
      PROVE VerdictInv'
  BY <1>3 DEF ChildExports, locals, history
<1>4. ASSUME NEW r \in Runs, NEW code \in {"ok", "bad"}, ChildExits(r, code)
      PROVE VerdictInv'
  BY <1>4 DEF ChildExits, disk, locals, history
<1> QED BY <1>1, <1>2, <1>3, <1>4 DEF Next

----------------------------------------------------------------------------
LEMMA InitInv == Init => IInv
<1> SUFFICES ASSUME Init PROVE IInv
  OBVIOUS
<1> USE NoneAssumption DEF Init, Opening, Guarded, Inside, Ended, Steps, Staged, Announced,
    Finishing, Faults
<1>1. TypeOK
  BY DEF TypeOK, Document, Export
<1>2. LockInv /\ OwnerInv
  BY DEF LockInv, OwnerInv
<1>3. ShownInv /\ StageInv
  BY DEF ShownInv, StageInv
<1>4. VerdictInv
  BY DEF VerdictInv
<1> QED BY <1>1, <1>2, <1>3, <1>4 DEF IInv

LEMMA NextInv == IInv /\ [Next]_vars => IInv'
BY TypeNext, LockNext, OwnerNext, ShownNext, StageNext, VerdictNext DEF IInv

\* The inductive invariant holds of every behaviour.
THEOREM Invariance == Spec => []IInv
BY InitInv, NextInv, PTL DEF Spec

\* Types of NativeLauncher.
THEOREM LauncherTypes == Spec => []TypeOK
<1>1. IInv => TypeOK  BY DEF IInv
<1> QED BY <1>1, Invariance, PTL

\* The lock file excludes launchers from one another (gavinying_launcher.py:269-273).
THEOREM LauncherExclusion == Spec => []OneHolder
<1>1. IInv => OneHolder
  BY DEF IInv, TypeOK, LockInv, OneHolder, Holding, Inside, Guarded, Ended, Opening, Steps
<1> QED BY <1>1, Invariance, PTL

\* Values shown as current were exported, and valid, in a pass whose process
\* ended well: by that process, or by a child that its launcher forgot while it
\* ran (gavinying_launcher.py:294-308).
THEOREM LauncherEarned == Spec => []Earned
<1>1. IInv => Earned
  BY NoneAssumption DEF IInv, TypeOK, OwnerInv, ShownInv, VerdictInv, Earned, Document
<1> QED BY <1>1, Invariance, PTL

\* No receipt of success without a published result (gavinying_launcher.py:351-362).
THEOREM LauncherReceipts == Spec => []ReceiptTrue
<1>1. IInv => ReceiptTrue
  BY DEF IInv, TypeOK, ShownInv, VerdictInv, ReceiptTrue
<1> QED BY <1>1, Invariance, PTL

----------------------------------------------------------------------------
(* result.json implements OutputRecord.                                     *)

LEMMA RecordStep == IInv /\ [Next]_vars => [Record!Next]_(Record!vars)
<1> SUFFICES ASSUME IInv, [Next]_vars PROVE [Record!Next]_(Record!vars)
  OBVIOUS
<1> USE NoneAssumption DEF IInv, Record!vars
<1>1. CASE UNCHANGED <<shown, past>>
  BY <1>1
<1>2. ASSUME NEW r \in Runs, Announce(r) PROVE Record!Next
  <2>1. r \notin past
    BY <1>2 DEF Announce, Goto, ShownInv
  <2> QED BY <1>2, <2>1 DEF Announce, Record!Next, Record!Announce
<1>3. ASSUME NEW r \in Runs, Conclude(r) PROVE [Record!Next]_(Record!vars)
  <2>1. shown = [run |-> r, status |-> "running"]
    BY <1>3 DEF Conclude, Goto, ShownInv, Announced
  <2>2. shown' = [run |-> r, status |-> verdict[r]] /\ past' = past
    BY <1>3 DEF Conclude, history
  <2>3. CASE verdict[r] = "running"
    BY <2>1, <2>2, <2>3
  <2>4. CASE verdict[r] \in {"succeeded", "failed"}
    BY <2>1, <2>2, <2>4 DEF Record!Next, Record!Conclude
  <2> QED BY <2>3, <2>4 DEF TypeOK
<1>4. ASSUME NEW r \in Runs, LauncherStep(r)
      PROVE Announce(r) \/ Conclude(r) \/ UNCHANGED <<shown, past>>
  BY <1>4 DEF disk, locals, history, LauncherStep, OpenOutput, WriteOwner, CheckOwner,
    TakeLock, KnowLock, OpenDocument, CheckConfig, MakeStage, KnowStage, Spawn, Watch, NativeEnds,
    NativeLimit, Reap, Collect, Fails, Cleanup, CleanupFails, Unlock, Report
<1>5. ASSUME NEW r \in Runs, Interrupt(r)
      PROVE UNCHANGED <<shown, past>>
  BY <1>5 DEF disk, locals, Interrupt, Escape, EscapeDocument, Guard, GuardNative, GuardCleanup,
    EscapeUnlock
<1>6. ASSUME NEW r \in Runs, \/ Launch(r) \/ WriteFails(r) \/ Kill(r)
        \/ \E valid \in BOOLEAN : ChildExports(r, valid)
        \/ \E code \in {"ok", "bad"} : ChildExits(r, code)
      PROVE UNCHANGED <<shown, past>>
  BY <1>6 DEF disk, locals, history, Launch, WriteFails, Kill, ChildExports, ChildExits
<1>7. UNCHANGED vars => UNCHANGED <<shown, past>>
  BY DEF vars, disk, history
<1>8. ASSUME NEW r \in Runs, LauncherStep(r) PROVE [Record!Next]_(Record!vars)
  BY <1>1, <1>2, <1>3, <1>4, <1>8
<1> QED BY <1>1, <1>5, <1>6, <1>7, <1>8 DEF Next

\* However launchers meet, stop or die, result.json is the line of passes of
\* OutputRecord (gavinying_launcher.py:207-220).
THEOREM LauncherImplementsRecord == Spec => ImplementsRecord
<1>1. Init => Record!Init
  BY DEF Init, Record!Init
<1>2. IInv /\ [Next]_vars => [Record!Next]_(Record!vars)
  BY RecordStep
<1> QED BY <1>1, <1>2, Invariance, PTL DEF Spec, ImplementsRecord, Record!Spec

=============================================================================

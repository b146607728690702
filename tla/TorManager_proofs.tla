-------------------------- MODULE TorManager_proofs --------------------------
(***************************************************************************)
(* The safety of TorManager for every set of goroutines and every pipe     *)
(* capacity: the invariant IInv is inductive, and the properties follow.   *)
(*                                                                         *)
(* The argument.  The mutex makes Start and Stop alternate (LockStep).  A  *)
(* Stop that got it closes stopChan, then ends Tor, then deletes, so when  *)
(* it releases the mutex everything is gone (StopStays, DirsStay).  A      *)
(* Start that gets it afterwards finds no directory to write torrc into    *)
(* and launches nothing.                                                   *)
(*                                                                         *)
(* The second part is about ControlPort, the Manager with its talks with   *)
(* Tor spelled out: it implements TorManager, so the first part holds of   *)
(* it, and a conversation is never out of step where the outcome depends   *)
(* on it.                                                                  *)
(***************************************************************************)
EXTENDS ControlPort, SequenceTheorems, TLAPS

(***************************************************************************)
(* The variables keep their types.                                         *)
(***************************************************************************)
LEMMA TypeStep == TypeOK /\ [Next]_managerVars => TypeOK'
<1> SUFFICES ASSUME TypeOK, [Next]_managerVars PROVE TypeOK'
  OBVIOUS
<1> USE DEF TypeOK, Steps, StartSteps, StopSteps, WatchSteps, Returns, Lines, Alive, Exists,
    HasManager
<1>1. ASSUME NEW g \in Goroutines, NewManager(g) \/ NewManagerFails(g) PROVE TypeOK'
  BY <1>1, NobodyAssumption DEF NewManager, NewManagerFails
<1>2. ASSUME NEW g \in Goroutines, CallStart(g) PROVE TypeOK'
  BY <1>2, NobodyAssumption DEF CallStart, Goto
<1>3. ASSUME NEW g \in Goroutines, CallStop(g) PROVE TypeOK'
  BY <1>3, NobodyAssumption DEF CallStop, EnterStop, Goto
<1>4. ASSUME NEW g \in Goroutines, StartWatchdog(g) PROVE TypeOK'
  BY <1>4, NobodyAssumption DEF StartWatchdog, Goto
<1>5. ASSUME NEW g \in Goroutines, StartLock(g) PROVE TypeOK'
  BY <1>5, NobodyAssumption DEF StartLock, Goto
<1>6. ASSUME NEW g \in Goroutines, StartSpawnFails(g) PROVE TypeOK'
  BY <1>6, NobodyAssumption DEF StartSpawnFails, Goto
<1>7. ASSUME NEW g \in Goroutines, StartSpawn(g) PROVE TypeOK'
  BY <1>7, NobodyAssumption DEF StartSpawn, Goto
<1>8. ASSUME NEW g \in Goroutines, StartBootstrapped(g) PROVE TypeOK'
  BY <1>8, NobodyAssumption DEF StartBootstrapped, Goto
<1>9. ASSUME NEW g \in Goroutines, StartBootstrapFails(g) PROVE TypeOK'
  BY <1>9, NobodyAssumption DEF StartBootstrapFails, EnterStop, Goto
<1>10. ASSUME NEW g \in Goroutines, StartTimesOut(g) PROVE TypeOK'
  BY <1>10, NobodyAssumption DEF StartTimesOut, EnterStop, Goto
<1>11. ASSUME NEW g \in Goroutines, StartVerified(g) PROVE TypeOK'
  BY <1>11, NobodyAssumption DEF StartVerified, Goto
<1>12. ASSUME NEW g \in Goroutines, StartVerifyFails(g) PROVE TypeOK'
  BY <1>12, NobodyAssumption DEF StartVerifyFails, EnterStop, Goto
<1>13. ASSUME NEW g \in Goroutines, StartFailed(g) PROVE TypeOK'
  BY <1>13, NobodyAssumption DEF StartFailed, Goto
<1>14. ASSUME NEW g \in Goroutines, StopLock(g) PROVE TypeOK'
  BY <1>14, NobodyAssumption DEF StopLock, Goto
<1>15. ASSUME NEW g \in Goroutines, StopClose(g) PROVE TypeOK'
  BY <1>15, NobodyAssumption DEF StopClose
<1>16. ASSUME NEW g \in Goroutines, StopReaps(g) PROVE TypeOK'
  BY <1>16, NobodyAssumption DEF StopReaps, Goto
<1>17. ASSUME NEW g \in Goroutines, StopKills(g) PROVE TypeOK'
  BY <1>17, NobodyAssumption DEF StopKills, Goto
<1>18. ASSUME NEW g \in Goroutines, StopClean(g) PROVE TypeOK'
  BY <1>18, NobodyAssumption DEF StopClean, Goto
<1>19. ASSUME NEW g \in Goroutines, WatchPark(g) PROVE TypeOK'
  BY <1>19, NobodyAssumption DEF WatchPark, Goto
<1>20. ASSUME NEW g \in Goroutines, WatchStopped(g) PROVE TypeOK'
  BY <1>20, NobodyAssumption DEF WatchStopped, Goto
<1>21. ASSUME NEW g \in Goroutines, WatchProcessExit(g) PROVE TypeOK'
  BY <1>21, NobodyAssumption DEF WatchProcessExit, Goto
<1>22. ASSUME NEW g \in Goroutines, WatchSocketLost(g) PROVE TypeOK'
  BY <1>22, NobodyAssumption DEF WatchSocketLost, Goto
<1>23. ASSUME NEW g \in Goroutines, WatchCrash(g) PROVE TypeOK'
  BY <1>23, NobodyAssumption DEF WatchCrash, EnterStop, Goto
<1>24. ASSUME NEW line \in Lines, TorLogs(line) PROVE TypeOK'
  BY <1>24, PipeCapAssumption DEF TorLogs
<1>25. CASE ScanLine
  <2>1. pipe' \in Seq(Lines) /\ Len(pipe') <= PipeCap
    <3>1. pipe \in Seq(Lines) /\ pipe # <<>> /\ pipe' = Tail(pipe)
      BY <1>25 DEF ScanLine
    <3>2. Tail(pipe) \in Seq(Lines) /\ Len(Tail(pipe)) = Len(pipe) - 1
      BY <3>1, HeadTailProperties
    <3>3. QED
      BY <3>1, <3>2, PipeCapAssumption
  <2>2. /\ bootstrapped' \in BOOLEAN
        /\ bootstrapDone' \in {"empty", "ok", "err"}
        /\ scanner' \in {"none", "reading", "done"}
    BY <1>25 DEF ScanLine
  <2>3. UNCHANGED <<mu, stopClosed, started, watching, runtimeDir, dataDir, ephemeral,
                    tor, booted, pc, ret>>
    BY <1>25 DEF ScanLine
  <2>4. QED
    BY <2>1, <2>2, <2>3
<1>26. CASE ScanEnd
  BY <1>26 DEF ScanEnd
<1>27. CASE TorWedges
  BY <1>27 DEF TorWedges
<1>28. CASE TorResumes
  BY <1>28 DEF TorResumes
<1>29. CASE TorDies
  BY <1>29 DEF TorDies
<1>30. CASE UNCHANGED managerVars
  BY <1>30 DEF managerVars
<1>31. QED
  BY <1>1, <1>2, <1>3, <1>4, <1>5, <1>6, <1>7, <1>8, <1>9, <1>10, <1>11, <1>12, <1>13,
    <1>14, <1>15, <1>16, <1>17, <1>18, <1>19, <1>20, <1>21, <1>22, <1>23, <1>24, <1>25,
    <1>26, <1>27, <1>28, <1>29, <1>30
  DEF Next, Call, StartStep, StopStep, WatchStep, ScanStep, TorStep

(***************************************************************************)
(* Only the holder of the mutex is between its Lock and its Unlock.        *)
(***************************************************************************)
LEMMA LockStep == TypeOK /\ LockDiscipline /\ [Next]_managerVars => LockDiscipline'
<1> SUFFICES ASSUME TypeOK /\ LockDiscipline, [Next]_managerVars PROVE LockDiscipline'
  OBVIOUS
<1> USE DEF TypeOK, Steps, StartSteps, StopSteps, WatchSteps, Returns, Lines,
    LockDiscipline, Critical
<1>1. ASSUME NEW g \in Goroutines, CallStart(g) PROVE LockDiscipline'
  BY <1>1, NobodyAssumption DEF CallStart, Goto
<1>2. ASSUME NEW g \in Goroutines, CallStop(g) PROVE LockDiscipline'
  BY <1>2, NobodyAssumption DEF CallStop, EnterStop, Goto
<1>3. ASSUME NEW g \in Goroutines, StartWatchdog(g) PROVE LockDiscipline'
  BY <1>3, NobodyAssumption DEF StartWatchdog, Goto
<1>4. ASSUME NEW g \in Goroutines, StartLock(g) PROVE LockDiscipline'
  BY <1>4, NobodyAssumption DEF StartLock, Goto
<1>5. ASSUME NEW g \in Goroutines, StartSpawnFails(g) PROVE LockDiscipline'
  BY <1>5, NobodyAssumption DEF StartSpawnFails, Goto
<1>6. ASSUME NEW g \in Goroutines, StartSpawn(g) PROVE LockDiscipline'
  BY <1>6, NobodyAssumption DEF StartSpawn, Goto
<1>7. ASSUME NEW g \in Goroutines, StartBootstrapped(g) PROVE LockDiscipline'
  BY <1>7, NobodyAssumption DEF StartBootstrapped, Goto
<1>8. ASSUME NEW g \in Goroutines, StartBootstrapFails(g) PROVE LockDiscipline'
  BY <1>8, NobodyAssumption DEF StartBootstrapFails, EnterStop, Goto
<1>9. ASSUME NEW g \in Goroutines, StartTimesOut(g) PROVE LockDiscipline'
  BY <1>9, NobodyAssumption DEF StartTimesOut, EnterStop, Goto
<1>10. ASSUME NEW g \in Goroutines, StartVerified(g) PROVE LockDiscipline'
  BY <1>10, NobodyAssumption DEF StartVerified, Goto
<1>11. ASSUME NEW g \in Goroutines, StartVerifyFails(g) PROVE LockDiscipline'
  BY <1>11, NobodyAssumption DEF StartVerifyFails, EnterStop, Goto
<1>12. ASSUME NEW g \in Goroutines, StartFailed(g) PROVE LockDiscipline'
  BY <1>12, NobodyAssumption DEF StartFailed, Goto
<1>13. ASSUME NEW g \in Goroutines, StopLock(g) PROVE LockDiscipline'
  BY <1>13, NobodyAssumption DEF StopLock, Goto
<1>14. ASSUME NEW g \in Goroutines, StopClose(g) PROVE LockDiscipline'
  BY <1>14, NobodyAssumption DEF StopClose
<1>15. ASSUME NEW g \in Goroutines, StopReaps(g) PROVE LockDiscipline'
  BY <1>15, NobodyAssumption DEF StopReaps, Goto
<1>16. ASSUME NEW g \in Goroutines, StopKills(g) PROVE LockDiscipline'
  BY <1>16, NobodyAssumption DEF StopKills, Goto
<1>17. ASSUME NEW g \in Goroutines, StopClean(g) PROVE LockDiscipline'
  BY <1>17, NobodyAssumption DEF StopClean, Goto
<1>18. ASSUME NEW g \in Goroutines, WatchPark(g) PROVE LockDiscipline'
  BY <1>18, NobodyAssumption DEF WatchPark, Goto
<1>19. ASSUME NEW g \in Goroutines, WatchStopped(g) PROVE LockDiscipline'
  BY <1>19, NobodyAssumption DEF WatchStopped, Goto
<1>20. ASSUME NEW g \in Goroutines, WatchProcessExit(g) PROVE LockDiscipline'
  BY <1>20, NobodyAssumption DEF WatchProcessExit, Goto
<1>21. ASSUME NEW g \in Goroutines, WatchSocketLost(g) PROVE LockDiscipline'
  BY <1>21, NobodyAssumption DEF WatchSocketLost, Goto
<1>22. ASSUME NEW g \in Goroutines, WatchCrash(g) PROVE LockDiscipline'
  BY <1>22, NobodyAssumption DEF WatchCrash, EnterStop, Goto
<1>23. CASE UNCHANGED <<mu, pc, ret>>
  BY <1>23
<1>24. QED
  BY <1>1, <1>2, <1>3, <1>4, <1>5, <1>6, <1>7, <1>8, <1>9, <1>10, <1>11, <1>12, <1>13,
    <1>14, <1>15, <1>16, <1>17, <1>18, <1>19, <1>20, <1>21, <1>22, <1>23
  DEF Next, Call, StartStep, StopStep, WatchStep, ScanStep, TorStep, managerVars,
      NewManager, NewManagerFails, ScanEnd, ScanLine, TorDies, TorLogs, TorResumes, TorWedges

(***************************************************************************)
(* The directories go together, in Stop, with Tor dead and stopChan closed. *)
(***************************************************************************)
LEMMA DirsStay == IInv /\ [Next]_managerVars => DirsInv'
<1> SUFFICES ASSUME IInv, [Next]_managerVars PROVE DirsInv'
  OBVIOUS
<1> USE DEF IInv, TypeOK, Steps, StartSteps, StopSteps, WatchSteps, Returns, Lines,
    LockDiscipline, Critical, DirsInv, StopInv, Alive, Exists, HasManager
<1>1. ASSUME NEW g \in Goroutines, NewManager(g) \/ NewManagerFails(g) PROVE DirsInv'
  BY <1>1, NobodyAssumption DEF NewManager, NewManagerFails
<1>2. ASSUME NEW g \in Goroutines, CallStart(g) PROVE DirsInv'
  BY <1>2, NobodyAssumption DEF CallStart, Goto
<1>3. ASSUME NEW g \in Goroutines, CallStop(g) PROVE DirsInv'
  BY <1>3, NobodyAssumption DEF CallStop, EnterStop, Goto
<1>4. ASSUME NEW g \in Goroutines, StartWatchdog(g) PROVE DirsInv'
  BY <1>4, NobodyAssumption DEF StartWatchdog, Goto
<1>5. ASSUME NEW g \in Goroutines, StartLock(g) PROVE DirsInv'
  BY <1>5, NobodyAssumption DEF StartLock, Goto
<1>6. ASSUME NEW g \in Goroutines, StartSpawnFails(g) PROVE DirsInv'
  BY <1>6, NobodyAssumption DEF StartSpawnFails, Goto
<1>7. ASSUME NEW g \in Goroutines, StartSpawn(g) PROVE DirsInv'
  BY <1>7, NobodyAssumption DEF StartSpawn, Goto
<1>8. ASSUME NEW g \in Goroutines, StartBootstrapped(g) PROVE DirsInv'
  BY <1>8, NobodyAssumption DEF StartBootstrapped, Goto
<1>9. ASSUME NEW g \in Goroutines, StartBootstrapFails(g) PROVE DirsInv'
  BY <1>9, NobodyAssumption DEF StartBootstrapFails, EnterStop, Goto
<1>10. ASSUME NEW g \in Goroutines, StartTimesOut(g) PROVE DirsInv'
  BY <1>10, NobodyAssumption DEF StartTimesOut, EnterStop, Goto
<1>11. ASSUME NEW g \in Goroutines, StartVerified(g) PROVE DirsInv'
  BY <1>11, NobodyAssumption DEF StartVerified, Goto
<1>12. ASSUME NEW g \in Goroutines, StartVerifyFails(g) PROVE DirsInv'
  BY <1>12, NobodyAssumption DEF StartVerifyFails, EnterStop, Goto
<1>13. ASSUME NEW g \in Goroutines, StartFailed(g) PROVE DirsInv'
  BY <1>13, NobodyAssumption DEF StartFailed, Goto
<1>14. ASSUME NEW g \in Goroutines, StopLock(g) PROVE DirsInv'
  BY <1>14, NobodyAssumption DEF StopLock, Goto
<1>15. ASSUME NEW g \in Goroutines, StopClose(g) PROVE DirsInv'
  BY <1>15, NobodyAssumption DEF StopClose
<1>16. ASSUME NEW g \in Goroutines, StopReaps(g) PROVE DirsInv'
  BY <1>16, NobodyAssumption DEF StopReaps, Goto
<1>17. ASSUME NEW g \in Goroutines, StopKills(g) PROVE DirsInv'
  BY <1>17, NobodyAssumption DEF StopKills, Goto
<1>18. ASSUME NEW g \in Goroutines, StopClean(g) PROVE DirsInv'
  BY <1>18, NobodyAssumption DEF StopClean, Goto
<1>19. ASSUME NEW g \in Goroutines, WatchPark(g) PROVE DirsInv'
  BY <1>19, NobodyAssumption DEF WatchPark, Goto
<1>20. ASSUME NEW g \in Goroutines, WatchStopped(g) PROVE DirsInv'
  BY <1>20, NobodyAssumption DEF WatchStopped, Goto
<1>21. ASSUME NEW g \in Goroutines, WatchProcessExit(g) PROVE DirsInv'
  BY <1>21, NobodyAssumption DEF WatchProcessExit, Goto
<1>22. ASSUME NEW g \in Goroutines, WatchSocketLost(g) PROVE DirsInv'
  BY <1>22, NobodyAssumption DEF WatchSocketLost, Goto
<1>23. ASSUME NEW g \in Goroutines, WatchCrash(g) PROVE DirsInv'
  BY <1>23, NobodyAssumption DEF WatchCrash, EnterStop, Goto
<1>24. CASE TorWedges
  BY <1>24 DEF TorWedges
<1>25. CASE TorResumes
  BY <1>25 DEF TorResumes
<1>26. CASE TorDies
  BY <1>26 DEF TorDies
<1>27. CASE UNCHANGED <<stopClosed, started, runtimeDir, dataDir, ephemeral, tor, pc>>
  BY <1>27
<1>28. QED
  BY <1>1, <1>2, <1>3, <1>4, <1>5, <1>6, <1>7, <1>8, <1>9, <1>10, <1>11, <1>12, <1>13,
    <1>14, <1>15, <1>16, <1>17, <1>18, <1>19, <1>20, <1>21, <1>22, <1>23, <1>24, <1>25,
    <1>26, <1>27
  DEF Next, Call, StartStep, StopStep, WatchStep, ScanStep, TorStep, managerVars,
      ScanEnd, ScanLine, TorLogs

(***************************************************************************)
(* A closed stopChan means a Stop at work or a Manager cleaned up.         *)
(***************************************************************************)
LEMMA StopStays == IInv /\ [Next]_managerVars => StopInv'
<1> SUFFICES ASSUME IInv, [Next]_managerVars PROVE StopInv'
  OBVIOUS
<1> USE DEF IInv, TypeOK, Steps, StartSteps, StopSteps, WatchSteps, Returns, Lines,
    LockDiscipline, Critical, DirsInv, StopInv, Alive, Exists, HasManager
<1>1. ASSUME NEW g \in Goroutines, NewManager(g) \/ NewManagerFails(g) PROVE StopInv'
  BY <1>1, NobodyAssumption DEF NewManager, NewManagerFails
<1>2. ASSUME NEW g \in Goroutines, CallStart(g) PROVE StopInv'
  BY <1>2, NobodyAssumption DEF CallStart, Goto
<1>3. ASSUME NEW g \in Goroutines, CallStop(g) PROVE StopInv'
  BY <1>3, NobodyAssumption DEF CallStop, EnterStop, Goto
<1>4. ASSUME NEW g \in Goroutines, StartWatchdog(g) PROVE StopInv'
  BY <1>4, NobodyAssumption DEF StartWatchdog, Goto
<1>5. ASSUME NEW g \in Goroutines, StartLock(g) PROVE StopInv'
  BY <1>5, NobodyAssumption DEF StartLock, Goto
<1>6. ASSUME NEW g \in Goroutines, StartSpawnFails(g) PROVE StopInv'
  BY <1>6, NobodyAssumption DEF StartSpawnFails, Goto
<1>7. ASSUME NEW g \in Goroutines, StartSpawn(g) PROVE StopInv'
  BY <1>7, NobodyAssumption DEF StartSpawn, Goto
<1>8. ASSUME NEW g \in Goroutines, StartBootstrapped(g) PROVE StopInv'
  BY <1>8, NobodyAssumption DEF StartBootstrapped, Goto
<1>9. ASSUME NEW g \in Goroutines, StartBootstrapFails(g) PROVE StopInv'
  BY <1>9, NobodyAssumption DEF StartBootstrapFails, EnterStop, Goto
<1>10. ASSUME NEW g \in Goroutines, StartTimesOut(g) PROVE StopInv'
  BY <1>10, NobodyAssumption DEF StartTimesOut, EnterStop, Goto
<1>11. ASSUME NEW g \in Goroutines, StartVerified(g) PROVE StopInv'
  BY <1>11, NobodyAssumption DEF StartVerified, Goto
<1>12. ASSUME NEW g \in Goroutines, StartVerifyFails(g) PROVE StopInv'
  BY <1>12, NobodyAssumption DEF StartVerifyFails, EnterStop, Goto
<1>13. ASSUME NEW g \in Goroutines, StartFailed(g) PROVE StopInv'
  BY <1>13, NobodyAssumption DEF StartFailed, Goto
<1>14. ASSUME NEW g \in Goroutines, StopLock(g) PROVE StopInv'
  BY <1>14, NobodyAssumption DEF StopLock, Goto
<1>15. ASSUME NEW g \in Goroutines, StopClose(g) PROVE StopInv'
  BY <1>15, NobodyAssumption DEF StopClose
<1>16. ASSUME NEW g \in Goroutines, StopReaps(g) PROVE StopInv'
  BY <1>16, NobodyAssumption DEF StopReaps, Goto
<1>17. ASSUME NEW g \in Goroutines, StopKills(g) PROVE StopInv'
  BY <1>17, NobodyAssumption DEF StopKills, Goto
<1>18. ASSUME NEW g \in Goroutines, StopClean(g) PROVE StopInv'
  BY <1>18, NobodyAssumption DEF StopClean, Goto
<1>19. ASSUME NEW g \in Goroutines, WatchPark(g) PROVE StopInv'
  BY <1>19, NobodyAssumption DEF WatchPark, Goto
<1>20. ASSUME NEW g \in Goroutines, WatchStopped(g) PROVE StopInv'
  BY <1>20, NobodyAssumption DEF WatchStopped, Goto
<1>21. ASSUME NEW g \in Goroutines, WatchProcessExit(g) PROVE StopInv'
  BY <1>21, NobodyAssumption DEF WatchProcessExit, Goto
<1>22. ASSUME NEW g \in Goroutines, WatchSocketLost(g) PROVE StopInv'
  BY <1>22, NobodyAssumption DEF WatchSocketLost, Goto
<1>23. ASSUME NEW g \in Goroutines, WatchCrash(g) PROVE StopInv'
  BY <1>23, NobodyAssumption DEF WatchCrash, EnterStop, Goto
<1>24. CASE TorWedges
  BY <1>24 DEF TorWedges
<1>25. CASE TorResumes
  BY <1>25 DEF TorResumes
<1>26. CASE TorDies
  BY <1>26 DEF TorDies
<1>27. CASE UNCHANGED <<stopClosed, runtimeDir, tor, pc>>
  BY <1>27
<1>28. QED
  BY <1>1, <1>2, <1>3, <1>4, <1>5, <1>6, <1>7, <1>8, <1>9, <1>10, <1>11, <1>12, <1>13,
    <1>14, <1>15, <1>16, <1>17, <1>18, <1>19, <1>20, <1>21, <1>22, <1>23, <1>24, <1>25,
    <1>26, <1>27
  DEF Next, Call, StartStep, StopStep, WatchStep, ScanStep, TorStep, managerVars,
      ScanEnd, ScanLine, TorLogs

(***************************************************************************)
(* Start waits for Tor on a live Manager only, and believes only Tor.      *)
(***************************************************************************)
LEMMA BootStays == IInv /\ [Next]_managerVars => BootInv'
<1> SUFFICES ASSUME IInv, [Next]_managerVars PROVE BootInv'
  OBVIOUS
<1> USE DEF IInv, TypeOK, Steps, StartSteps, StopSteps, WatchSteps, Returns, Lines,
    LockDiscipline, Critical, DirsInv, StopInv, BootInv, Alive, Exists, HasManager
<1>1. ASSUME NEW g \in Goroutines, NewManager(g) \/ NewManagerFails(g) PROVE BootInv'
  BY <1>1, NobodyAssumption DEF NewManager, NewManagerFails
<1>2. ASSUME NEW g \in Goroutines, CallStart(g) PROVE BootInv'
  BY <1>2, NobodyAssumption DEF CallStart, Goto
<1>3. ASSUME NEW g \in Goroutines, CallStop(g) PROVE BootInv'
  BY <1>3, NobodyAssumption DEF CallStop, EnterStop, Goto
<1>4. ASSUME NEW g \in Goroutines, StartWatchdog(g) PROVE BootInv'
  BY <1>4, NobodyAssumption DEF StartWatchdog, Goto
<1>5. ASSUME NEW g \in Goroutines, StartLock(g) PROVE BootInv'
  BY <1>5, NobodyAssumption DEF StartLock, Goto
<1>6. ASSUME NEW g \in Goroutines, StartSpawnFails(g) PROVE BootInv'
  BY <1>6, NobodyAssumption DEF StartSpawnFails, Goto
<1>7. ASSUME NEW g \in Goroutines, StartSpawn(g) PROVE BootInv'
  BY <1>7, NobodyAssumption DEF StartSpawn, Goto
<1>8. ASSUME NEW g \in Goroutines, StartBootstrapped(g) PROVE BootInv'
  BY <1>8, NobodyAssumption DEF StartBootstrapped, Goto
<1>9. ASSUME NEW g \in Goroutines, StartBootstrapFails(g) PROVE BootInv'
  BY <1>9, NobodyAssumption DEF StartBootstrapFails, EnterStop, Goto
<1>10. ASSUME NEW g \in Goroutines, StartTimesOut(g) PROVE BootInv'
  BY <1>10, NobodyAssumption DEF StartTimesOut, EnterStop, Goto
<1>11. ASSUME NEW g \in Goroutines, StartVerified(g) PROVE BootInv'
  BY <1>11, NobodyAssumption DEF StartVerified, Goto
<1>12. ASSUME NEW g \in Goroutines, StartVerifyFails(g) PROVE BootInv'
  BY <1>12, NobodyAssumption DEF StartVerifyFails, EnterStop, Goto
<1>13. ASSUME NEW g \in Goroutines, StartFailed(g) PROVE BootInv'
  BY <1>13, NobodyAssumption DEF StartFailed, Goto
<1>14. ASSUME NEW g \in Goroutines, StopLock(g) PROVE BootInv'
  BY <1>14, NobodyAssumption DEF StopLock, Goto
<1>15. ASSUME NEW g \in Goroutines, StopClose(g) PROVE BootInv'
  BY <1>15, NobodyAssumption DEF StopClose
<1>16. ASSUME NEW g \in Goroutines, StopReaps(g) PROVE BootInv'
  BY <1>16, NobodyAssumption DEF StopReaps, Goto
<1>17. ASSUME NEW g \in Goroutines, StopKills(g) PROVE BootInv'
  BY <1>17, NobodyAssumption DEF StopKills, Goto
<1>18. ASSUME NEW g \in Goroutines, StopClean(g) PROVE BootInv'
  BY <1>18, NobodyAssumption DEF StopClean, Goto
<1>19. ASSUME NEW g \in Goroutines, WatchPark(g) PROVE BootInv'
  BY <1>19, NobodyAssumption DEF WatchPark, Goto
<1>20. ASSUME NEW g \in Goroutines, WatchStopped(g) PROVE BootInv'
  BY <1>20, NobodyAssumption DEF WatchStopped, Goto
<1>21. ASSUME NEW g \in Goroutines, WatchProcessExit(g) PROVE BootInv'
  BY <1>21, NobodyAssumption DEF WatchProcessExit, Goto
<1>22. ASSUME NEW g \in Goroutines, WatchSocketLost(g) PROVE BootInv'
  BY <1>22, NobodyAssumption DEF WatchSocketLost, Goto
<1>23. ASSUME NEW g \in Goroutines, WatchCrash(g) PROVE BootInv'
  BY <1>23, NobodyAssumption DEF WatchCrash, EnterStop, Goto
<1>24. ASSUME NEW line \in Lines, TorLogs(line) PROVE BootInv'
  <2>1. ASSUME NEW i \in 1..Len(pipe'), pipe'[i] = "complete" PROVE booted'
    <3>1. pipe' = Append(pipe, line) /\ booted' = (booted \/ line = "complete")
      BY <1>24 DEF TorLogs
    <3>2. CASE i = Len(pipe) + 1
      <4>1. line = "complete"
        BY <2>1, <3>1, <3>2, AppendProperties
      <4>2. QED
        BY <3>1, <4>1, Zenon
    <3>3. CASE i \in 1..Len(pipe)
      <4>1. pipe[i] = "complete"
        BY <2>1, <3>1, <3>3, AppendProperties
      <4>2. booted
        BY <3>3, <4>1
      <4>3. QED
        BY <3>1, <4>2, Zenon
    <3>4. QED
      BY <3>1, <3>2, <3>3, AppendProperties
  <2>2. QED
    BY <1>24, <2>1 DEF TorLogs
<1>25. CASE ScanLine
  BY <1>25 DEF ScanLine
<1>26. CASE ScanEnd
  BY <1>26 DEF ScanEnd
<1>27. CASE TorWedges \/ TorResumes \/ TorDies
  BY <1>27 DEF TorWedges, TorResumes, TorDies
<1>28. CASE UNCHANGED managerVars
  BY <1>28 DEF managerVars
<1>29. QED
  BY <1>1, <1>2, <1>3, <1>4, <1>5, <1>6, <1>7, <1>8, <1>9, <1>10, <1>11, <1>12, <1>13,
    <1>14, <1>15, <1>16, <1>17, <1>18, <1>19, <1>20, <1>21, <1>22, <1>23, <1>24, <1>25,
    <1>26, <1>27, <1>28
  DEF Next, Call, StartStep, StopStep, WatchStep, ScanStep, TorStep

(***************************************************************************)
(* Start runs once.  Outside Start nobody enters its code, launches Tor or *)
(* changes its outcome (a Stop that gets past its Lock was not called by   *)
(* Start, so it does not return into it).                                  *)
(***************************************************************************)
LEMMA OutsideStart ==
  ASSUME TypeOK, LockDiscipline,
         \/ \E g \in Goroutines :
              \/ NewManager(g) \/ NewManagerFails(g) \/ CallStop(g) \/ StartWatchdog(g)
              \/ StopStep(g) \/ WatchStep(g) \/ WatchCrash(g)
         \/ ScanStep \/ TorStep
  PROVE  /\ started' = started
         /\ tor' = tor \/ (Exists /\ tor' \in {"killed", "dead"}) \/ (Alive /\ Alive')
         /\ \A h \in Goroutines : pc'[h] \in StartSteps => pc'[h] = pc[h]
<1>1. ASSUME NEW g \in Goroutines, NewManager(g) \/ NewManagerFails(g) \/ CallStop(g) \/ StartWatchdog(g) PROVE
        /\ started' = started /\ tor' = tor
        /\ \A h \in Goroutines : pc'[h] \in StartSteps => pc'[h] = pc[h]
  BY <1>1 DEF NewManager, NewManagerFails, CallStop, StartWatchdog, EnterStop, Goto, TypeOK,
    StartSteps
<1>2. ASSUME NEW g \in Goroutines, StopStep(g) PROVE
        /\ started' = started
        /\ tor' = tor \/ (Exists /\ tor' \in {"killed", "dead"})
        /\ \A h \in Goroutines : pc'[h] \in StartSteps => pc'[h] = pc[h]
  <2>1. CASE StopLock(g) \/ StopReaps(g) \/ StopKills(g)
    BY <2>1 DEF StopLock, StopReaps, StopKills, Goto, TypeOK, StartSteps
  <2>2. CASE StopClose(g)
    BY <2>2 DEF StopClose, TypeOK, StartSteps
  <2>3. CASE StopClean(g)
    <3>1. ret[g] = "idle"
      BY <2>3 DEF StopClean, LockDiscipline, StopSteps
    <3> QED BY <2>3, <3>1 DEF StopClean, Goto, TypeOK, StartSteps
  <2> QED BY <1>2, <2>1, <2>2, <2>3 DEF StopStep
<1>3. ASSUME NEW g \in Goroutines, WatchStep(g) \/ WatchCrash(g) PROVE
        /\ started' = started /\ tor' = tor
        /\ \A h \in Goroutines : pc'[h] \in StartSteps => pc'[h] = pc[h]
  BY <1>3 DEF WatchStep, WatchPark, WatchStopped, WatchProcessExit, WatchSocketLost,
    WatchCrash, EnterStop, Goto, TypeOK, StartSteps
<1>4. ASSUME ScanStep \/ TorStep PROVE
        /\ started' = started /\ pc' = pc
        /\ tor' = tor \/ (Exists /\ tor' \in {"killed", "dead"}) \/ (Alive /\ Alive')
  BY <1>4 DEF ScanStep, ScanLine, ScanEnd, TorStep, TorLogs, TorWedges, TorResumes, TorDies,
    Alive, Exists
<1>5. CASE \E g \in Goroutines : NewManager(g) \/ NewManagerFails(g) \/ CallStop(g) \/ StartWatchdog(g)
  BY <1>1, <1>5
<1>6. CASE \E g \in Goroutines : StopStep(g)
  BY <1>2, <1>6
<1>7. CASE \E g \in Goroutines : WatchStep(g) \/ WatchCrash(g)
  BY <1>3, <1>7
<1>8. CASE ScanStep \/ TorStep
  BY <1>4, <1>8
<1> QED BY <1>5, <1>6, <1>7, <1>8

LEMMA StartStays ==
  ASSUME TypeOK, LockDiscipline, StartInv, [Next]_managerVars
  PROVE  StartInv'
<1> USE DEF TypeOK, StartInv, StartSteps, Alive, Exists
<1>1. CASE \/ \E g \in Goroutines :
                \/ NewManager(g) \/ NewManagerFails(g) \/ CallStop(g) \/ StartWatchdog(g)
                \/ StopStep(g) \/ WatchStep(g) \/ WatchCrash(g)
           \/ ScanStep \/ TorStep
  BY <1>1, OutsideStart
<1>2. ASSUME NEW g \in Goroutines, CallStart(g) PROVE StartInv'
  BY <1>2 DEF CallStart, Goto
<1>3. ASSUME NEW g \in Goroutines, StartLock(g) \/ StartSpawnFails(g) \/ StartBootstrapped(g)
      PROVE  StartInv'
  BY <1>3 DEF StartLock, StartSpawnFails, StartBootstrapped, Goto
<1>4. ASSUME NEW g \in Goroutines, StartSpawn(g) PROVE StartInv'
  BY <1>4 DEF StartSpawn, Goto
<1>5. ASSUME NEW g \in Goroutines,
             StartBootstrapFails(g) \/ StartTimesOut(g) \/ StartVerifyFails(g)
      PROVE  StartInv'
  BY <1>5 DEF StartBootstrapFails, StartTimesOut, StartVerifyFails, EnterStop, Goto
<1>6. ASSUME NEW g \in Goroutines, StartVerified(g) \/ StartFailed(g) PROVE StartInv'
  BY <1>6 DEF StartVerified, StartFailed, Goto
<1>7. CASE UNCHANGED managerVars
  BY <1>7 DEF managerVars
<1> QED BY <1>1, <1>2, <1>3, <1>4, <1>5, <1>6, <1>7 DEF Next, Call, StartStep

LEMMA InitHolds == Init => IInv
<1> SUFFICES ASSUME Init PROVE IInv
  OBVIOUS
<1> USE DEF Init
<1>1. TypeOK
  <2>1. pipe \in Seq(Lines) /\ Len(pipe) <= PipeCap
    BY PipeCapAssumption, EmptySeq
  <2>2. QED
    BY <2>1 DEF TypeOK, Steps, Returns
<1>2. LockDiscipline
  BY NobodyAssumption DEF LockDiscipline, Critical, StartSteps, StopSteps
<1>3. DirsInv
  BY DEF DirsInv, HasManager, Alive
<1>4. StopInv
  BY DEF StopInv, Alive
<1>5. BootInv
  BY DEF BootInv
<1>6. StartInv
  BY DEF StartInv, StartSteps
<1>7. QED
  BY <1>1, <1>2, <1>3, <1>4, <1>5, <1>6 DEF IInv

LEMMA NextHolds == IInv /\ [Next]_managerVars => IInv'
  BY TypeStep, LockStep, DirsStay, StopStays, BootStays, StartStays DEF IInv

(***************************************************************************)
(* IInv is an invariant of every behaviour of the Manager.                 *)
(***************************************************************************)
THEOREM Invariance == Spec => []IInv
<1>1. Init => IInv
  BY InitHolds
<1>2. IInv /\ [Next]_managerVars => IInv'
  BY NextHolds
<1>3. QED
  BY <1>1, <1>2, PTL DEF Spec

(***************************************************************************)
(* Type correctness of the Manager, its log pipe included.                 *)
(***************************************************************************)
THEOREM TypeCorrect == Spec => []TypeOK
<1>1. IInv => TypeOK
  BY DEF IInv
<1>2. QED
  BY <1>1, Invariance, PTL

(***************************************************************************)
(* Tor never runs without its directories: Stop deletes them after Tor is  *)
(* dead, and no Start launches Tor once they are deleted.                  *)
(***************************************************************************)
THEOREM DirsOutliveTorCorrect == Spec => []DirsOutliveTor
<1>1. IInv => DirsOutliveTor
  BY DEF IInv, TypeOK, DirsInv, DirsOutliveTor, HasManager, Alive
<1>2. QED
  BY <1>1, Invariance, PTL

(***************************************************************************)
(* After a Stop, whoever called it and whatever raced with it: no Tor now  *)
(* or later, no runtime directory, no ephemeral data, the user's data kept.*)
(***************************************************************************)
THEOREM StoppedIsCleanCorrect == Spec => []StoppedIsClean
<1>1. IInv => StoppedIsClean
  <2> SUFFICES ASSUME IInv, stopClosed, mu = Nobody
               PROVE  /\ ~Alive
                      /\ runtimeDir = "removed"
                      /\ dataDir = IF ephemeral THEN "removed" ELSE "present"
    BY DEF StoppedIsClean
  <2>1. \A g \in Goroutines : ~Critical(g)
    BY NobodyAssumption DEF IInv, LockDiscipline
  <2>2. \A g \in Goroutines : pc[g] \notin {"stop.wait", "stop.clean"}
    BY <2>1 DEF Critical, StartSteps, StopSteps
  <2>3. runtimeDir = "removed"
    BY <2>2 DEF IInv, StopInv
  <2>4. QED
    BY <2>3 DEF IInv, DirsInv
<1>2. QED
  BY <1>1, Invariance, PTL

(***************************************************************************)
(* A successful Start means a bootstrapped Tor and a Manager that nobody   *)
(* has begun to stop.                                                      *)
(***************************************************************************)
THEOREM StartSucceedsOnLiveManagerCorrect == Spec => StartSucceedsOnLiveManager
<1>1. IInv /\ [Next]_managerVars =>
        [started' = "ok" /\ started # "ok" =>
           /\ bootstrapped /\ booted
           /\ ~stopClosed /\ tor \notin {"none", "killed"} /\ runtimeDir = "present"]_managerVars
  <2> SUFFICES ASSUME IInv, [Next]_managerVars, started' = "ok", started # "ok"
               PROVE  /\ bootstrapped /\ booted
                      /\ ~stopClosed /\ tor \notin {"none", "killed"} /\ runtimeDir = "present"
    OBVIOUS
  <2>1. PICK g \in Goroutines : StartVerified(g)
    BY DEF Next, Call, StartStep, StopStep, WatchStep, ScanStep, TorStep, managerVars,
           NewManager, NewManagerFails, CallStart, CallStop, StartWatchdog, StartLock,
           StartSpawnFails,
           StartSpawn, StartBootstrapped, StartBootstrapFails, StartTimesOut,
           StartVerifyFails, StartFailed, StopLock, StopClose, StopReaps, StopKills,
           StopClean, WatchPark, WatchStopped, WatchProcessExit, WatchSocketLost,
           WatchCrash, ScanLine, ScanEnd, TorLogs, TorWedges, TorResumes, TorDies
  <2>2. pc[g] = "start.verify"
    BY <2>1 DEF StartVerified
  <2>3. QED
    BY <2>2 DEF IInv, BootInv
<1>2. QED
  BY <1>1, Invariance, PTL DEF Spec, StartSucceedsOnLiveManager

(***************************************************************************)
(* The Manager keeps its contract: a step outside Start ends a Tor, makes  *)
(* the directories go or is not seen; a step of Start is one of the        *)
(* contract's, by StartInv for the Tor and BootInv for the directories.    *)
(***************************************************************************)
THEOREM ContractIsKept == Spec => ImplementsContract
<1>1. Init => Contract!Init
  BY DEF Init, Contract!Init, Life, Alive
<1>2. IInv /\ [Next]_managerVars => [Contract!Next]_(Contract!contractVars)
  <2> SUFFICES ASSUME IInv, [Next]_managerVars
               PROVE  Contract!Next \/ UNCHANGED <<started, Life, runtimeDir = "removed">>
    BY DEF Contract!contractVars
  <2> USE DEF IInv, TypeOK, Life, Alive, Exists
  <2>1. ASSUME NEW g \in Goroutines, CallStart(g) PROVE Contract!CallsStart
    BY <2>1 DEF CallStart, Contract!CallsStart
  <2>2. ASSUME NEW g \in Goroutines, StartSpawn(g) PROVE Contract!Launches
    BY <2>2 DEF StartSpawn, Contract!Launches, StartInv, StartSteps
  <2>3. ASSUME NEW g \in Goroutines, StartVerified(g) PROVE Contract!Succeeds
    BY <2>3 DEF StartVerified, Contract!Succeeds, StartInv, StartSteps, BootInv
  <2>4. ASSUME NEW g \in Goroutines, StartFailed(g) PROVE Contract!Fails
    BY <2>4 DEF StartFailed, Contract!Fails, StartInv, StartSteps
  <2>5. ASSUME NEW g \in Goroutines,
               \/ StartLock(g) \/ StartSpawnFails(g) \/ StartBootstrapped(g)
               \/ StartBootstrapFails(g) \/ StartTimesOut(g) \/ StartVerifyFails(g)
        PROVE  UNCHANGED <<started, tor, runtimeDir>>
    BY <2>5 DEF StartLock, StartSpawnFails, StartBootstrapped, StartBootstrapFails,
      StartTimesOut, StartVerifyFails
  <2>6. ASSUME NEW g \in Goroutines, StopClean(g) PROVE Contract!Stops
    BY <2>6 DEF StopClean, Contract!Stops, StopInv
  <2>7. ASSUME NEW g \in Goroutines, StopKills(g)
        PROVE  Contract!Dies \/ UNCHANGED <<started, Life, runtimeDir>>
    BY <2>7 DEF StopKills, Contract!Dies
  <2>8. ASSUME NEW g \in Goroutines, StopLock(g) \/ StopClose(g) \/ StopReaps(g)
        PROVE  UNCHANGED <<started, tor, runtimeDir>>
    BY <2>8 DEF StopLock, StopClose, StopReaps
  <2>9. ASSUME NEW g \in Goroutines, CallStop(g) \/ StartWatchdog(g) \/ WatchStep(g) \/ WatchCrash(g)
        PROVE  UNCHANGED <<started, tor, runtimeDir>>
    BY <2>9 DEF CallStop, StartWatchdog, WatchStep, WatchPark, WatchStopped,
      WatchProcessExit, WatchSocketLost, WatchCrash
  <2>10. ASSUME NEW g \in Goroutines, NewManager(g) \/ NewManagerFails(g)
         PROVE  UNCHANGED <<started, tor, runtimeDir = "removed">>
    BY <2>10 DEF NewManager, NewManagerFails
  <2>11. ASSUME ScanStep \/ TorWedges \/ TorResumes \/ \E line \in Lines : TorLogs(line)
         PROVE  UNCHANGED <<started, Life, runtimeDir>>
    BY <2>11 DEF ScanStep, ScanLine, ScanEnd, TorWedges, TorResumes, TorLogs
  <2>12. CASE TorDies
    <3>1. Contract!Dies \/ UNCHANGED <<started, Life, runtimeDir>>
      BY <2>12 DEF TorDies, Contract!Dies
    <3> QED BY <3>1 DEF Contract!Next
  <2>13. CASE UNCHANGED managerVars
    BY <2>13 DEF managerVars
  <2> QED BY <2>1, <2>2, <2>3, <2>4, <2>5, <2>6, <2>7, <2>8, <2>9, <2>10, <2>11, <2>12, <2>13
    DEF Next, Call, StartStep, StopStep, TorStep, Contract!Next
<1> QED BY <1>1, <1>2, Invariance, PTL DEF Spec, ImplementsContract, Contract!Spec

-----------------------------------------------------------------------------
(***************************************************************************)
(* The self-deadlock.  The mutex is not reentrant, so a goroutine at the   *)
(* Lock of a Stop that holds the mutex itself will not get it.             *)
(***************************************************************************)
Hung(g) == pc[g] = "stop.lock" /\ mu = g

\* Whoever holds the mutex and waits is at the only steps that others leave alone.
LEMMA HungFrame ==
  ASSUME IInv, [Next]_managerVars, NEW g \in Goroutines, Hung(g)
  PROVE  Hung(g)' /\ UNCHANGED <<stopClosed, runtimeDir, dataDir>>
<1> USE NobodyAssumption
<1>1. \A h \in Goroutines \ {g} : pc[h] \notin (StartSteps \cup StopSteps) \ {"start.lock", "stop.lock"}
  BY DEF IInv, LockDiscipline, Critical, Hung
<1>2. mu = g /\ mu # Nobody /\ pc[g] = "stop.lock" /\ HasManager
  BY DEF Hung, IInv, DirsInv
<1>3. ASSUME NEW h \in Goroutines, Call(h)
      PROVE  Hung(g)' /\ UNCHANGED <<stopClosed, runtimeDir, dataDir>>
  BY <1>2, <1>3 DEF Call, NewManager, NewManagerFails, HasManager, CallStart, CallStop,
    StartWatchdog, EnterStop, Goto, Hung, IInv, TypeOK
<1>4. ASSUME NEW h \in Goroutines PROVE ~StartStep(h) /\ ~StopStep(h)
  BY <1>1, <1>2 DEF StartStep, StartLock, StartSpawnFails, StartSpawn, StartBootstrapped,
    StartBootstrapFails, StartTimesOut, StartVerified, StartVerifyFails, StartFailed, StopStep,
    StopLock, StopClose, StopReaps, StopKills, StopClean, StartSteps, StopSteps
<1>5. ASSUME NEW h \in Goroutines, WatchStep(h) \/ WatchCrash(h)
      PROVE  Hung(g)' /\ UNCHANGED <<stopClosed, runtimeDir, dataDir>>
  BY <1>2, <1>5 DEF WatchStep, WatchPark, WatchStopped, WatchProcessExit, WatchSocketLost,
    WatchCrash, EnterStop, Goto, Hung, IInv, TypeOK
<1>6. CASE ScanStep \/ TorStep
  BY <1>6 DEF ScanStep, ScanLine, ScanEnd, TorStep, TorLogs, TorWedges, TorResumes, TorDies, Hung
<1>7. CASE UNCHANGED managerVars
  BY <1>7 DEF managerVars, Hung
<1> QED BY <1>3, <1>4, <1>5, <1>6, <1>7 DEF Next

(***************************************************************************)
(* The only goroutine that ever waits for a mutex it holds is in a Start   *)
(* that has launched Tor and failed: it has called Stop.                   *)
(***************************************************************************)
OnlyFailedStartsHang ==
  \A g \in Goroutines :
    pc[g] \in {"start.lock", "stop.lock"} /\ mu = g =>
      pc[g] = "stop.lock" /\ ret[g] = "start.failed"

THEOREM OnlyFailedStartsHangCorrect == Spec => []OnlyFailedStartsHang
<1>1. IInv => OnlyFailedStartsHang
  BY DEF IInv, LockDiscipline, Critical, OnlyFailedStartsHang, StartSteps, StopSteps
<1> QED BY <1>1, Invariance, PTL

(***************************************************************************)
(* It waits for ever, whatever other goroutines do, and nothing that its   *)
(* Stop was called for is done meanwhile: stopChan stays open and the      *)
(* directories of the failed Tor stay where they are.  Every Stop and      *)
(* Start of another goroutine waits behind it.                             *)
(***************************************************************************)
HangsForEver ==
  [][\A g \in Goroutines : Hung(g) =>
       Hung(g)' /\ UNCHANGED <<stopClosed, runtimeDir, dataDir>>]_managerVars

THEOREM HangsForEverCorrect == Spec => HangsForEver
<1>1. IInv /\ [Next]_managerVars =>
        [\A g \in Goroutines : Hung(g) =>
           Hung(g)' /\ UNCHANGED <<stopClosed, runtimeDir, dataDir>>]_managerVars
  BY HungFrame
<1> QED BY <1>1, Invariance, PTL DEF Spec, HangsForEver

(***************************************************************************)
(* What a failed Start leaves behind for good: a Manager that nobody has   *)
(* stopped, with its directories in place.                                 *)
(***************************************************************************)
HungLeavesAll ==
  \A g \in Goroutines : Hung(g) =>
    ~stopClosed /\ runtimeDir = "present" /\ dataDir = "present"

LEMMA HungLeavesStep == IInv /\ HungLeavesAll /\ [Next]_managerVars => HungLeavesAll'
<1> SUFFICES ASSUME IInv, HungLeavesAll, [Next]_managerVars, NEW g \in Goroutines, Hung(g)'
             PROVE  (~stopClosed /\ runtimeDir = "present" /\ dataDir = "present")'
  BY DEF HungLeavesAll
<1> USE NobodyAssumption
<1>1. CASE Hung(g)
  BY <1>1, HungFrame DEF HungLeavesAll
<1>2. CASE ~Hung(g)
  <2>1. IInv'
    BY NextHolds
  <2>2. ret'[g] = "start.failed"
    BY <2>1 DEF Hung, IInv, LockDiscipline, Critical, StartSteps, StopSteps
  <2>3. StartBootstrapFails(g) \/ StartTimesOut(g) \/ StartVerifyFails(g)
    <3>1. ASSUME NEW h \in Goroutines, Call(h) PROVE FALSE
      BY <1>2, <2>2, <3>1 DEF Call, NewManager, NewManagerFails, CallStart, CallStop,
        StartWatchdog, EnterStop, Goto, Hung, IInv, TypeOK
    <3>2. ASSUME NEW h \in Goroutines, StopStep(h) PROVE FALSE
      BY <1>2, <3>2 DEF StopStep, StopLock, StopClose, StopReaps, StopKills, StopClean, Goto, Hung,
        IInv, TypeOK, Returns
    <3>3. ASSUME NEW h \in Goroutines, WatchStep(h) \/ WatchCrash(h) PROVE FALSE
      BY <1>2, <2>2, <3>3 DEF WatchStep, WatchPark, WatchStopped, WatchProcessExit,
        WatchSocketLost, WatchCrash, EnterStop, Goto, Hung, IInv, TypeOK
    <3>4. ASSUME NEW h \in Goroutines,
                 StartLock(h) \/ StartSpawnFails(h) \/ StartSpawn(h) \/ StartBootstrapped(h)
                   \/ StartVerified(h) \/ StartFailed(h)
          PROVE  FALSE
      BY <1>2, <3>4 DEF StartLock, StartSpawnFails, StartSpawn, StartBootstrapped,
        StartVerified, StartFailed, Goto, Hung, IInv, TypeOK
    <3>5. ASSUME NEW h \in Goroutines,
                 StartBootstrapFails(h) \/ StartTimesOut(h) \/ StartVerifyFails(h)
          PROVE  h = g
      BY <1>2, <3>5 DEF StartBootstrapFails, StartTimesOut, StartVerifyFails, EnterStop, Goto,
        Hung, IInv, TypeOK
    <3>6. ~ScanStep /\ ~TorStep /\ ~UNCHANGED managerVars
      BY <1>2 DEF ScanStep, ScanLine, ScanEnd, TorStep, TorLogs, TorWedges, TorResumes, TorDies,
        Hung, managerVars
    <3> QED BY <3>1, <3>2, <3>3, <3>4, <3>5, <3>6 DEF Next, StartStep
  <2>4. pc[g] \in {"start.wait", "start.verify"} /\ UNCHANGED <<stopClosed, runtimeDir, dataDir>>
    BY <2>3 DEF StartBootstrapFails, StartTimesOut, StartVerifyFails
  <2> QED BY <2>4 DEF IInv, BootInv, DirsInv
<1> QED BY <1>1, <1>2

THEOREM HungLeavesAllCorrect == Spec => []HungLeavesAll
<1>1. Init => HungLeavesAll
  BY DEF Init, HungLeavesAll, Hung
<1> QED BY <1>1, HungLeavesStep, Invariance, PTL DEF Spec

-----------------------------------------------------------------------------
(***************************************************************************)
(* Each step of ControlPort is a step of TorManager or leaves its          *)
(* variables alone.                                                        *)
(***************************************************************************)
LEMMA ControlStepIsManagerStep ==
  ASSUME [ControlNext]_allVars
  PROVE  [Next]_managerVars
<1>1. ASSUME UNCHANGED allVars PROVE UNCHANGED managerVars
  BY <1>1 DEF allVars
<1>2. ASSUME NEW g \in Goroutines, OtherSteps(g) PROVE Next
  BY <1>2 DEF OtherSteps, Next, StartStep
<1>3. ASSUME NEW g \in Goroutines, VerifyAction(g) PROVE [Next]_managerVars
  <2>1. CASE VerifySucceeds(g)
    BY <2>1 DEF VerifySucceeds, Next, StartStep
  <2>2. CASE VerifyFails(g)
    BY <2>2 DEF VerifyFails, Next, StartStep
  <2>3. CASE VerifyDials(g) \/ VerifyAsksSocks(g) \/ VerifyAsksDNS(g) \/ VerifyProbes(g)
    BY <2>3 DEF VerifyDials, VerifyAsksSocks, VerifyAsksDNS, VerifyProbes, VerifyStep
  <2> QED BY <1>3, <2>1, <2>2, <2>3 DEF VerifyAction
<1>4. ASSUME NEW g \in Goroutines, NewnymAction(g) \/ TorReplies(g)
      PROVE  UNCHANGED managerVars
  BY <1>4 DEF NewnymAction, NewnymDials, NewnymAsks, NewnymReturns, NewnymStep, TorReplies
<1>5. ASSUME ScanStep \/ TorStep PROVE Next
  BY <1>5 DEF Next
<1> QED BY <1>1, <1>2, <1>3, <1>4, <1>5 DEF ControlNext

(***************************************************************************)
(* Every behaviour with the conversations is one of TorManager.            *)
(***************************************************************************)
THEOREM ControlPortImplementsManager == ControlSpec => ControlImplementsManager
<1>1. ControlInit => Init
  BY DEF ControlInit
<1> QED BY <1>1, ControlStepIsManagerStep, PTL DEF ControlSpec, ControlImplementsManager, Spec

-----------------------------------------------------------------------------
(***************************************************************************)
(* Steps outside conversations leave the goroutines that are in one where  *)
(* they are, and only VerifyListeners makes a Start succeed.               *)
(***************************************************************************)
LEMMA OthersStayPut ==
  ASSUME TypeOK, NEW g \in Goroutines, OtherSteps(g)
  PROVE  /\ started' = "ok" => started = "ok"
         /\ \A h \in Goroutines \ {g} : pc[h] # "watch.parked" => pc'[h] = pc[h]
BY DEF TypeOK, OtherSteps, Call, StopStep, WatchStep, Goto, EnterStop, NewManager, NewManagerFails,
       CallStart, CallStop, StartWatchdog, StartLock, StartSpawnFails, StartSpawn, StartBootstrapped,
       StartBootstrapFails, StartTimesOut, StartFailed, StopLock, StopClose, StopReaps,
       StopKills, StopClean, WatchPark, WatchStopped, WatchProcessExit, WatchSocketLost,
       WatchCrash

\* The log scanner and Tor move no goroutine and end no Start.
LEMMA TorMovesNobody ==
  ASSUME ScanStep \/ TorStep
  PROVE  UNCHANGED <<started, pc>>
BY DEF ScanStep, TorStep, ScanLine, ScanEnd, TorLogs, TorWedges, TorResumes, TorDies

(***************************************************************************)
(* Lines: an answer is a sequence of them, and so is what remains.         *)
(***************************************************************************)
LEMMA OneOrTwoLines ==
  ASSUME NEW S, NEW a \in S, NEW b \in S
  PROVE  <<a>> \in Seq(S) /\ <<a, b>> \in Seq(S)
OBVIOUS

LEMMA MoreLines ==
  ASSUME NEW S, NEW s \in Seq(S), NEW t \in Seq(S)
  PROVE  /\ s \o t \in Seq(S)
         /\ s # <<>> => Tail(s) \in Seq(S)
OBVIOUS

LEMMA EmptyReplaces ==
  ASSUME NEW D, NEW S, NEW f \in [D -> Seq(S)], NEW d \in D
  PROVE  [f EXCEPT ![d] = <<>>] \in [D -> Seq(S)]
<1>1. <<>> \in Seq(S)
  OBVIOUS
<1> QED BY <1>1

LEMMA AnswersAreLines ==
  ASSUME ControlTypeOK, NEW question \in Questions, NEW answer \in TorAnswer(question)
  PROVE  answer \in Seq(Answers)
<1>1. {"250", "515"} \subseteq Answers
  BY DEF Answers
<1>2. CASE question \in Listeners
  <2>1. bound[question] \in Answers
    BY <1>2 DEF ControlTypeOK, Answers
  <2>2. answer = <<bound[question], "250">>
    BY <1>2 DEF TorAnswer
  <2> QED BY <1>1, <2>1, <2>2, OneOrTwoLines
<1>3. CASE question \notin Listeners
  <2>1. answer = <<"250">> \/ answer = <<"515">>
    BY <1>3 DEF TorAnswer
  <2> QED BY <1>1, <2>1, OneOrTwoLines
<1> QED BY <1>2, <1>3

(***************************************************************************)
(* The types of the conversations are kept.                                *)
(***************************************************************************)
LEMMA ControlTypeStep ==
  ASSUME ControlTypeOK, [ControlNext]_allVars
  PROVE  ControlTypeOK'
<1>1. CASE UNCHANGED controlVars
  BY <1>1 DEF controlVars, ControlTypeOK
<1>2. ASSUME NEW g \in Goroutines, TorReplies(g) PROVE ControlTypeOK'
  <2>1. PICK answer \in TorAnswer(asked[g]) : unread' = [unread EXCEPT ![g] = @ \o answer]
    BY <1>2 DEF TorReplies
  <2>2. asked[g] \in Questions
    BY <1>2 DEF TorReplies, ControlTypeOK
  <2>3. answer \in Seq(Answers)
    BY <2>1, <2>2, AnswersAreLines
  <2>4. unread[g] \o answer \in Seq(Answers)
    BY <2>3, MoreLines DEF ControlTypeOK
  <2>5. unread' \in [Goroutines -> Seq(Answers)]
    BY <2>1, <2>4 DEF ControlTypeOK
  <2> QED BY <1>2, <2>5 DEF TorReplies, ControlTypeOK
<1>3. ASSUME NEW g \in Goroutines, VerifyAction(g) \/ NewnymAction(g) PROVE ControlTypeOK'
  <2>1. \/ UNCHANGED unread
        \/ unread' = [unread EXCEPT ![g] = <<>>]
        \/ unread' = [unread EXCEPT ![g] = Tail(@)] /\ unread[g] # <<>>
    BY <1>3 DEF VerifyAction, NewnymAction, VerifyDials, VerifyAsksSocks, VerifyAsksDNS,
      VerifyProbes, VerifySucceeds, VerifyFails, NewnymDials, NewnymAsks, NewnymReturns,
      Dial, Rest, HangUp, Reads
  <2>2. unread' \in [Goroutines -> Seq(Answers)]
    <3>1. unread[g] # <<>> => Tail(unread[g]) \in Seq(Answers)
      BY MoreLines DEF ControlTypeOK
    <3>2. <<>> \in Seq(Answers) /\ unread \in [Goroutines -> Seq(Answers)]
      BY DEF ControlTypeOK
    <3>3. CASE UNCHANGED unread
      BY <3>2, <3>3
    <3>4. CASE unread' = [unread EXCEPT ![g] = <<>>]
      BY <3>2, <3>4, EmptyReplaces
    <3>5. CASE unread' = [unread EXCEPT ![g] = Tail(@)] /\ unread[g] # <<>>
      BY <3>1, <3>2, <3>5
    <3> QED BY <2>1, <3>3, <3>4, <3>5
  <2>3. /\ talk' \in [Goroutines -> Questions \cup {"none", "probe"}]
        /\ asked' \in [Goroutines -> Questions \cup {"none"}]
        /\ newnym' \in [Goroutines -> {"none", "pending", "ok", "err"}]
        /\ rotated' \in [Goroutines -> BOOLEAN]
        /\ UNCHANGED <<bound, dnsPort>>
    BY <1>3 DEF VerifyAction, NewnymAction, VerifyDials, VerifyAsksSocks, VerifyAsksDNS,
      VerifyProbes, VerifySucceeds, VerifyFails, NewnymDials, NewnymAsks, NewnymReturns,
      Dial, Ask, HangUp, VerifyStep, NewnymStep, ControlTypeOK, Questions, Listeners
  <2> QED BY <2>2, <2>3 DEF ControlTypeOK
<1> QED BY <1>1, <1>2, <1>3 DEF ControlNext, allVars

-----------------------------------------------------------------------------
(***************************************************************************)
(* A goroutine whose conversation and whose place in the code do not       *)
(* change is in step as before.                                            *)
(***************************************************************************)
LEMMA InStepStays ==
  ASSUME NEW h \in Goroutines, InStep(h), bound' = bound,
         talk'[h] = talk[h], asked'[h] = asked[h], unread'[h] = unread[h],
         newnym'[h] = newnym[h], rotated'[h] = rotated[h],
         talk[h] # "none" => pc'[h] = pc[h]
  PROVE  InStep(h)'
BY DEF InStep, Open, Answered

\* The first answer on a connection is all there is to read.
LEMMA FirstAnswer ==
  ASSUME NEW a, NEW b
  PROVE  <<>> \o <<a>> = <<a>> /\ <<>> \o <<a, b>> = <<a, b>>
<1>1. <<a>> \in Seq({a, b}) /\ <<a, b>> \in Seq({a, b})
  OBVIOUS
<1> QED BY <1>1, ConcatEmptySeq

\* Lines in front of an answer do not make it empty.
LEMMA NotEmpty ==
  ASSUME NEW S, NEW s \in Seq(S), NEW t \in Seq(S), s # <<>>
  PROVE  s \o t # <<>>
OBVIOUS

\* An answer about SOCKS that passes does not begin with 0.0.0.0.
LEMMA GoodSocks ==
  ASSUME ControlTypeOK, NEW g \in Goroutines,
         unread[g] = <<bound["socks"], "250">>, Reads(g, Good)
  PROVE  bound["socks"] # "0.0.0.0"
<1>1. Head(unread[g]) = bound["socks"]
  OBVIOUS
<1>2. Head(unread[g]) # "0.0.0.0"
  BY DEF Reads, Good
<1> QED BY <1>1, <1>2

(***************************************************************************)
(* Tor's answer is to the question that is open.                           *)
(***************************************************************************)
LEMMA ReplyInStep ==
  ASSUME ControlTypeOK, NEW g \in Goroutines, InStep(g), TorReplies(g)
  PROVE  InStep(g)'
<1>1. PICK answer \in TorAnswer(asked[g]) : unread' = [unread EXCEPT ![g] = @ \o answer]
  BY DEF TorReplies
<1>2. /\ asked[g] # "none" /\ asked'[g] = "none" /\ unread'[g] = unread[g] \o answer
      /\ rotated'[g] = (rotated[g] \/ asked[g] = "newnym")
      /\ bound' = bound /\ talk' = talk /\ newnym' = newnym /\ pc' = pc
  BY <1>1 DEF TorReplies, ControlTypeOK, managerVars
<1>3. talk[g] # "none" /\ (talk[g] # "probe" => asked[g] = talk[g])
  BY <1>2 DEF InStep, Open, Answered, ControlTypeOK, Questions, Listeners
<1>4. CASE talk[g] = "auth"
  <2>1. /\ unread[g] = <<>>
        /\ pc[g] = "start.verify" \/ (pc[g] = "idle" /\ newnym[g] = "pending")
    BY <1>3, <1>4 DEF InStep, Open, Answered
  <2>2. answer = <<"250">> \/ answer = <<"515">>
    BY <1>3, <1>4 DEF TorAnswer, Listeners
  <2>3. unread'[g] = <<"250">> \/ unread'[g] = <<"515">>
    BY <1>2, <2>1, <2>2, FirstAnswer
  <2> QED BY <1>2, <1>4, <2>1, <2>3 DEF InStep, Open, Answered
<1>5. CASE talk[g] = "socks"
  <2>1. unread[g] = <<>> /\ pc[g] = "start.verify"
    BY <1>3, <1>5 DEF InStep, Open, Answered
  <2>2. answer = <<bound["socks"], "250">>
    BY <1>3, <1>5 DEF TorAnswer, Listeners
  <2>3. unread'[g] = <<bound["socks"], "250">>
    BY <1>2, <2>1, <2>2, FirstAnswer
  <2> QED BY <1>2, <1>5, <2>1, <2>3 DEF InStep, Open, Answered
<1>6. CASE talk[g] = "dns"
  <2>1. pc[g] = "start.verify" /\ bound["socks"] # "0.0.0.0" /\ unread[g] = <<"250">>
    BY <1>3, <1>6 DEF InStep, Open, Answered
  <2>2. answer \in Seq(Answers) /\ unread[g] \in Seq(Answers)
    BY <1>1, <1>3, <1>6, AnswersAreLines DEF ControlTypeOK, Questions, Listeners
  <2>3. unread'[g] # <<>>
    <3>1. unread[g] # <<>>
      BY <2>1
    <3> QED BY <1>2, <2>2, <3>1, NotEmpty
  <2> QED BY <1>2, <1>6, <2>1, <2>3 DEF InStep, Open, Answered
<1>7. CASE talk[g] = "newnym"
  <2>1. unread[g] = <<>> /\ pc[g] = "idle" /\ newnym[g] = "pending"
    BY <1>3, <1>7 DEF InStep, Open, Answered
  <2>2. answer = <<"250">>
    BY <1>3, <1>7 DEF TorAnswer, Listeners
  <2>3. unread'[g] = <<"250">>
    BY <1>2, <2>1, <2>2, FirstAnswer
  <2> QED BY <1>2, <1>3, <1>7, <2>1, <2>3 DEF InStep, Open, Answered
<1>8. CASE talk[g] = "probe"
  BY <1>2, <1>8 DEF InStep
<1> QED BY <1>3, <1>4, <1>5, <1>6, <1>7, <1>8 DEF ControlTypeOK, Questions, Listeners

(***************************************************************************)
(* VerifyListeners reads the answer to the question it asked about SOCKS,  *)
(* and gets to its probes only when that address is good.                  *)
(***************************************************************************)
LEMMA VerifyInStep ==
  ASSUME TypeOK, ControlTypeOK, NEW g \in Goroutines, InStep(g), VerifyAction(g)
  PROVE  InStep(g)'
<1>1. CASE VerifyDials(g)
  BY <1>1 DEF VerifyDials, Verifying, Dial, VerifyStep, managerVars, InStep, Open, ControlTypeOK
<1>2. CASE VerifyAsksSocks(g)
  <2>1. Reads(g, Good \cup {"0.0.0.0"}) /\ talk[g] = "auth"
    BY <1>2 DEF VerifyAsksSocks
  <2>2. unread[g] = <<"250">>
    <3>1. unread[g] # <<>> /\ Head(unread[g]) # "515"
      BY <2>1 DEF Reads, Good
    <3>2. unread[g] # <<"515">>
      BY <3>1
    <3> QED BY <2>1, <3>1, <3>2 DEF InStep, Open, Answered
  <2>3. unread'[g] = <<>>
    <3>1. Tail(unread[g]) = <<>>
      BY <2>2
    <3> QED BY <1>2, <3>1 DEF VerifyAsksSocks, Rest, ControlTypeOK
  <2> QED BY <1>2, <2>3 DEF VerifyAsksSocks, Verifying, Ask, VerifyStep, managerVars,
    InStep, Open, ControlTypeOK
<1>3. CASE VerifyAsksDNS(g)
  <2>1. Reads(g, Good) /\ talk[g] = "socks"
    BY <1>3 DEF VerifyAsksDNS
  <2>2. unread[g] = <<bound["socks"], "250">>
    BY <2>1 DEF Reads, InStep, Open, Answered
  <2>3. bound["socks"] # "0.0.0.0"
    BY <2>1, <2>2, GoodSocks
  <2>4. unread'[g] = <<"250">>
    <3>1. Tail(unread[g]) = <<"250">>
      BY <2>2
    <3> QED BY <1>3, <3>1 DEF VerifyAsksDNS, Rest, ControlTypeOK
  <2> QED BY <1>3, <2>3, <2>4 DEF VerifyAsksDNS, Verifying, Ask, VerifyStep, managerVars,
    InStep, Open, ControlTypeOK
<1>4. CASE VerifyProbes(g)
  <2>1. bound["socks"] # "0.0.0.0"
    <3>1. Reads(g, Good) /\ talk[g] \in {"socks", "dns"}
      BY <1>4 DEF VerifyProbes
    <3>2. CASE talk[g] = "dns"
      BY <3>2 DEF InStep
    <3>3. CASE talk[g] = "socks"
      <4>1. unread[g] = <<bound["socks"], "250">>
        BY <3>1, <3>3 DEF Reads, InStep, Open, Answered
      <4> QED BY <3>1, <4>1, GoodSocks
    <3> QED BY <3>1, <3>2, <3>3
  <2> QED BY <1>4, <2>1 DEF VerifyProbes, Verifying, VerifyStep, managerVars, InStep, ControlTypeOK
<1>5. CASE VerifySucceeds(g) \/ VerifyFails(g)
  BY <1>5 DEF VerifySucceeds, VerifyFails, HangUp, InStep, ControlTypeOK
<1> QED BY <1>1, <1>2, <1>3, <1>4, <1>5 DEF VerifyAction

(***************************************************************************)
(* SignalNewnym takes nothing but the answer to NEWNYM for that answer.    *)
(***************************************************************************)
LEMMA NewnymInStep ==
  ASSUME TypeOK, ControlTypeOK, NEW g \in Goroutines, InStep(g), NewnymAction(g)
  PROVE  InStep(g)'
<1>1. CASE NewnymDials(g)
  BY <1>1 DEF NewnymDials, Outside, Dial, NewnymStep, managerVars, InStep, Open, ControlTypeOK
<1>2. CASE NewnymAsks(g)
  <2>1. Reads(g, {"250"}) /\ talk[g] = "auth" /\ pc[g] = "idle"
    BY <1>2 DEF NewnymAsks, Outside
  <2>2. unread[g] = <<"250">>
    <3>1. unread[g] # <<>> /\ Head(unread[g]) = "250"
      BY <2>1 DEF Reads
    <3>2. unread[g] # <<"515">>
      BY <3>1
    <3> QED BY <2>1, <3>1, <3>2 DEF InStep, Open, Answered
  <2>3. unread'[g] = <<>>
    <3>1. Tail(unread[g]) = <<>>
      BY <2>2
    <3> QED BY <1>2, <3>1 DEF NewnymAsks, Rest, ControlTypeOK
  <2> QED BY <1>2, <2>1, <2>3 DEF NewnymAsks, Ask, NewnymStep, managerVars, InStep, Open,
    ControlTypeOK
<1>3. CASE NewnymReturns(g)
  BY <1>3 DEF NewnymReturns, HangUp, InStep, ControlTypeOK
<1> QED BY <1>1, <1>2, <1>3 DEF NewnymAction

\* What a goroutine in a conversation does disturbs no other conversation.
LEMMA OthersInStep ==
  ASSUME TypeOK, ControlTypeOK, NEW g \in Goroutines, NEW h \in Goroutines \ {g}, InStep(h),
         VerifyAction(g) \/ NewnymAction(g) \/ TorReplies(g)
  PROVE  InStep(h)'
<1>1. /\ bound' = bound
      /\ talk'[h] = talk[h] /\ asked'[h] = asked[h] /\ unread'[h] = unread[h]
      /\ newnym'[h] = newnym[h] /\ rotated'[h] = rotated[h]
  BY DEF VerifyAction, NewnymAction, VerifyDials, VerifyAsksSocks, VerifyAsksDNS, VerifyProbes,
    VerifySucceeds, VerifyFails, NewnymDials, NewnymAsks, NewnymReturns, TorReplies, Dial, Ask,
    HangUp, Rest, VerifyStep, NewnymStep, ControlTypeOK
<1>2. pc'[h] = pc[h]
  BY DEF VerifyAction, NewnymAction, VerifyDials, VerifyAsksSocks, VerifyAsksDNS, VerifyProbes,
    VerifySucceeds, VerifyFails, StartVerified, StartVerifyFails, EnterStop, Goto, NewnymDials,
    NewnymAsks, NewnymReturns, TorReplies, VerifyStep, NewnymStep, managerVars, TypeOK
<1> QED BY <1>1, <1>2, InStepStays

\* Who talks to Tor is in VerifyListeners, or outside the Manager.
LEMMA TalkersAt ==
  ASSUME ControlTypeOK, NEW g \in Goroutines, InStep(g), talk[g] # "none"
  PROVE  pc[g] \in {"start.verify", "idle"}
<1>1. talk[g] \in {"auth", "newnym", "socks", "dns", "probe"}
  BY DEF ControlTypeOK, Questions, Listeners
<1> QED BY <1>1 DEF InStep

(***************************************************************************)
(* The invariant is inductive, given the types of the Manager's variables. *)
(***************************************************************************)
LEMMA ControlInvStep ==
  ASSUME TypeOK, ControlInv, [ControlNext]_allVars
  PROVE  ControlInv'
<1>0. ControlTypeOK /\ ControlTypeOK' /\ \A g \in Goroutines : InStep(g)
  BY ControlTypeStep DEF ControlInv
<1>1. \A g \in Goroutines : InStep(g)'
  <2>1. CASE UNCHANGED allVars
    BY <1>0, <2>1, InStepStays DEF allVars, controlVars, managerVars
  <2>2. ASSUME NEW g \in Goroutines, talk[g] = "none", OtherSteps(g), UNCHANGED controlVars,
               NEW h \in Goroutines
        PROVE  InStep(h)'
    <3>1. talk[h] # "none" => h # g /\ pc[h] # "watch.parked"
      <4>1. talk[h] # "none" => h # g
        BY <2>2
      <4>2. talk[h] # "none" => pc[h] # "watch.parked"
        BY <1>0, TalkersAt
      <4> QED BY <4>1, <4>2
    <3>2. ASSUME talk[h] # "none" PROVE pc'[h] = pc[h]
      <4>1. h \in Goroutines \ {g} /\ pc[h] # "watch.parked"
        BY <3>1, <3>2
      <4> QED BY <2>2, <4>1, OthersStayPut
    <3> QED BY <1>0, <2>2, <3>2, InStepStays DEF controlVars
  <2>3. ASSUME NEW g \in Goroutines, VerifyAction(g) \/ NewnymAction(g) \/ TorReplies(g),
               NEW h \in Goroutines
        PROVE  InStep(h)'
    <3>1. CASE h = g
      BY <1>0, <2>3, <3>1, VerifyInStep, NewnymInStep, ReplyInStep
    <3>2. CASE h # g
      BY <1>0, <2>3, <3>2, OthersInStep
    <3> QED BY <3>1, <3>2
  <2>4. CASE (ScanStep \/ TorStep) /\ UNCHANGED controlVars
    BY <1>0, <2>4, TorMovesNobody, InStepStays DEF controlVars
  <2> QED BY <2>1, <2>2, <2>3, <2>4 DEF ControlNext
<1>2. AuditSeesSocks'
  <2>1. CASE started' = "ok" /\ started # "ok"
    <3>1. PICK g \in Goroutines : VerifySucceeds(g)
      <4>1. ASSUME NEW g \in Goroutines, OtherSteps(g) PROVE started' = "ok" => started = "ok"
        BY <4>1, OthersStayPut
      <4>2. ASSUME NEW g \in Goroutines, NewnymAction(g) \/ TorReplies(g)
            PROVE  started' = started
        BY <4>2 DEF NewnymAction, NewnymDials, NewnymAsks, NewnymReturns, NewnymStep,
          TorReplies, managerVars
      <4>3. ASSUME NEW g \in Goroutines, VerifyAction(g), ~VerifySucceeds(g)
            PROVE  started' = started
        BY <4>3 DEF VerifyAction, VerifyDials, VerifyAsksSocks, VerifyAsksDNS, VerifyProbes,
          VerifyFails, StartVerifyFails, VerifyStep, managerVars
      <4>4. ScanStep \/ TorStep => started' = started
        BY TorMovesNobody
      <4>5. UNCHANGED allVars => started' = started
        BY DEF allVars, managerVars
      <4> QED BY <2>1, <4>1, <4>2, <4>3, <4>4, <4>5 DEF ControlNext
    <3> QED BY <1>0, <3>1 DEF VerifySucceeds, InStep, AuditSeesSocks
  <2>2. CASE ~(started' = "ok" /\ started # "ok")
    <3>1. bound' = bound
      BY DEF ControlNext, allVars, controlVars, VerifyAction, NewnymAction, VerifyDials,
        VerifyAsksSocks, VerifyAsksDNS, VerifyProbes, VerifySucceeds, VerifyFails, VerifyStep,
        NewnymDials, NewnymAsks, NewnymReturns, NewnymStep, TorReplies
    <3> QED BY <2>2, <3>1 DEF ControlInv, AuditSeesSocks
  <2> QED BY <2>1, <2>2
<1>3. NewnymIsDone'
  <2>1. CASE UNCHANGED <<newnym, rotated>>
    BY <2>1 DEF ControlInv, NewnymIsDone
  <2>2. ASSUME NEW g \in Goroutines, VerifyAction(g) \/ TorReplies(g) PROVE NewnymIsDone'
    BY <1>0, <2>2 DEF VerifyAction, VerifyDials, VerifyAsksSocks, VerifyAsksDNS, VerifyProbes,
      VerifySucceeds, VerifyFails, VerifyStep, TorReplies, ControlInv, NewnymIsDone,
      ControlTypeOK
  <2>3. ASSUME NEW g \in Goroutines, NewnymAction(g) PROVE NewnymIsDone'
    <3>1. CASE NewnymDials(g)
      BY <1>0, <3>1 DEF NewnymDials, ControlInv, NewnymIsDone, ControlTypeOK
    <3>2. CASE NewnymAsks(g)
      BY <3>2 DEF NewnymAsks, ControlInv, NewnymIsDone
    <3>3. CASE NewnymReturns(g)
      <4>1. newnym'[g] = "ok" => rotated[g]
        BY <1>0, <3>3 DEF NewnymReturns, Reads, InStep, Open, Answered, ControlTypeOK
      <4> QED BY <1>0, <3>3, <4>1 DEF NewnymReturns, ControlInv, NewnymIsDone, ControlTypeOK
    <3> QED BY <2>3, <3>1, <3>2, <3>3 DEF NewnymAction
  <2> QED BY <2>1, <2>2, <2>3 DEF ControlNext, allVars, controlVars
<1> QED BY <1>0, <1>1, <1>2, <1>3 DEF ControlInv

(***************************************************************************)
(* Nothing but the conversations of Start and of SignalNewnym needed to be *)
(* looked at: the rest is TorManager's, by the refinement.                 *)
(***************************************************************************)
LEMMA ControlInvariant == ControlSpec => []ControlInv
<1>1. ControlInit => ControlInv
  BY DEF ControlInit, Init, ControlInv, ControlTypeOK, InStep, AuditSeesSocks, NewnymIsDone,
    Questions
<1>2. TypeOK /\ ControlInv /\ [ControlNext]_allVars => ControlInv'
  BY ControlInvStep
<1>3. ControlSpec => []TypeOK
  BY ControlPortImplementsManager, TypeCorrect, PTL DEF ControlImplementsManager
<1> QED BY <1>1, <1>2, <1>3, PTL DEF ControlSpec

(***************************************************************************)
(* A Start that succeeds has audited the address of the SOCKS listener.    *)
(***************************************************************************)
THEOREM SocksIsAudited == ControlSpec => []AuditSeesSocks
<1>1. ControlInv => AuditSeesSocks
  BY DEF ControlInv
<1> QED BY <1>1, ControlInvariant, PTL

(***************************************************************************)
(* A SignalNewnym that succeeds has been obeyed.                           *)
(***************************************************************************)
THEOREM NewnymIsObeyed == ControlSpec => []NewnymIsDone
<1>1. ControlInv => NewnymIsDone
  BY DEF ControlInv
<1> QED BY <1>1, ControlInvariant, PTL

(***************************************************************************)
(* A read always has a line that is there or that Tor owes.                *)
(***************************************************************************)
THEOREM ReadsAreOwed == ControlSpec => []ReadIsOwed
<1>1. ControlInv => ReadIsOwed
  BY DEF ControlInv, InStep, Open, Answered, ReadIsOwed, Questions, Listeners
<1> QED BY <1>1, ControlInvariant, PTL
=============================================================================

-------------------------- MODULE TorSession_proofs --------------------------
(***************************************************************************)
(* The session is a correct client of the Manager, and never exits by its  *)
(* own decision with something left behind, for any number of signals.     *)
(***************************************************************************)
EXTENDS TorSession, TorManager_proofs

LEMMA InitIsManagerInit == SessionInit => Init
  BY DEF SessionInit

(***************************************************************************)
(* Every step of the session is a step of the Manager or leaves it alone.  *)
(***************************************************************************)
LEMMA StepIsManagerStep == [SessionNext]_vars => [Next]_managerVars
<1> SUFFICES ASSUME [SessionNext]_vars PROVE [Next]_managerVars
  OBVIOUS
<1> {"main", "sig", "wd"} \subseteq Goroutines
  BY SessionAssumption
<1>1. CASE MainStep
  BY <1>1 DEF MainStep, MainNew, MainNotify, MainStart, MainStartFailed, MainUp, MainAudit,
    MainLaunch, MainLaunchFails, MainForward, MainRelay, MainTargetEnded, MainServe,
    Next, Call
<1>2. CASE SigReceive \/ WatchdogFires
  BY <1>2 DEF SigReceive, WatchdogFires, Next, Call
<1>3. ASSUME NEW g \in Goroutines, Exit(g) \/ ManagerStep(g) PROVE [Next]_managerVars
  BY <1>3 DEF Exit, ManagerStep, Next
<1>4. CASE Scan \/ RuntimeAborts
  BY <1>4 DEF Scan, RuntimeAborts, Next
<1>5. CASE Environment
  BY <1>5 DEF Environment, Signal, TargetExits, Next
<1>6. CASE UNCHANGED vars
  BY <1>6 DEF vars
<1>7. QED
  BY <1>1, <1>2, <1>3, <1>4, <1>5, <1>6 DEF SessionNext

(***************************************************************************)
(* The commands use the Manager as its specification allows.               *)
(***************************************************************************)
THEOREM SessionImplementsManager == SessionSpec => ImplementsManager
  BY InitIsManagerInit, StepIsManagerStep, PTL DEF SessionSpec, ImplementsManager

-----------------------------------------------------------------------------
LEMMA ManagerInvariant == SessionSpec => []IInv
<1>1. SessionInit => IInv
  BY InitIsManagerInit, InitHolds
<1>2. IInv /\ [SessionNext]_vars => IInv'
  BY StepIsManagerStep, NextHolds
<1>3. QED
  BY <1>1, <1>2, PTL DEF SessionSpec

LEMMA SessionTypeStep == SessionTypeOK /\ [SessionNext]_vars => SessionTypeOK'
<1> SUFFICES ASSUME SessionTypeOK, [SessionNext]_vars PROVE SessionTypeOK'
  OBVIOUS
<1> USE DEF SessionTypeOK, Positions, Channels, Signals, AllCommands
<1> {"main", "sig", "wd"} \subseteq Goroutines /\ MaxSignals \in Nat
  BY SessionAssumption
<1>1. CASE MainNew
  BY <1>1 DEF MainNew, Move
<1>2. CASE MainNotify
  BY <1>2 DEF MainNotify
<1>3. CASE MainStart
  BY <1>3 DEF MainStart, Move
<1>4. CASE MainStartFailed
  BY <1>4 DEF MainStartFailed, Move
<1>5. CASE MainUp
  BY <1>5 DEF MainUp, Move
<1>6. CASE MainAudit
  BY <1>6 DEF MainAudit, Move
<1>7. CASE MainLaunch
  BY <1>7 DEF MainLaunch, Move
<1>8. CASE MainLaunchFails
  BY <1>8 DEF MainLaunchFails, Move
<1>9. CASE MainForward
  BY <1>9 DEF MainForward, Move
<1>10. CASE MainRelay
  BY <1>10 DEF MainRelay, Move
<1>11. CASE MainTargetEnded
  BY <1>11 DEF MainTargetEnded, Move
<1>12. CASE MainServe
  BY <1>12 DEF MainServe, Move
<1>13. CASE SigReceive
  BY <1>13 DEF SigReceive, Move
<1>14. CASE WatchdogFires
  BY <1>14 DEF WatchdogFires, Move
<1>15. ASSUME NEW g \in Goroutines, Exit(g) PROVE SessionTypeOK'
  BY <1>15 DEF Exit
<1>16. ASSUME NEW s \in Signals, Signal(s) PROVE SessionTypeOK'
  <2>1. signals' \in 0..MaxSignals
    BY <1>16 DEF Signal
  <2>2. inbox' \in [Channels -> Signals \cup {"none"}]
    BY <1>16 DEF Signal
  <2>3. exit' \in {"running", "0", "1", "signal", "fatal"}
    BY <1>16 DEF Signal
  <2>4. QED
    BY <1>16, <2>1, <2>2, <2>3 DEF Signal
<1>17. CASE TargetExits
  BY <1>17 DEF TargetExits
<1>18. CASE RuntimeAborts
  BY <1>18 DEF RuntimeAborts
<1>19. CASE UNCHANGED sessionVars
  BY <1>19 DEF sessionVars
<1>20. QED
  BY <1>1, <1>2, <1>3, <1>4, <1>5, <1>6, <1>7, <1>8, <1>9, <1>10, <1>11, <1>12, <1>13,
    <1>14, <1>15, <1>16, <1>17, <1>18, <1>19
  DEF SessionNext, MainStep, ManagerStep, Scan, Environment, vars

-----------------------------------------------------------------------------
(***************************************************************************)
(* A goroutine in a Stop of its own stays in it until the directories are  *)
(* removed, and they are never made again.                                 *)
(***************************************************************************)
LEMMA StopEndsClean ==
  ASSUME IInv, [Next]_managerVars, NEW g \in Goroutines,
         \/ pc[g] \in StopSteps /\ ret[g] = "idle"
         \/ runtimeDir = "removed"
  PROVE  \/ pc'[g] \in StopSteps /\ ret'[g] = "idle"
         \/ runtimeDir' = "removed"
<1> USE DEF IInv, TypeOK, Steps, StartSteps, StopSteps, WatchSteps, Goto
<1>1. ASSUME NEW h \in Goroutines, Call(h) \/ WatchCrash(h)
      PROVE  \/ pc'[g] \in StopSteps /\ ret'[g] = "idle"
             \/ runtimeDir' = "removed"
  BY <1>1 DEF Call, NewManager, NewManagerFails, CallStart, CallStop, StartWatchdog, WatchCrash,
    EnterStop
<1>2. ASSUME NEW h \in Goroutines, StartStep(h)
      PROVE  \/ pc'[g] \in StopSteps /\ ret'[g] = "idle"
             \/ runtimeDir' = "removed"
  BY <1>2 DEF StartStep, StartLock, StartSpawnFails, StartSpawn, StartBootstrapped,
    StartBootstrapFails, StartTimesOut, StartVerified, StartVerifyFails, StartFailed, EnterStop
<1>3. ASSUME NEW h \in Goroutines, StopStep(h)
      PROVE  \/ pc'[g] \in StopSteps /\ ret'[g] = "idle"
             \/ runtimeDir' = "removed"
  BY <1>3 DEF StopStep, StopLock, StopClose, StopReaps, StopKills, StopClean
<1>4. ASSUME NEW h \in Goroutines, WatchStep(h)
      PROVE  \/ pc'[g] \in StopSteps /\ ret'[g] = "idle"
             \/ runtimeDir' = "removed"
  BY <1>4 DEF WatchStep, WatchPark, WatchStopped, WatchProcessExit, WatchSocketLost
<1>5. CASE ScanStep \/ TorStep \/ UNCHANGED managerVars
  BY <1>5 DEF ScanStep, TorStep, ScanLine, ScanEnd, TorLogs, TorWedges, TorResumes, TorDies,
    managerVars
<1>6. QED
  BY <1>1, <1>2, <1>3, <1>4, <1>5 DEF Next

\* Only NewManager makes the directories, once.
LEMMA RemovedStays ==
  ASSUME [Next]_managerVars, runtimeDir = "removed"
  PROVE  runtimeDir' = "removed"
  BY DEF Next, Call, StartStep, StopStep, WatchStep, ScanStep, TorStep, managerVars,
    NewManager, NewManagerFails, CallStart, CallStop, StartWatchdog, StartLock,
    StartSpawnFails, StartSpawn, StartBootstrapped, StartBootstrapFails, StartTimesOut, StartVerified, StartVerifyFails,
    StartFailed, StopLock, StopClose, StopReaps, StopKills, StopClean, WatchPark,
    WatchStopped, WatchProcessExit, WatchSocketLost, WatchCrash, ScanLine, ScanEnd, TorLogs,
    TorWedges, TorResumes, TorDies

(***************************************************************************)
(* A step preserves ExitInv when it creates no directory, does not exit,   *)
(* and moves a goroutine towards its exit only into a Stop.                *)
(***************************************************************************)
LEMMA ExitInvKept ==
  ASSUME IInv, ExitInv, [Next]_managerVars,
         ~HasManager => UNCHANGED <<runtimeDir, dataDir>>,
         exit' = exit,
         \A g \in Goroutines :
           \/ at'[g] = at[g]
           \/ at'[g] \notin {"new", "exit.0", "exit.1"}
           \/ at'[g] # "new" /\ pc'[g] \in StopSteps /\ ret'[g] = "idle"
  PROVE  ExitInv'
<1>1. at'["main"] = "new" => runtimeDir' = "absent" /\ dataDir' = "absent"
  BY SessionAssumption DEF ExitInv, HasManager
<1>2. ASSUME NEW g \in Goroutines, at'[g] \in {"exit.0", "exit.1"}
      PROVE  \/ ~HasManager' /\ g = "main" /\ at'[g] = "exit.1"
             \/ pc'[g] \in StopSteps /\ ret'[g] = "idle"
             \/ runtimeDir' = "removed"
  <2>1. CASE at'[g] = at[g]
    <3>1. CASE ~HasManager /\ g = "main" /\ at[g] = "exit.1"
      BY <2>1, <3>1 DEF HasManager
    <3>2. CASE \/ pc[g] \in StopSteps /\ ret[g] = "idle"
               \/ runtimeDir = "removed"
      BY <3>2, StopEndsClean
    <3>3. QED
      BY <1>2, <2>1, <3>1, <3>2 DEF ExitInv
  <2>2. CASE at'[g] # at[g]
    BY <1>2, <2>2
  <2>3. QED
    BY <2>1, <2>2
<1>3. exit' \in {"0", "1"} => runtimeDir' # "present"
  <2>1. CASE ~HasManager
    BY <2>1 DEF HasManager
  <2>2. CASE runtimeDir = "removed"
    BY <2>2, RemovedStays
  <2>3. QED
    BY <2>1, <2>2 DEF ExitInv, HasManager
<1>4. exit' = "0" => runtimeDir' = "removed"
  BY RemovedStays DEF ExitInv
<1>5. QED
  BY <1>1, <1>2, <1>3, <1>4 DEF ExitInv, HasManager

LEMMA ExitInvStep ==
  IInv /\ SessionTypeOK /\ ExitInv /\ [SessionNext]_vars => ExitInv'
<1> SUFFICES ASSUME IInv, SessionTypeOK, ExitInv, [SessionNext]_vars PROVE ExitInv'
  OBVIOUS
<1>a. [Next]_managerVars
  BY StepIsManagerStep
<1>b. {"main", "sig", "wd"} \subseteq Goroutines
  BY SessionAssumption
<1>c. at \in [Goroutines -> Positions]
  BY DEF SessionTypeOK
<1>d. pc \in [Goroutines -> Steps] /\ ret \in [Goroutines -> Returns]
  BY DEF IInv, TypeOK
<1>1. CASE MainNew
  <2>1. runtimeDir = "absent" /\ dataDir = "absent" /\ exit = "running" /\ exit' = "running"
    BY <1>1 DEF MainNew, At, Running, ExitInv
  <2>2. UNCHANGED <<pc, ret>> /\ \A g \in Goroutines \ {"main"} : at'[g] = at[g]
    BY <1>1, <1>c DEF MainNew, Move, NewManager, NewManagerFails, managerVars
  <2>3. \A g \in Goroutines \ {"main"} : at'[g] \notin {"exit.0", "exit.1"}
    <3>1. \A g \in Goroutines : pc[g] = "idle"
      BY <2>1 DEF IInv, DirsInv, HasManager
    <3> QED BY <2>1, <2>2, <3>1 DEF ExitInv, StopSteps
  <2>4. CASE NewManager("main") /\ at'["main"] \in {"notify", "start"}
    BY <2>1, <2>3, <2>4 DEF ExitInv
  <2>5. CASE (NewManagerFails("main") \/ UNCHANGED managerVars) /\ at'["main"] = "exit.1"
    <3>1. ~HasManager'
      BY <2>1, <2>5 DEF NewManagerFails, managerVars, HasManager
    <3> QED BY <2>1, <2>3, <2>5, <3>1 DEF ExitInv
  <2>6. QED
    BY <1>1, <1>b, <1>c, <2>4, <2>5 DEF MainNew, Move
<1>2. CASE MainNotify
  <2>1. UNCHANGED <<runtimeDir, dataDir, exit>>
    BY <1>2 DEF MainNotify, managerVars
  <2>2. \A g \in Goroutines :
          \/ at'[g] = at[g]
          \/ at'[g] \notin {"new", "exit.0", "exit.1"}
          \/ at'[g] # "new" /\ pc'[g] \in StopSteps /\ ret'[g] = "idle"
    BY <1>2, <1>b, <1>c, <1>d DEF MainNotify, Move, EnterStop, Goto, StopSteps
  <2>3. QED
    BY <2>1, <2>2, <1>a, ExitInvKept
<1>3. CASE MainStart
  <2>1. UNCHANGED <<runtimeDir, dataDir, exit>>
    BY <1>3 DEF MainStart, CallStart, managerVars
  <2>2. \A g \in Goroutines :
          \/ at'[g] = at[g]
          \/ at'[g] \notin {"new", "exit.0", "exit.1"}
          \/ at'[g] # "new" /\ pc'[g] \in StopSteps /\ ret'[g] = "idle"
    BY <1>3, <1>b, <1>c, <1>d DEF MainStart, CallStart, Move, EnterStop, Goto, StopSteps
  <2>3. QED
    BY <2>1, <2>2, <1>a, ExitInvKept
<1>4. CASE MainStartFailed
  <2>1. UNCHANGED <<runtimeDir, dataDir, exit>>
    BY <1>4 DEF MainStartFailed, CallStop, managerVars
  <2>2. \A g \in Goroutines :
          \/ at'[g] = at[g]
          \/ at'[g] \notin {"new", "exit.0", "exit.1"}
          \/ at'[g] # "new" /\ pc'[g] \in StopSteps /\ ret'[g] = "idle"
    BY <1>4, <1>b, <1>c, <1>d DEF MainStartFailed, CallStop, Move, EnterStop, Goto, StopSteps
  <2>3. QED
    BY <2>1, <2>2, <1>a, ExitInvKept
<1>5. CASE MainUp
  <2>1. UNCHANGED <<runtimeDir, dataDir, exit>>
    BY <1>5 DEF MainUp, StartWatchdog, managerVars
  <2>2. \A g \in Goroutines :
          \/ at'[g] = at[g]
          \/ at'[g] \notin {"new", "exit.0", "exit.1"}
          \/ at'[g] # "new" /\ pc'[g] \in StopSteps /\ ret'[g] = "idle"
    BY <1>5, <1>b, <1>c, <1>d DEF MainUp, StartWatchdog, Move, EnterStop, Goto, StopSteps
  <2>3. QED
    BY <2>1, <2>2, <1>a, ExitInvKept
<1>6. CASE MainAudit
  <2>1. UNCHANGED <<runtimeDir, dataDir, exit>>
    BY <1>6 DEF MainAudit, CallStop, managerVars
  <2>2. \A g \in Goroutines :
          \/ at'[g] = at[g]
          \/ at'[g] \notin {"new", "exit.0", "exit.1"}
          \/ at'[g] # "new" /\ pc'[g] \in StopSteps /\ ret'[g] = "idle"
    BY <1>6, <1>b, <1>c, <1>d DEF MainAudit, CallStop, Move, EnterStop, Goto, StopSteps
  <2>3. QED
    BY <2>1, <2>2, <1>a, ExitInvKept
<1>7. CASE MainLaunch
  <2>1. UNCHANGED <<runtimeDir, dataDir, exit>>
    BY <1>7 DEF MainLaunch, managerVars
  <2>2. \A g \in Goroutines :
          \/ at'[g] = at[g]
          \/ at'[g] \notin {"new", "exit.0", "exit.1"}
          \/ at'[g] # "new" /\ pc'[g] \in StopSteps /\ ret'[g] = "idle"
    BY <1>7, <1>b, <1>c, <1>d DEF MainLaunch, Move, EnterStop, Goto, StopSteps
  <2>3. QED
    BY <2>1, <2>2, <1>a, ExitInvKept
<1>8. CASE MainLaunchFails
  <2>1. UNCHANGED <<runtimeDir, dataDir, exit>>
    BY <1>8 DEF MainLaunchFails, CallStop, managerVars
  <2>2. \A g \in Goroutines :
          \/ at'[g] = at[g]
          \/ at'[g] \notin {"new", "exit.0", "exit.1"}
          \/ at'[g] # "new" /\ pc'[g] \in StopSteps /\ ret'[g] = "idle"
    BY <1>8, <1>b, <1>c, <1>d DEF MainLaunchFails, CallStop, Move, EnterStop, Goto, StopSteps
  <2>3. QED
    BY <2>1, <2>2, <1>a, ExitInvKept
<1>9. CASE MainForward
  <2>1. UNCHANGED <<runtimeDir, dataDir, exit>>
    BY <1>9 DEF MainForward, managerVars
  <2>2. \A g \in Goroutines :
          \/ at'[g] = at[g]
          \/ at'[g] \notin {"new", "exit.0", "exit.1"}
          \/ at'[g] # "new" /\ pc'[g] \in StopSteps /\ ret'[g] = "idle"
    BY <1>9, <1>b, <1>c, <1>d DEF MainForward, Move, EnterStop, Goto, StopSteps
  <2>3. QED
    BY <2>1, <2>2, <1>a, ExitInvKept
<1>10. CASE MainRelay
  <2>1. UNCHANGED <<runtimeDir, dataDir, exit>>
    BY <1>10 DEF MainRelay, managerVars
  <2>2. \A g \in Goroutines :
          \/ at'[g] = at[g]
          \/ at'[g] \notin {"new", "exit.0", "exit.1"}
          \/ at'[g] # "new" /\ pc'[g] \in StopSteps /\ ret'[g] = "idle"
    BY <1>10, <1>b, <1>c, <1>d DEF MainRelay, Move, EnterStop, Goto, StopSteps
  <2>3. QED
    BY <2>1, <2>2, <1>a, ExitInvKept
<1>11. CASE MainTargetEnded
  <2>1. UNCHANGED <<runtimeDir, dataDir, exit>>
    BY <1>11 DEF MainTargetEnded, CallStop, managerVars
  <2>2. \A g \in Goroutines :
          \/ at'[g] = at[g]
          \/ at'[g] \notin {"new", "exit.0", "exit.1"}
          \/ at'[g] # "new" /\ pc'[g] \in StopSteps /\ ret'[g] = "idle"
    BY <1>11, <1>b, <1>c, <1>d DEF MainTargetEnded, CallStop, Move, EnterStop, Goto, StopSteps
  <2>3. QED
    BY <2>1, <2>2, <1>a, ExitInvKept
<1>12. CASE MainServe
  <2>1. UNCHANGED <<runtimeDir, dataDir, exit>>
    BY <1>12 DEF MainServe, CallStop, managerVars
  <2>2. \A g \in Goroutines :
          \/ at'[g] = at[g]
          \/ at'[g] \notin {"new", "exit.0", "exit.1"}
          \/ at'[g] # "new" /\ pc'[g] \in StopSteps /\ ret'[g] = "idle"
    BY <1>12, <1>b, <1>c, <1>d DEF MainServe, CallStop, Move, EnterStop, Goto, StopSteps
  <2>3. QED
    BY <2>1, <2>2, <1>a, ExitInvKept
<1>13. CASE SigReceive
  <2>1. UNCHANGED <<runtimeDir, dataDir, exit>>
    BY <1>13 DEF SigReceive, CallStop, managerVars
  <2>2. \A g \in Goroutines :
          \/ at'[g] = at[g]
          \/ at'[g] \notin {"new", "exit.0", "exit.1"}
          \/ at'[g] # "new" /\ pc'[g] \in StopSteps /\ ret'[g] = "idle"
    BY <1>13, <1>b, <1>c, <1>d DEF SigReceive, CallStop, Move, EnterStop, Goto, StopSteps
  <2>3. QED
    BY <2>1, <2>2, <1>a, ExitInvKept
<1>14. CASE WatchdogFires
  <2>1. UNCHANGED <<runtimeDir, dataDir, exit>>
    BY <1>14 DEF WatchdogFires, WatchCrash, managerVars
  <2>2. \A g \in Goroutines :
          \/ at'[g] = at[g]
          \/ at'[g] \notin {"new", "exit.0", "exit.1"}
          \/ at'[g] # "new" /\ pc'[g] \in StopSteps /\ ret'[g] = "idle"
    BY <1>14, <1>b, <1>c, <1>d DEF WatchdogFires, WatchCrash, Move, EnterStop, Goto, StopSteps
  <2>3. QED
    BY <2>1, <2>2, <1>a, ExitInvKept
<1>15. ASSUME NEW g \in Goroutines, Exit(g) PROVE ExitInv'
  <2>1. at[g] \in {"exit.0", "exit.1"} /\ pc[g] = "idle"
    BY <1>15 DEF Exit, At
  <2>2. /\ runtimeDir # "present"
        /\ at[g] = "exit.0" => runtimeDir = "removed"
    BY <2>1 DEF ExitInv, StopSteps, HasManager
  <2>3. UNCHANGED <<at, pc, ret, runtimeDir, dataDir>> /\ (exit' = "0" => at[g] = "exit.0")
    BY <1>15 DEF Exit, At, managerVars
  <2>4. QED
    BY <2>2, <2>3 DEF ExitInv, HasManager
<1>16. ASSUME NEW g \in Goroutines, ManagerStep(g) PROVE ExitInv'
  <2>1. pc[g] # "idle"
    BY <1>16 DEF ManagerStep, StartStep, StopStep, WatchStep, StartLock, StartSpawnFails,
      StartSpawn, StartBootstrapped, StartBootstrapFails, StartTimesOut, StartVerified,
      StartVerifyFails, StartFailed, StopLock, StopClose, StopReaps, StopKills, StopClean,
      WatchPark, WatchStopped, WatchProcessExit, WatchSocketLost
  <2>2. HasManager
    BY <2>1 DEF IInv, DirsInv
  <2>3. UNCHANGED <<at, exit>>
    BY <1>16 DEF ManagerStep, sessionVars
  <2>4. QED
    BY <2>2, <2>3, <1>a, ExitInvKept
<1>17. CASE Scan \/ (TorStep /\ UNCHANGED sessionVars) \/ TargetExits \/ UNCHANGED vars
  <2>1. UNCHANGED <<at, exit, runtimeDir, dataDir>>
    BY <1>17 DEF Scan, ScanStep, ScanLine, ScanEnd, TorStep, TorLogs, TorWedges, TorResumes,
      TorDies, TargetExits, vars, managerVars, sessionVars
  <2>2. QED
    BY <2>1, <1>a, ExitInvKept
<1>18. CASE RuntimeAborts \/ \E s \in Signals : Signal(s)
  <2>1. UNCHANGED <<at, pc, ret, runtimeDir, dataDir>> /\ exit' \in {exit, "signal", "fatal"}
    BY <1>18 DEF RuntimeAborts, Signal, managerVars
  <2>2. QED
    BY <2>1 DEF ExitInv, HasManager
<1>19. QED
  BY <1>1, <1>2, <1>3, <1>4, <1>5, <1>6, <1>7, <1>8, <1>9, <1>10, <1>11, <1>12, <1>13,
    <1>14, <1>15, <1>16, <1>17, <1>18
  DEF SessionNext, MainStep, Environment

(***************************************************************************)
(* Whichever goroutine ends the program, and whatever races with it, an    *)
(* exit with code 0 or 1 leaves no Tor and the user's own data in place.   *)
(* The rest is gone too, but for the one directory of a NewManager that    *)
(* failed, with which the code is 1.                                       *)
(***************************************************************************)
THEOREM CleanExitCorrect == SessionSpec => []CleanExit
<1>1. SessionInit => SessionTypeOK /\ ExitInv
  BY SessionAssumption
  DEF SessionInit, Init, SessionTypeOK, ExitInv, Positions, Channels, Signals, AllCommands
<1>2. IInv /\ SessionTypeOK /\ ExitInv /\ [SessionNext]_vars => (SessionTypeOK /\ ExitInv)'
  BY SessionTypeStep, ExitInvStep
<1>3. IInv /\ ExitInv => CleanExit
  BY DEF IInv, TypeOK, DirsInv, ExitInv, CleanExit, HasManager, Alive
<1>4. QED
  BY <1>1, <1>2, <1>3, ManagerInvariant, PTL DEF SessionSpec

(***************************************************************************)
(* The command, the goroutines' positions, the signals and the exit are    *)
(* always of their types, in every race.                                   *)
(***************************************************************************)
THEOREM SessionTypeCorrect == SessionSpec => []SessionTypeOK
<1>1. SessionInit => SessionTypeOK
  BY SessionAssumption
  DEF SessionInit, Init, SessionTypeOK, Positions, Channels, Signals, AllCommands
<1>2. SessionTypeOK /\ [SessionNext]_vars => SessionTypeOK'
  BY SessionTypeStep
<1>3. QED
  BY <1>1, <1>2, PTL DEF SessionSpec
=============================================================================

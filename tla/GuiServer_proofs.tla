--------------------------- MODULE GuiServer_proofs ---------------------------
(***************************************************************************)
(* Proofs about GuiServer, for any number of requests at a time and of     *)
(* Managers: the current Manager is a live one, the booting flag is set by *)
(* a caller of Start that is yet to come back, and every Manager keeps its *)
(* contract.                                                               *)
(***************************************************************************)
EXTENDS GuiServer, TLAPS

-----------------------------------------------------------------------------
(***************************************************************************)
(* The inductive invariant.                                                *)
(***************************************************************************)
Testing == {"test.boot", "test.start", "test.drop", "test.publish"}

\* A Manager made by a test belongs to that test alone until it is published,
\* and a stop waits for the Manager that is the current one.
HandlersInv ==
  /\ \A h \in Handlers : mine[h] # None <=> at[h] \in Testing
  /\ \A h \in Handlers : mine[h] # None => mine[h] \notin stopped \cup {torMgr}
  /\ \A h \in Handlers : at[h] = "test.boot" => start[mine[h]] = "made"
  /\ \A g, h \in Handlers : g # h /\ mine[g] = mine[h] => mine[h] = None
  /\ \A h \in Handlers : at[h] = "stop.wait" => torMgr # None

\* No Tor without a Start, or after a Stop; Stop waits for a Start at work.
ManagersInv ==
  /\ stopped \subseteq 1..made
  /\ \A m \in Managers :
       /\ m > made => start[m] = "none"
       /\ start[m] \in {"none", "made", "called", "err"} => tor[m] = "none"
       /\ start[m] \in {"waiting", "verifying"} => m \notin stopped /\ tor[m] # "none"
       /\ m \in stopped => tor[m] # "running"

GuiInv == GuiTypeOK /\ HandlersInv /\ ManagersInv /\ CurrentIsNotStopped /\ BootingHasCaller

-----------------------------------------------------------------------------
(***************************************************************************)
(* Two ways to see a step: which Manager it concerns, and how.             *)
(***************************************************************************)
LEMMA MakeMakes ==
  ASSUME GuiTypeOK, NEW s \in {"made", "called"}, Make(s)
  PROVE  /\ made \in Nat /\ made' = made + 1 /\ made' \in Managers
         /\ start' \in [Managers -> StartSteps]
         /\ \A m \in Managers : start'[m] = IF m = made' THEN s ELSE start[m]
         /\ UNCHANGED <<scanner, tor, bootstrapped, stopped>>
<1>1. made \in Nat /\ made' = made + 1 /\ made' \in Managers
  BY ManagersAssumption DEF GuiTypeOK, Make, Managers
<1>2. s \in StartSteps
  BY DEF StartSteps
<1> QED BY <1>1, <1>2 DEF GuiTypeOK, Make

LEMMA StopStops ==
  ASSUME GuiTypeOK, NEW m \in Managers, StopManager(m)
  PROVE  /\ start[m] \notin {"waiting", "verifying"} /\ stopped' = stopped \cup {m}
         /\ tor' \in [Managers -> {"none", "running", "dead"}]
         /\ tor'[m] # "running" /\ (tor[m] = "none" => tor'[m] = "none")
         /\ \A n \in Managers : n # m => tor'[n] = tor[n]
         /\ UNCHANGED <<start, scanner, bootstrapped>>
  BY DEF GuiTypeOK, StopManager, Unlocked

\* The middle and the end of a Start.
LEMMA StartMoves ==
  ASSUME NEW m \in Managers, Waited(m) \/ Verified(m)
  PROVE  /\ \/ start[m] = "waiting" /\ start' = [start EXCEPT ![m] = "verifying"]
            \/ start[m] = "verifying" /\ start' = [start EXCEPT ![m] = "ok"]
            \/ start[m] \in {"waiting", "verifying"} /\ start' = [start EXCEPT ![m] = "stuck"]
         /\ UNCHANGED <<serverVars, made, scanner, tor, bootstrapped, stopped>>
  BY DEF Waited, Verified, StartBootstraps, BootFails, StartSucceeds, StartFails, Moves

\* The Manager a test or a stop works on.
LEMMA MineIsMade ==
  ASSUME GuiTypeOK, HandlersInv, NEW h \in Handlers
  PROVE  /\ at[h] \in Testing => mine[h] \in 1..made /\ mine[h] \in Managers
         /\ at[h] = "stop.wait" => torMgr \in 1..made /\ torMgr \in Managers
  BY ManagersAssumption DEF GuiTypeOK, HandlersInv, Managers, None

-----------------------------------------------------------------------------
LEMMA GuiTypeStep == GuiTypeOK /\ HandlersInv /\ [Next]_guiVars => GuiTypeOK'
<1> SUFFICES ASSUME GuiTypeOK, HandlersInv, [Next]_guiVars PROVE GuiTypeOK'
  OBVIOUS
<1> USE ManagersAssumption, HandlersAssumption DEF GuiTypeOK
<1>0. made \in Nat /\ 1..made \subseteq Managers
  BY DEF Managers
<1>1. ASSUME NEW h \in Handlers, Request(h) PROVE GuiTypeOK'
  BY <1>1 DEF Request, Go, Requests, Steps, TestSteps, NewnymSteps, mgrVars
<1>2. ASSUME NEW h \in Handlers,
             \/ Serve(h) \/ TestRead(h) \/ TestUsesGateway(h) \/ TestMakesNone(h)
             \/ TestVerified(h) \/ NewnymReads(h) \/ NewnymSignalled(h) \/ NewnymAnswers(h)
             \/ DaemonStartMakesNone(h)
      PROVE  GuiTypeOK'
  <2>1. PICK s \in {"idle", "test.check", "test.verify", "newnym.signal", "newnym.port"} :
          at' = [at EXCEPT ![h] = s] /\ at[h] # "stop.wait"
    BY <1>2 DEF Serve, TestRead, TestUsesGateway, TestMakesNone, TestVerified, NewnymReads,
      NewnymSignalled, NewnymAnswers, DaemonStartMakesNone, Go
  <2>2. UNCHANGED <<smu, torMgr, isBooting, mine, booter, made, mgrVars>>
    BY <1>2 DEF Serve, TestRead, TestUsesGateway, TestMakesNone, TestVerified, NewnymReads,
      NewnymSignalled, NewnymAnswers, DaemonStartMakesNone
  <2>3. at' \in [Handlers -> Steps]
    BY <2>1 DEF Steps, TestSteps, NewnymSteps
  <2> QED BY <2>1, <2>2, <2>3 DEF mgrVars
<1>3. ASSUME NEW h \in Handlers, TestMakes(h) PROVE GuiTypeOK'
  <2>1. at' \in [Handlers -> Steps] /\ \A g \in Handlers : smu' = g <=> at'[g] = "stop.wait"
    BY <1>3 DEF TestMakes, Go, Steps, TestSteps
  <2>2. /\ made \in Nat /\ made' = made + 1 /\ made' \in Managers
        /\ start' \in [Managers -> StartSteps]
        /\ UNCHANGED <<scanner, tor, bootstrapped, stopped>>
    BY <1>3, MakeMakes DEF TestMakes
  <2>3. mine' \in [Handlers -> 0..made']
    BY <1>3, <2>2 DEF TestMakes
  <2> QED BY <1>3, <2>1, <2>2, <2>3 DEF TestMakes, Managers
<1>4. ASSUME NEW h \in Handlers, TestBoots(h) PROVE GuiTypeOK'
  <2>1. at' \in [Handlers -> Steps] /\ \A g \in Handlers : smu' = g <=> at'[g] = "stop.wait"
    BY <1>4 DEF TestBoots, Go, Steps, TestSteps
  <2>2. start' \in [Managers -> StartSteps]
    BY <1>4 DEF TestBoots, StartSteps
  <2> QED BY <1>4, <2>1, <2>2 DEF TestBoots
<1>5. ASSUME NEW h \in Handlers, TestStarted(h) PROVE GuiTypeOK'
  BY <1>5 DEF TestStarted, Go, Steps, TestSteps, mgrVars
<1>6. ASSUME NEW h \in Handlers, TestDrops(h) PROVE GuiTypeOK'
  <2>1. at' \in [Handlers -> Steps] /\ \A g \in Handlers : smu' = g <=> at'[g] = "stop.wait"
    BY <1>6 DEF TestDrops, Go, Steps
  <2>2. mine[h] \in Managers /\ mine' \in [Handlers -> 0..made]
    BY <1>6, MineIsMade DEF TestDrops, Go, Testing, None
  <2> QED BY <1>6, <2>1, <2>2, StopStops DEF TestDrops
<1>7. ASSUME NEW h \in Handlers, TestPublishes(h) PROVE GuiTypeOK'
  <2>1. at' \in [Handlers -> Steps] /\ \A g \in Handlers : smu' = g <=> at'[g] = "stop.wait"
    BY <1>7 DEF TestPublishes, Go, Steps, TestSteps
  <2>2. mine' \in [Handlers -> 0..made]
    BY <1>0, <1>7 DEF TestPublishes, None
  <2> QED BY <1>7, <2>1, <2>2 DEF TestPublishes, mgrVars
<1>8. ASSUME NEW h \in Handlers, DaemonStart(h) PROVE GuiTypeOK'
  <2>1. at' \in [Handlers -> Steps] /\ \A g \in Handlers : smu' = g <=> at'[g] = "stop.wait"
    BY <1>8 DEF DaemonStart, Go, Steps
  <2>2. /\ made \in Nat /\ made' = made + 1 /\ made' \in Managers
        /\ start' \in [Managers -> StartSteps]
        /\ UNCHANGED <<scanner, tor, bootstrapped, stopped>>
    BY <1>8, MakeMakes DEF DaemonStart
  <2>3. torMgr' \in 0..made' /\ booter' \subseteq 1..made' /\ mine' \in [Handlers -> 0..made']
    BY <1>8, <2>2 DEF DaemonStart
  <2> QED BY <1>8, <2>1, <2>2, <2>3 DEF DaemonStart, Managers
<1>9. ASSUME NEW h \in Handlers, DaemonStopNothing(h) PROVE GuiTypeOK'
  BY <1>9 DEF DaemonStopNothing, Go, Steps, mgrVars
<1>10. ASSUME NEW h \in Handlers, DaemonStop(h) PROVE GuiTypeOK'
  BY <1>10 DEF DaemonStop, Go, Steps, mgrVars
<1>11. ASSUME NEW h \in Handlers, DaemonStopped(h) PROVE GuiTypeOK'
  <2>1. at' \in [Handlers -> Steps] /\ \A g \in Handlers : smu' = g <=> at'[g] = "stop.wait"
    BY <1>11 DEF DaemonStopped, Go, Steps
  <2>2. torMgr \in Managers /\ torMgr' \in 0..made
    BY <1>0, <1>11, MineIsMade DEF DaemonStopped, Go, None
  <2>3. /\ stopped' \subseteq Managers /\ tor' \in [Managers -> {"none", "running", "dead"}]
        /\ UNCHANGED <<start, scanner, bootstrapped>>
    <3>1. /\ tor' = [tor EXCEPT ![torMgr] = IF @ = "running" THEN "dead" ELSE @]
          /\ stopped' = stopped \cup {torMgr}
          /\ UNCHANGED <<start, scanner, bootstrapped>>
      BY <1>11 DEF DaemonStopped, StopManager
    <3>2. tor' \in [Managers -> {"none", "running", "dead"}]
      BY <3>1
    <3> QED BY <2>2, <3>1, <3>2
  <2> QED BY <1>11, <2>1, <2>2, <2>3 DEF DaemonStopped
<1>12. ASSUME NEW m \in Managers, Booted(m) PROVE GuiTypeOK'
  BY <1>12 DEF Booted, mgrVars
<1>13. ASSUME NEW m \in Managers, StartSpawns(m) PROVE GuiTypeOK'
  BY <1>13 DEF StartSpawns, serverVars, StartSteps
<1>14. ASSUME NEW m \in Managers, StartSpawnFails(m) \/ Waited(m) \/ Verified(m) PROVE GuiTypeOK'
  <2>1. CASE StartSpawnFails(m)
    BY <2>1 DEF StartSpawnFails, serverVars, StartSteps
  <2>2. CASE Waited(m) \/ Verified(m)
    BY <2>2, StartMoves DEF serverVars, StartSteps
  <2> QED BY <1>14, <2>1, <2>2
<1>15. ASSUME NEW m \in Managers, TorLogs(m) PROVE GuiTypeOK'
  BY <1>15 DEF TorLogs, serverVars
<1>16. ASSUME NEW m \in Managers, CallBack(m) PROVE GuiTypeOK'
  BY <1>16 DEF CallBack, serverVars
<1>17. ASSUME NEW m \in Managers, ScanEnds(m) PROVE GuiTypeOK'
  BY <1>17 DEF ScanEnds, serverVars
<1>18. ASSUME NEW m \in Managers, TorDies(m) PROVE GuiTypeOK'
  BY <1>18 DEF TorDies, serverVars
<1>19. CASE UNCHANGED guiVars
  BY <1>19 DEF guiVars, serverVars, mgrVars
<1> QED BY <1>1, <1>2, <1>3, <1>4, <1>5, <1>6, <1>7, <1>8, <1>9, <1>10, <1>11, <1>12, <1>13,
    <1>14, <1>15, <1>16, <1>17, <1>18, <1>19 DEF Next, HandlerStep

-----------------------------------------------------------------------------
\* A step of a handler that is neither making, publishing nor dropping a
\* Manager, or a step of a Manager.
LEMMA HandlersQuiet ==
  ASSUME HandlersInv, UNCHANGED <<torMgr, mine, stopped>>,
         \A h \in Handlers :
           /\ at'[h] \in Testing <=> at[h] \in Testing
           /\ at'[h] = "test.boot" => at[h] = "test.boot" /\ start'[mine[h]] = start[mine[h]]
           /\ at'[h] = "stop.wait" => at[h] = "stop.wait" \/ torMgr # None
  PROVE  HandlersInv'
  BY DEF HandlersInv

LEMMA HandlersStep == GuiInv /\ [Next]_guiVars => HandlersInv'
<1> SUFFICES ASSUME GuiInv, [Next]_guiVars PROVE HandlersInv'
  OBVIOUS
<1> USE ManagersAssumption DEF GuiInv, GuiTypeOK
<1>1. ASSUME NEW h \in Handlers,
             \/ Request(h) \/ Serve(h) \/ TestRead(h) \/ TestUsesGateway(h) \/ TestMakesNone(h)
             \/ TestVerified(h) \/ NewnymReads(h) \/ NewnymSignalled(h) \/ NewnymAnswers(h)
             \/ DaemonStartMakesNone(h)
      PROVE  HandlersInv'
  <2>1. PICK s \in Requests \cup {"idle", "test.check", "test.verify", "newnym.signal", "newnym.port"} :
          at' = [at EXCEPT ![h] = s] /\ at[h] \notin Testing
    BY <1>1 DEF Request, Serve, TestRead, TestUsesGateway, TestMakesNone, TestVerified, NewnymReads,
      NewnymSignalled, NewnymAnswers, DaemonStartMakesNone, Go, Testing
  <2>2. UNCHANGED <<torMgr, mine, mgrVars>>
    BY <1>1 DEF Request, Serve, TestRead, TestUsesGateway, TestMakesNone, TestVerified, NewnymReads,
      NewnymSignalled, NewnymAnswers, DaemonStartMakesNone
  <2> QED BY <2>1, <2>2, HandlersQuiet DEF mgrVars, Requests, Testing
<1>2. ASSUME NEW h \in Handlers, TestMakes(h) PROVE HandlersInv'
  <2>1. /\ made' \notin 0..made /\ made' \in Managers /\ made' # None
        /\ \A m \in Managers : start'[m] = IF m = made' THEN "made" ELSE start[m]
        /\ UNCHANGED <<torMgr, stopped>>
    BY <1>2, MakeMakes DEF TestMakes, None
  <2>2. /\ \A g \in Handlers : mine'[g] = IF g = h THEN made' ELSE mine[g]
        /\ \A g \in Handlers : at'[g] = IF g = h THEN "test.boot" ELSE at[g]
        /\ at[h] \notin Testing
    BY <1>2 DEF TestMakes, Go, Testing
  <2>3. \A g \in Handlers : mine[g] \in 0..made
    OBVIOUS
  <2>4. made' \notin stopped \cup {torMgr}
    BY <2>1 DEF ManagersInv
  <2>5. (\A g \in Handlers : mine[g] # None <=> at[g] \in Testing)'
    BY <2>1, <2>2 DEF HandlersInv, Testing
  <2>6. (\A g \in Handlers : mine[g] # None => mine[g] \notin stopped \cup {torMgr})'
    BY <2>1, <2>2, <2>4 DEF HandlersInv
  <2>7. (\A g \in Handlers : at[g] = "test.boot" => start[mine[g]] = "made")'
    <3>1. ASSUME NEW g \in Handlers, g # h, at[g] = "test.boot" PROVE mine[g] \in Managers
      BY <3>1, MineIsMade DEF Testing
    <3> QED BY <2>1, <2>2, <2>3, <3>1 DEF HandlersInv
  <2>8. (\A f, g \in Handlers : f # g /\ mine[f] = mine[g] => mine[g] = None)'
    BY <2>1, <2>2, <2>3 DEF HandlersInv
  <2>9. (\A g \in Handlers : at[g] = "stop.wait" => torMgr # None)'
    BY <2>1, <2>2 DEF HandlersInv
  <2> QED BY <2>5, <2>6, <2>7, <2>8, <2>9 DEF HandlersInv
<1>3. ASSUME NEW h \in Handlers, TestBoots(h) PROVE HandlersInv'
  <2>1. /\ at[h] = "test.boot" /\ UNCHANGED <<torMgr, mine, stopped>>
        /\ \A g \in Handlers : at'[g] = IF g = h THEN "test.start" ELSE at[g]
        /\ \A m \in Managers : m # mine[h] => start'[m] = start[m]
    BY <1>3 DEF TestBoots, Go
  <2>2. ASSUME NEW g \in Handlers, g # h, at[g] = "test.boot"
        PROVE  start'[mine[g]] = start[mine[g]]
    <3>1. mine[g] \in Managers /\ mine[g] # None
      BY <2>2, MineIsMade DEF Testing, HandlersInv
    <3>2. mine[g] # mine[h]
      BY <2>2, <3>1 DEF HandlersInv
    <3> QED BY <2>1, <3>1, <3>2
  <2> QED BY <2>1, <2>2, HandlersQuiet DEF Testing
<1>4. ASSUME NEW h \in Handlers, TestStarted(h) PROVE HandlersInv'
  BY <1>4, HandlersQuiet DEF TestStarted, Go, Testing, mgrVars
<1>5. ASSUME NEW h \in Handlers, TestDrops(h) PROVE HandlersInv'
  <2>1. /\ at[h] \in Testing /\ mine[h] \in Managers /\ UNCHANGED torMgr
        /\ \A g \in Handlers : at'[g] = IF g = h THEN "idle" ELSE at[g]
        /\ \A g \in Handlers : mine'[g] = IF g = h THEN None ELSE mine[g]
    BY <1>5, MineIsMade DEF TestDrops, Go, Testing
  <2>2. stopped' = stopped \cup {mine[h]} /\ start' = start
    BY <1>5, <2>1, StopStops DEF TestDrops
  <2> QED BY <2>1, <2>2 DEF HandlersInv, Testing
<1>6. ASSUME NEW h \in Handlers, TestPublishes(h) PROVE HandlersInv'
  <2>1. /\ at[h] \in Testing /\ torMgr' = mine[h] /\ UNCHANGED <<start, stopped>>
        /\ \A g \in Handlers : at'[g] = IF g = h THEN "test.verify" ELSE at[g]
        /\ \A g \in Handlers : mine'[g] = IF g = h THEN None ELSE mine[g]
    BY <1>6 DEF TestPublishes, Go, Testing, mgrVars
  <2> QED BY <2>1 DEF HandlersInv, Testing
<1>7. ASSUME NEW h \in Handlers, DaemonStart(h) PROVE HandlersInv'
  <2>1. /\ made' \notin 0..made /\ made' # None /\ torMgr' = made'
        /\ \A m \in Managers : start'[m] = IF m = made' THEN "called" ELSE start[m]
        /\ UNCHANGED <<mine, stopped>>
    BY <1>7, MakeMakes DEF DaemonStart, None
  <2>2. at[h] = "start" /\ \A g \in Handlers : at'[g] = IF g = h THEN "idle" ELSE at[g]
    BY <1>7 DEF DaemonStart, Go
  <2>3. ASSUME NEW g \in Handlers, at[g] = "test.boot" PROVE start'[mine[g]] = start[mine[g]]
    <3>1. mine[g] \in Managers /\ mine[g] \in 1..made
      BY <2>3, MineIsMade DEF Testing
    <3> QED BY <2>1, <3>1
  <2>4. \A g \in Handlers : mine[g] # made'
    BY <2>1
  <2> QED BY <2>1, <2>2, <2>3, <2>4 DEF HandlersInv, Testing
<1>8. ASSUME NEW h \in Handlers, DaemonStopNothing(h) PROVE HandlersInv'
  BY <1>8, HandlersQuiet DEF DaemonStopNothing, Go, Testing, mgrVars
<1>9. ASSUME NEW h \in Handlers, DaemonStop(h) PROVE HandlersInv'
  BY <1>9, HandlersQuiet DEF DaemonStop, Go, Testing, mgrVars
<1>10. ASSUME NEW h \in Handlers, DaemonStopped(h) PROVE HandlersInv'
  <2>1. /\ at[h] = "stop.wait" /\ torMgr' = None /\ UNCHANGED mine
        /\ \A g \in Handlers : at'[g] = IF g = h THEN "idle" ELSE at[g]
    BY <1>10 DEF DaemonStopped, Go
  <2>2. stopped' = stopped \cup {torMgr} /\ start' = start
    BY <1>10, <2>1, StopStops, MineIsMade DEF DaemonStopped
  <2>3. \A g \in Handlers : at'[g] # "stop.wait"
    BY <2>1
  <2> QED BY <2>1, <2>2, <2>3 DEF HandlersInv, Testing
<1>11. ASSUME NEW m \in Managers,
              \/ Booted(m) \/ StartSpawns(m) \/ StartSpawnFails(m) \/ Waited(m) \/ Verified(m)
              \/ TorLogs(m) \/ CallBack(m) \/ ScanEnds(m) \/ TorDies(m)
       PROVE  HandlersInv'
  <2>1. UNCHANGED <<torMgr, mine, at, stopped>>
    BY <1>11 DEF Booted, StartSpawns, StartSpawnFails, Waited, Verified, StartBootstraps,
      BootFails, StartSucceeds, StartFails, Moves,
      TorLogs, CallBack, ScanEnds, TorDies, serverVars, mgrVars
  <2>2. \A n \in Managers : start[n] = "made" => start'[n] = "made"
    BY <1>11 DEF Booted, StartSpawns, StartSpawnFails, Waited, Verified, StartBootstraps,
      BootFails, StartSucceeds, StartFails, Moves,
      TorLogs, CallBack, ScanEnds, TorDies, mgrVars
  <2>3. ASSUME NEW g \in Handlers, at[g] = "test.boot" PROVE start'[mine[g]] = start[mine[g]]
    <3>1. mine[g] \in Managers /\ start[mine[g]] = "made"
      BY <2>3, MineIsMade DEF Testing, HandlersInv
    <3> QED BY <2>2, <3>1
  <2> QED BY <2>1, <2>3, HandlersQuiet
<1>12. CASE UNCHANGED guiVars
  BY <1>12, HandlersQuiet DEF guiVars, serverVars, mgrVars
<1> QED BY <1>1, <1>2, <1>3, <1>4, <1>5, <1>6, <1>7, <1>8, <1>9, <1>10, <1>11, <1>12
    DEF Next, HandlerStep

-----------------------------------------------------------------------------
LEMMA ManagersStep == GuiInv /\ [Next]_guiVars => ManagersInv'
<1> SUFFICES ASSUME GuiInv, [Next]_guiVars PROVE ManagersInv'
  OBVIOUS
<1> USE ManagersAssumption DEF GuiInv, GuiTypeOK
<1>a. ASSUME NEW s \in {"made", "called"}, Make(s) PROVE ManagersInv'
  <2>1. /\ made \in Nat /\ made' = made + 1 /\ made' \in Managers
        /\ \A m \in Managers : start'[m] = IF m = made' THEN s ELSE start[m]
        /\ UNCHANGED <<tor, stopped>>
    BY <1>a, MakeMakes
  <2>2. start[made'] = "none" /\ tor[made'] = "none"
    BY <2>1 DEF ManagersInv
  <2>3. stopped' \subseteq 1..made'
    BY <2>1 DEF ManagersInv
  <2>4. ASSUME NEW m \in Managers
        PROVE  /\ m > made' => start'[m] = "none"
               /\ start'[m] \in {"none", "made", "called", "err"} => tor'[m] = "none"
               /\ start'[m] \in {"waiting", "verifying"} => m \notin stopped' /\ tor'[m] # "none"
               /\ m \in stopped' => tor'[m] # "running"
    <3>1. CASE m = made'
      BY <2>1, <2>2, <3>1
    <3>2. CASE m # made'
      BY <2>1, <3>2 DEF ManagersInv, Managers
    <3> QED BY <3>1, <3>2
  <2> QED BY <2>3, <2>4 DEF ManagersInv
<1>b. ASSUME NEW m \in Managers, m \in 1..made, StopManager(m), made' = made PROVE ManagersInv'
  <2>1. /\ start[m] \notin {"waiting", "verifying"}
        /\ stopped' = stopped \cup {m} /\ start' = start
        /\ tor'[m] # "running" /\ (tor[m] = "none" => tor'[m] = "none")
        /\ \A n \in Managers : n # m => tor'[n] = tor[n]
    BY <1>b, StopStops
  <2> QED BY <1>b, <2>1 DEF ManagersInv
<1>c. ASSUME UNCHANGED <<made, start, tor, stopped>> PROVE ManagersInv'
  BY <1>c DEF ManagersInv
<1>1. ASSUME NEW h \in Handlers,
             \/ Request(h) \/ Serve(h) \/ TestRead(h) \/ TestUsesGateway(h) \/ TestMakesNone(h)
             \/ TestVerified(h) \/ NewnymReads(h) \/ NewnymSignalled(h) \/ NewnymAnswers(h)
             \/ DaemonStartMakesNone(h)
             \/ TestStarted(h) \/ TestPublishes(h) \/ DaemonStopNothing(h) \/ DaemonStop(h)
      PROVE  ManagersInv'
  BY <1>c, <1>1 DEF Request, Serve, TestRead, TestUsesGateway, TestMakesNone, TestVerified,
    NewnymReads, NewnymSignalled, NewnymAnswers, DaemonStartMakesNone, TestStarted, TestPublishes,
    DaemonStopNothing, DaemonStop, mgrVars
<1>2. ASSUME NEW h \in Handlers, TestMakes(h) \/ DaemonStart(h) PROVE ManagersInv'
  BY <1>a, <1>2 DEF TestMakes, DaemonStart
<1>3. ASSUME NEW h \in Handlers, TestBoots(h) PROVE ManagersInv'
  <2>1. mine[h] \in 1..made /\ mine[h] \in Managers /\ start[mine[h]] = "made"
    BY <1>3, MineIsMade DEF TestBoots, Go, Testing, HandlersInv
  <2>2. /\ \A m \in Managers : start'[m] = IF m = mine[h] THEN "called" ELSE start[m]
        /\ UNCHANGED <<made, tor, stopped>>
    BY <1>3, <2>1 DEF TestBoots
  <2> QED BY <2>1, <2>2 DEF ManagersInv
<1>4. ASSUME NEW h \in Handlers, TestDrops(h) PROVE ManagersInv'
  BY <1>b, <1>4, MineIsMade DEF TestDrops, Go, Testing
<1>5. ASSUME NEW h \in Handlers, DaemonStopped(h) PROVE ManagersInv'
  BY <1>b, <1>5, MineIsMade DEF DaemonStopped, Go
<1>6. ASSUME NEW m \in Managers, Booted(m) \/ TorLogs(m) \/ CallBack(m) \/ ScanEnds(m)
      PROVE  ManagersInv'
  BY <1>c, <1>6 DEF Booted, TorLogs, CallBack, ScanEnds, mgrVars
<1>7. ASSUME NEW m \in Managers, StartSpawns(m) PROVE ManagersInv'
  BY <1>7 DEF StartSpawns, ManagersInv
<1>8. ASSUME NEW m \in Managers, StartSpawnFails(m) PROVE ManagersInv'
  BY <1>8 DEF StartSpawnFails, ManagersInv
<1>9. ASSUME NEW m \in Managers, Waited(m) \/ Verified(m) PROVE ManagersInv'
  <2>0. UNCHANGED <<made, tor, stopped>>
    BY <1>9, StartMoves
  <2>1. PICK s \in {"verifying", "ok", "stuck"} :
          start[m] \in {"waiting", "verifying"} /\ start' = [start EXCEPT ![m] = s]
    BY <1>9, StartMoves
  <2> QED BY <2>0, <2>1 DEF ManagersInv
<1>10. ASSUME NEW m \in Managers, TorDies(m) PROVE ManagersInv'
  BY <1>10 DEF TorDies, ManagersInv
<1>11. CASE UNCHANGED guiVars
  BY <1>c, <1>11 DEF guiVars, mgrVars
<1> QED BY <1>1, <1>2, <1>3, <1>4, <1>5, <1>6, <1>7, <1>8, <1>9, <1>10, <1>11
    DEF Next, HandlerStep

-----------------------------------------------------------------------------
LEMMA CurrentStep == GuiInv /\ [Next]_guiVars => CurrentIsNotStopped'
<1> SUFFICES ASSUME GuiInv, [Next]_guiVars PROVE CurrentIsNotStopped'
  OBVIOUS
<1> USE ManagersAssumption DEF GuiInv, GuiTypeOK, CurrentIsNotStopped
<1>1. ASSUME NEW h \in Handlers, TestDrops(h) PROVE CurrentIsNotStopped'
  BY <1>1, MineIsMade, StopStops DEF TestDrops, Go, Testing, HandlersInv, None
<1>2. ASSUME NEW h \in Handlers, TestPublishes(h) PROVE CurrentIsNotStopped'
  BY <1>2 DEF TestPublishes, Go, Testing, HandlersInv, mgrVars
<1>3. ASSUME NEW h \in Handlers, DaemonStart(h) PROVE CurrentIsNotStopped'
  BY <1>3, MakeMakes DEF DaemonStart, ManagersInv
<1>4. ASSUME NEW h \in Handlers, DaemonStopped(h) PROVE CurrentIsNotStopped'
  <2>1. torMgr \in Managers
    BY <1>4, MineIsMade DEF DaemonStopped, Go
  <2>2. torMgr' = None /\ stopped' \subseteq Managers
    <3>1. StopManager(torMgr) /\ torMgr' = None
      BY <1>4 DEF DaemonStopped
    <3>2. stopped' = stopped \cup {torMgr}
      BY <2>1, <3>1, StopStops
    <3> QED BY <2>1, <3>1, <3>2
  <2> QED BY <2>2 DEF Managers, None
<1>5. ASSUME NEW h \in Handlers,
             \/ Request(h) \/ Serve(h) \/ TestRead(h) \/ TestUsesGateway(h) \/ TestMakesNone(h)
             \/ TestVerified(h) \/ NewnymReads(h) \/ NewnymSignalled(h) \/ NewnymAnswers(h)
             \/ DaemonStartMakesNone(h)
             \/ TestStarted(h) \/ TestMakes(h) \/ TestBoots(h) \/ DaemonStopNothing(h)
             \/ DaemonStop(h)
      PROVE  UNCHANGED <<torMgr, stopped>>
  BY <1>5 DEF Request, Serve, TestRead, TestUsesGateway, TestMakesNone, TestVerified,
    NewnymReads, NewnymSignalled, NewnymAnswers, DaemonStartMakesNone, TestStarted, TestMakes, Make, TestBoots,
    DaemonStopNothing, DaemonStop, mgrVars
<1>6. ASSUME NEW m \in Managers,
              \/ Booted(m) \/ StartSpawns(m) \/ StartSpawnFails(m) \/ Waited(m) \/ Verified(m)
              \/ TorLogs(m) \/ CallBack(m) \/ ScanEnds(m) \/ TorDies(m)
      PROVE  UNCHANGED <<torMgr, stopped>>
  BY <1>6 DEF Booted, StartSpawns, StartSpawnFails, Waited, Verified, StartBootstraps,
      BootFails, StartSucceeds, StartFails, Moves,
      TorLogs, CallBack, ScanEnds, TorDies, serverVars, mgrVars
<1>7. CASE UNCHANGED guiVars
  BY <1>7 DEF guiVars, serverVars, mgrVars
<1> QED BY <1>1, <1>2, <1>3, <1>4, <1>5, <1>6, <1>7 DEF Next, HandlerStep

\* Who leaves the flag up is a test or a boot that goes on.
LEMMA BootingStep == GuiInv /\ [Next]_guiVars => BootingHasCaller'
<1> SUFFICES ASSUME GuiInv, [Next]_guiVars PROVE BootingHasCaller'
  OBVIOUS
<1> USE DEF GuiInv, GuiTypeOK, BootingHasCaller
<1>1. ASSUME NEW h \in Handlers,
             \/ TestStarted(h) \/ DaemonStopNothing(h) \/ DaemonStopped(h)
      PROVE  isBooting' = FALSE
  BY <1>1 DEF TestStarted, DaemonStopNothing, DaemonStopped
<1>2. ASSUME NEW m \in Managers, Booted(m) PROVE isBooting' = FALSE
  BY <1>2 DEF Booted
<1>3. ASSUME NEW h \in Handlers, TestBoots(h) PROVE at'[h] = "test.start"
  BY <1>3 DEF TestBoots, Go
<1>4. ASSUME NEW h \in Handlers, DaemonStart(h) PROVE booter' # {}
  BY <1>4 DEF DaemonStart
<1>5. ASSUME NEW h \in Handlers,
             \/ Request(h) \/ Serve(h) \/ TestRead(h) \/ TestUsesGateway(h) \/ TestMakesNone(h)
             \/ TestVerified(h) \/ NewnymReads(h) \/ NewnymSignalled(h) \/ NewnymAnswers(h)
             \/ DaemonStartMakesNone(h)
             \/ TestMakes(h) \/ TestDrops(h) \/ TestPublishes(h) \/ DaemonStop(h)
      PROVE  BootingHasCaller'
  <2>1. UNCHANGED <<isBooting, booter>>
    BY <1>5 DEF Request, Serve, TestRead, TestUsesGateway, TestMakesNone, TestVerified,
      NewnymReads, NewnymSignalled, NewnymAnswers, DaemonStartMakesNone, TestMakes, TestDrops, TestPublishes,
      DaemonStop
  <2>2. at[h] # "test.start" /\ \A g \in Handlers : g # h => at'[g] = at[g]
    BY <1>5 DEF Request, Serve, TestRead, TestUsesGateway, TestMakesNone, TestVerified,
      NewnymReads, NewnymSignalled, NewnymAnswers, DaemonStartMakesNone, TestMakes, TestDrops, TestPublishes,
      DaemonStop, Go
  <2> QED BY <2>1, <2>2
<1>6. ASSUME NEW m \in Managers,
              \/ StartSpawns(m) \/ StartSpawnFails(m) \/ Waited(m) \/ Verified(m)
              \/ TorLogs(m) \/ CallBack(m) \/ ScanEnds(m) \/ TorDies(m)
      PROVE  UNCHANGED serverVars
  BY <1>6 DEF StartSpawns, StartSpawnFails, Waited, Verified, StartBootstraps,
      BootFails, StartSucceeds, StartFails, Moves,
      TorLogs, CallBack, ScanEnds, TorDies
<1>7. UNCHANGED serverVars => BootingHasCaller'
  BY DEF serverVars
<1>8. CASE UNCHANGED guiVars
  BY <1>7, <1>8 DEF guiVars
<1>9. CASE isBooting' = FALSE \/ booter' # {} \/ \E h \in Handlers : at'[h] = "test.start"
  BY <1>9
<1> QED BY <1>1, <1>2, <1>3, <1>4, <1>5, <1>6, <1>7, <1>8, <1>9 DEF Next, HandlerStep

-----------------------------------------------------------------------------
LEMMA GuiInit == Init => GuiInv
<1> SUFFICES ASSUME Init PROVE GuiInv
  OBVIOUS
<1> USE ManagersAssumption, HandlersAssumption DEF Init, None
<1>1. GuiTypeOK
  <2>1. at \in [Handlers -> Steps] /\ mine \in [Handlers -> 0..made]
    BY DEF Steps
  <2>2. start \in [Managers -> StartSteps] /\ tor \in [Managers -> {"none", "running", "dead"}]
    BY DEF StartSteps
  <2>3. scanner \in [Managers -> {"none", "reading", "progress", "complete", "told", "done"}]
    OBVIOUS
  <2>4. torMgr \in 0..made /\ made \in 0..MaxManagers
    OBVIOUS
  <2>7. isBooting \in BOOLEAN
    OBVIOUS
  <2>5. booter \subseteq 1..made /\ bootstrapped \subseteq Managers /\ stopped \subseteq Managers
    OBVIOUS
  <2>6. (\A h \in Handlers : smu = h <=> at[h] = "stop.wait") /\ smu \in Handlers \cup {Nobody}
    OBVIOUS
  <2> QED BY <2>1, <2>2, <2>3, <2>4, <2>5, <2>6, <2>7 DEF GuiTypeOK
<1>2. HandlersInv
  BY DEF HandlersInv, Testing
<1>3. ManagersInv
  BY DEF ManagersInv
<1>4. CurrentIsNotStopped /\ BootingHasCaller
  BY DEF CurrentIsNotStopped, BootingHasCaller
<1> QED BY <1>1, <1>2, <1>3, <1>4 DEF GuiInv

LEMMA GuiInvariant == Spec => []GuiInv
<1>1. GuiInv /\ [Next]_guiVars => GuiInv'
  BY GuiTypeStep, HandlersStep, ManagersStep, CurrentStep, BootingStep DEF GuiInv
<1> QED BY GuiInit, <1>1, PTL DEF Spec

\* Type correctness; in it, s.mu is held exactly by the stop that waits.
THEOREM GuiTypeCorrect == Spec => []GuiTypeOK
<1>1. GuiInv => GuiTypeOK
  BY DEF GuiInv
<1> QED BY <1>1, GuiInvariant, PTL

\* However many tests, starts and stops overlap, s.torMgr is never a Manager
\* whose Stop has returned.
THEOREM CurrentIsNotStoppedCorrect == Spec => []CurrentIsNotStopped
<1>1. GuiInv => CurrentIsNotStopped
  BY DEF GuiInv
<1> QED BY <1>1, GuiInvariant, PTL

\* However many requests overlap, isBooting is left set only while a boot
\* goroutine or a test is still inside its Start, or about to reset it.
THEOREM BootingHasCallerCorrect == Spec => []BootingHasCaller
<1>1. GuiInv => BootingHasCaller
  BY DEF GuiInv
<1> QED BY <1>1, GuiInvariant, PTL

-----------------------------------------------------------------------------
(***************************************************************************)
(* The contract: a step is one of the contract's for the Manager it is     *)
(* about, and nothing for the others.                                      *)
(***************************************************************************)
LEMMA ContractInit == Init => \A m \in Managers : Contract(m)!Init
  BY DEF Init, Contract!Init

\* A step that changes nothing of m.
LEMMA ContractStutters ==
  ASSUME NEW m \in Managers, start'[m] = start[m], tor'[m] = tor[m],
         m \in stopped' <=> m \in stopped
  PROVE  [Contract(m)!Next]_(Contract(m)!contractVars)
  BY DEF Contract!contractVars

LEMMA ContractStep ==
  GuiInv /\ [Next]_guiVars =>
    \A m \in Managers : [Contract(m)!Next]_(Contract(m)!contractVars)
<1> SUFFICES ASSUME GuiInv, [Next]_guiVars, NEW m \in Managers
             PROVE  [Contract(m)!Next]_(Contract(m)!contractVars)
  OBVIOUS
<1> DEFINE Kept == [Contract(m)!Next]_(Contract(m)!contractVars)
           Same == start'[m] = start[m] /\ tor'[m] = tor[m] /\ (m \in stopped' <=> m \in stopped)
<1> USE ManagersAssumption DEF GuiInv, GuiTypeOK
<1>s. ASSUME Same PROVE Kept
  BY <1>s, ContractStutters
<1> HIDE DEF Kept
<1>1. ASSUME NEW h \in Handlers,
             \/ Request(h) \/ Serve(h) \/ TestRead(h) \/ TestUsesGateway(h) \/ TestMakesNone(h)
             \/ TestVerified(h) \/ NewnymReads(h) \/ NewnymSignalled(h) \/ NewnymAnswers(h)
             \/ DaemonStartMakesNone(h)
             \/ TestStarted(h) \/ TestPublishes(h) \/ DaemonStopNothing(h) \/ DaemonStop(h)
      PROVE  Kept
  <2>1. UNCHANGED <<start, tor, stopped>>
    BY <1>1 DEF Request, Serve, TestRead, TestUsesGateway, TestMakesNone, TestVerified,
      NewnymReads, NewnymSignalled, NewnymAnswers, DaemonStartMakesNone, TestStarted, TestPublishes,
      DaemonStopNothing, DaemonStop, mgrVars
  <2> QED BY <1>s, <2>1
<1>2. ASSUME NEW h \in Handlers, TestMakes(h) \/ DaemonStart(h) PROVE Kept
  <2>1. PICK s \in {"made", "called"} : Make(s)
    BY <1>2 DEF TestMakes, DaemonStart
  <2>2. /\ \A n \in Managers : start'[n] = IF n = made' THEN s ELSE start[n]
        /\ made' = made + 1 /\ made \in Nat /\ UNCHANGED <<tor, stopped>>
    BY <2>1, MakeMakes
  <2>3. CASE m # made'
    BY <1>s, <2>2, <2>3
  <2>4. CASE m = made'
    <3>1. start[m] = "none"
      BY <2>2, <2>4 DEF ManagersInv
    <3>2. CASE s = "made"
      BY <2>2, <2>4, <3>1, <3>2 DEF Contract!contractVars, Kept
    <3>3. CASE s = "called"
      <4>1. Contract(m)!CallsStart
        BY <2>2, <2>4, <3>1, <3>3 DEF Contract!CallsStart
      <4> QED BY <4>1 DEF Contract!Next, Kept
    <3> QED BY <3>2, <3>3
  <2> QED BY <2>3, <2>4
<1>3. ASSUME NEW h \in Handlers, TestBoots(h) PROVE Kept
  <2>1. mine[h] \in Managers /\ start[mine[h]] = "made"
    BY <1>3, MineIsMade DEF TestBoots, Go, Testing, HandlersInv
  <2>2. /\ \A n \in Managers : start'[n] = IF n = mine[h] THEN "called" ELSE start[n]
        /\ UNCHANGED <<tor, stopped>>
    BY <1>3, <2>1 DEF TestBoots
  <2>3. CASE m # mine[h]
    BY <1>s, <2>2, <2>3
  <2>4. CASE m = mine[h]
    <3>1. Contract(m)!CallsStart
      BY <2>1, <2>2, <2>4 DEF Contract!CallsStart
    <3> QED BY <3>1 DEF Contract!Next, Kept
  <2> QED BY <2>3, <2>4
<1>4. ASSUME NEW n \in Managers, StopManager(n) PROVE Kept
  <2>1. /\ stopped' = stopped \cup {n} /\ start' = start
        /\ tor' = [tor EXCEPT ![n] = IF @ = "running" THEN "dead" ELSE @]
    BY <1>4 DEF StopManager
  <2>2. CASE m # n
    BY <1>s, <2>1, <2>2
  <2>3. CASE m = n
    <3>1. m \in stopped' /\ tor'[m] = IF tor[m] = "running" THEN "dead" ELSE tor[m]
      BY <2>1, <2>3
    <3>2. Contract(m)!Stops
      BY <2>1, <3>1 DEF Contract!Stops
    <3> QED BY <3>2 DEF Contract!Next, Kept
  <2> QED BY <2>2, <2>3
<1>5. ASSUME NEW h \in Handlers, TestDrops(h) \/ DaemonStopped(h) PROVE Kept
  <2>1. PICK n \in Managers : StopManager(n)
    BY <1>5, MineIsMade DEF TestDrops, DaemonStopped, Go, Testing
  <2> QED BY <1>4, <2>1
<1>6. ASSUME NEW n \in Managers, Booted(n) \/ TorLogs(n) \/ CallBack(n) \/ ScanEnds(n) PROVE Kept
  <2>1. UNCHANGED <<start, tor, stopped>>
    BY <1>6 DEF Booted, TorLogs, CallBack, ScanEnds, mgrVars
  <2> QED BY <1>s, <2>1
<1>7. ASSUME NEW n \in Managers, StartSpawns(n) PROVE Kept
  <2>1. CASE m # n
    BY <1>s, <1>7, <2>1 DEF StartSpawns
  <2>2. CASE m = n
    <3>1. /\ start[m] = "called" /\ start'[m] = "waiting" /\ tor[m] = "none" /\ tor'[m] = "running"
          /\ m \notin stopped /\ stopped' = stopped
      BY <1>7, <2>2 DEF StartSpawns, ManagersInv
    <3>2. Contract(m)!Launches
      BY <3>1 DEF Contract!Launches
    <3> QED BY <3>2 DEF Contract!Next, Kept
  <2> QED BY <2>1, <2>2
<1>8. ASSUME NEW n \in Managers, StartSpawnFails(n) PROVE Kept
  <2>1. CASE m # n
    BY <1>s, <1>8, <2>1 DEF StartSpawnFails
  <2>2. CASE m = n
    <3>1. /\ start[m] = "called" /\ start'[m] = "err" /\ tor[m] = "none"
          /\ UNCHANGED <<tor, stopped>>
      BY <1>8, <2>2 DEF StartSpawnFails, ManagersInv
    <3>2. Contract(m)!Fails
      BY <3>1 DEF Contract!Fails
    <3> QED BY <3>2 DEF Contract!Next, Kept
  <2> QED BY <2>1, <2>2
<1>9. ASSUME NEW n \in Managers, Waited(n) \/ Verified(n) PROVE Kept
  <2>1. CASE m # n
    BY <1>s, <1>9, <2>1, StartMoves
  <2>2. CASE m = n
    <3>1. CASE start[m] = "verifying" /\ start'[m] = "ok"
      <4>1. tor[m] # "none" /\ m \notin stopped /\ UNCHANGED <<tor, stopped>>
        BY <1>9, <3>1, StartMoves DEF ManagersInv
      <4>2. Contract(m)!Succeeds
        BY <3>1, <4>1 DEF Contract!Succeeds
      <4> QED BY <4>2 DEF Contract!Next, Kept
    <3>2. CASE start[m] \in {"waiting", "verifying"} /\ start'[m] \in {"verifying", "stuck"}
      <4>1. UNCHANGED <<tor, stopped>>
        BY <1>9, StartMoves
      <4> QED BY <3>2, <4>1 DEF Contract!contractVars, Kept
    <3> QED BY <1>9, <2>2, <3>1, <3>2, StartMoves
  <2> QED BY <2>1, <2>2
<1>10. ASSUME NEW n \in Managers, TorDies(n) PROVE Kept
  <2>1. CASE m # n
    BY <1>s, <1>10, <2>1 DEF TorDies
  <2>2. CASE m = n
    <3>1. tor[m] = "running" /\ tor'[m] = "dead" /\ UNCHANGED <<start, stopped>>
      BY <1>10, <2>2 DEF TorDies
    <3>2. Contract(m)!Dies
      BY <3>1 DEF Contract!Dies
    <3> QED BY <3>2 DEF Contract!Next, Kept
  <2> QED BY <2>1, <2>2
<1>11. ASSUME UNCHANGED guiVars PROVE Kept
  <2>1. UNCHANGED <<start, tor, stopped>>
    BY <1>11 DEF guiVars, mgrVars
  <2> QED BY <1>s, <2>1
<1>12. Kept
  BY <1>1, <1>2, <1>3, <1>5, <1>6, <1>7, <1>8, <1>9, <1>10, <1>11
    DEF Next, HandlerStep
<1> QED BY <1>12 DEF Kept

\* Every Manager of any number of overlapping requests behaves as TorManager,
\* through ManagerContract, promises.
THEOREM ManagersKeepContractCorrect == Spec => ManagersKeepContract
<1>1. Init => \A m \in Managers : Contract(m)!Init
  BY ContractInit
<1>2. GuiInv /\ [Next]_guiVars =>
        [\A m \in Managers : [Contract(m)!Next]_(Contract(m)!contractVars)]_guiVars
  BY ContractStep
<1> QED BY <1>1, <1>2, GuiInvariant, PTL DEF Spec, ManagersKeepContract
=============================================================================

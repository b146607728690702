------------------------------ MODULE GuiServer ------------------------------
(***************************************************************************)
(* The web interface of internal/gui/server.go: HTTP handlers, each in a   *)
(* goroutine of its own, that share the mutex s.mu, the current Manager    *)
(* s.torMgr and the flag s.isBooting, and the Managers they make.          *)
(*                                                                         *)
(* A Manager is seen at the grain of its mutex m.mu, as TorManager has it: *)
(* Start holds it from its first step until it returns, and holds it for   *)
(* ever when an error path of it calls Stop ("stuck") or when Tor leaves a *)
(* question of VerifyListeners unanswered ("verifying").  The goroutine    *)
(* that scans Tor's log calls back into the server, which needs s.mu.      *)
(***************************************************************************)
EXTENDS Naturals

CONSTANTS
  Handlers,     \* the goroutines that serve requests
  Nobody,       \* the owner of a free mutex
  MaxManagers   \* how many Managers are made: a bound for TLC

ASSUME HandlersAssumption == Nobody \notin Handlers
ASSUME ManagersAssumption == MaxManagers \in Nat

Managers == 1..MaxManagers
None     == 0

VARIABLES
  smu,          \* s.mu: the handler that holds it between two steps, or Nobody
  torMgr,       \* s.torMgr: a Manager, or None for nil
  isBooting,    \* s.isBooting
  made,         \* the Managers made so far are 1..made
  at,           \* the next step of each handler, "idle" between requests
  mine,         \* the Manager a handler of /api/test has made, or None
  booter,       \* the Managers whose boot goroutine (daemon/start) has not ended
  start,        \* for each Manager its call of Start
  scanner,      \* for each Manager the goroutine that scans Tor's log
  tor,          \* for each Manager its Tor: "none", "running" or "dead"
  bootstrapped, \* the Managers with m.bootstrapped set
  stopped       \* the Managers whose Stop has returned: their directories are gone

serverVars == <<smu, torMgr, isBooting, at, mine, booter>>
mgrVars    == <<start, scanner, tor, bootstrapped, stopped>>
guiVars    == <<serverVars, made, mgrVars>>

TestSteps   == {"test.read", "test.check", "test.boot", "test.start", "test.drop",
                "test.publish", "test.verify"}
NewnymSteps == {"newnym.read", "newnym.signal", "newnym.port"}
Requests    == {"serve", "test.read", "newnym.read", "start", "stop"}
Steps       == {"idle", "serve", "start", "stop", "stop.wait"} \cup TestSteps \cup NewnymSteps
StartSteps  == {"none", "made", "called", "waiting", "verifying", "ok", "err", "stuck"}

Go(h, from, to) == at[h] = from /\ at' = [at EXCEPT ![h] = to]

\* m.mu is free: nobody is inside Start, and Stop is one step.
Unlocked(m) == start[m] \notin {"waiting", "verifying", "stuck"}

Init ==
  /\ smu = Nobody /\ torMgr = None /\ isBooting = FALSE /\ made = 0
  /\ at = [h \in Handlers |-> "idle"]
  /\ mine = [h \in Handlers |-> None]
  /\ booter = {}
  /\ start = [m \in Managers |-> "none"]
  /\ scanner = [m \in Managers |-> "none"]
  /\ tor = [m \in Managers |-> "none"]
  /\ bootstrapped = {} /\ stopped = {}

-----------------------------------------------------------------------------
(***************************************************************************)
(* Requests.  handleStatus, handleConfig, handleConfigReset and the hook's *)
(* handlers are one critical section each and leave all this alone.        *)
(***************************************************************************)
Request(h) ==
  /\ \E r \in Requests : Go(h, "idle", r)
  /\ UNCHANGED <<smu, torMgr, isBooting, mine, booter, made, mgrVars>>

Serve(h) ==
  /\ smu = Nobody
  /\ Go(h, "serve", "idle")
  /\ UNCHANGED <<smu, torMgr, isBooting, mine, booter, made, mgrVars>>

\* NewManager has returned a Manager for a call of Start that is at step s.
Make(s) ==
  /\ made < MaxManagers
  /\ made' = made + 1
  /\ start' = [start EXCEPT ![made'] = s]
  /\ UNCHANGED <<scanner, tor, bootstrapped, stopped>>

(***************************************************************************)
(* handleTest.  It looks at s.torMgr after it has released s.mu, and the   *)
(* Manager it makes is not s.torMgr before its Start has returned.         *)
(***************************************************************************)
TestRead(h) ==
  /\ smu = Nobody
  /\ Go(h, "test.read", "test.check")
  /\ UNCHANGED <<smu, torMgr, isBooting, mine, booter, made, mgrVars>>

\* A Manager is there, or the port is taken, perhaps by another program.
TestUsesGateway(h) ==
  /\ Go(h, "test.check", "test.verify")
  /\ UNCHANGED <<smu, torMgr, isBooting, mine, booter, made, mgrVars>>

TestMakes(h) ==
  /\ torMgr = None
  /\ Go(h, "test.check", "test.boot")
  /\ Make("made")
  /\ mine' = [mine EXCEPT ![h] = made']
  /\ UNCHANGED <<smu, torMgr, isBooting, booter>>

TestMakesNone(h) ==
  /\ torMgr = None
  /\ Go(h, "test.check", "idle")
  /\ UNCHANGED <<smu, torMgr, isBooting, mine, booter, made, mgrVars>>

TestBoots(h) ==
  /\ smu = Nobody
  /\ Go(h, "test.boot", "test.start")
  /\ isBooting' = TRUE
  /\ start' = [start EXCEPT ![mine[h]] = "called"]
  /\ UNCHANGED <<smu, torMgr, mine, booter, made, scanner, tor, bootstrapped, stopped>>

\* Mutant: only a Start that succeeds resets the flag.
TestErrLeavesFlag(h) ==
  /\ smu = Nobody
  /\ at[h] = "test.start"
  /\ start[mine[h]] \in {"ok", "err"}
  /\ Go(h, "test.start", IF start[mine[h]] = "ok" THEN "test.publish" ELSE "test.drop")
  /\ isBooting' = IF start[mine[h]] = "ok" THEN FALSE ELSE isBooting
  /\ UNCHANGED <<smu, torMgr, mine, booter, made, mgrVars>>

TestStarted(h) ==
  /\ smu = Nobody
  /\ at[h] = "test.start"
  /\ start[mine[h]] \in {"ok", "err"}
  /\ Go(h, "test.start", IF start[mine[h]] = "ok" THEN "test.publish" ELSE "test.drop")
  /\ isBooting' = FALSE
  /\ UNCHANGED <<smu, torMgr, mine, booter, made, mgrVars>>

\* Manager.Stop, once m.mu is free.
StopManager(m) ==
  /\ Unlocked(m)
  /\ tor' = [tor EXCEPT ![m] = IF @ = "running" THEN "dead" ELSE @]
  /\ stopped' = stopped \cup {m}
  /\ UNCHANGED <<start, scanner, bootstrapped>>

TestDrops(h) ==
  /\ Go(h, "test.drop", "idle")
  /\ StopManager(mine[h])
  /\ mine' = [mine EXCEPT ![h] = None]
  /\ UNCHANGED <<smu, torMgr, isBooting, booter, made>>

TestPublishes(h) ==
  /\ smu = Nobody
  /\ Go(h, "test.publish", "test.verify")
  /\ torMgr' = mine[h]
  /\ mine' = [mine EXCEPT ![h] = None]
  /\ UNCHANGED <<smu, isBooting, booter, made, mgrVars>>

\* VerifyEgress has returned; its report is recorded.
TestVerified(h) ==
  /\ smu = Nobody
  /\ Go(h, "test.verify", "idle")
  /\ UNCHANGED <<smu, torMgr, isBooting, mine, booter, made, mgrVars>>

(***************************************************************************)
(* handleNewnym: SignalNewnym takes no mutex, but reads Tor's answer       *)
(* without a deadline.                                                     *)
(***************************************************************************)
NewnymReads(h) ==
  /\ smu = Nobody
  /\ Go(h, "newnym.read", "newnym.signal")
  /\ UNCHANGED <<smu, torMgr, isBooting, mine, booter, made, mgrVars>>

\* Tor has answered, or has gone; or there was nobody to signal.
NewnymSignalled(h) ==
  /\ Go(h, "newnym.signal", "newnym.port")
  /\ UNCHANGED <<smu, torMgr, isBooting, mine, booter, made, mgrVars>>

NewnymAnswers(h) ==
  /\ smu = Nobody
  /\ Go(h, "newnym.port", "idle")
  /\ UNCHANGED <<smu, torMgr, isBooting, mine, booter, made, mgrVars>>

(***************************************************************************)
(* handleDaemonStart, one critical section: there is a bootstrapped        *)
(* Manager, or NewManager fails, or the Manager made replaces s.torMgr and *)
(* a goroutine starts it.                                                  *)
(***************************************************************************)
DaemonStartMakesNone(h) ==
  /\ smu = Nobody
  /\ Go(h, "start", "idle")
  /\ UNCHANGED <<smu, torMgr, isBooting, mine, booter, made, mgrVars>>

DaemonStart(h) ==
  /\ smu = Nobody
  /\ torMgr \notin bootstrapped
  /\ Go(h, "start", "idle")
  /\ Make("called")
  /\ torMgr' = made'
  /\ isBooting' = TRUE
  /\ booter' = booter \cup {made'}
  /\ UNCHANGED <<smu, mine>>

\* Mutant: the goroutine resets the flag of a start that succeeded.
BootedErrLeavesFlag(m) ==
  /\ smu = Nobody
  /\ m \in booter /\ start[m] \in {"ok", "err"}
  /\ booter' = booter \ {m}
  /\ isBooting' = (isBooting /\ start[m] = "err")
  /\ UNCHANGED <<smu, torMgr, at, mine, made, mgrVars>>

\* The goroutine, when Start has returned.
Booted(m) ==
  /\ smu = Nobody
  /\ m \in booter /\ start[m] \in {"ok", "err"}
  /\ booter' = booter \ {m}
  /\ isBooting' = FALSE
  /\ UNCHANGED <<smu, torMgr, at, mine, made, mgrVars>>

(***************************************************************************)
(* handleDaemonStop holds s.mu while it waits for m.mu inside Stop.        *)
(***************************************************************************)
\* Mutant: without a Manager it returns and leaves s.mu locked.
StopNothingLocked(h) ==
  /\ smu = Nobody /\ torMgr = None
  /\ Go(h, "stop", "idle")
  /\ smu' = h
  /\ isBooting' = FALSE
  /\ UNCHANGED <<torMgr, mine, booter, made, mgrVars>>

DaemonStopNothing(h) ==
  /\ smu = Nobody /\ torMgr = None
  /\ Go(h, "stop", "idle")
  /\ isBooting' = FALSE
  /\ UNCHANGED <<smu, torMgr, mine, booter, made, mgrVars>>

\* Mutant: s.mu is released before Stop is called.
StopUnlocked(h) ==
  /\ smu = Nobody /\ torMgr # None
  /\ Go(h, "stop", "stop.wait")
  /\ UNCHANGED <<smu, torMgr, isBooting, mine, booter, made, mgrVars>>

DaemonStop(h) ==
  /\ smu = Nobody /\ torMgr # None
  /\ Go(h, "stop", "stop.wait")
  /\ smu' = h
  /\ UNCHANGED <<torMgr, isBooting, mine, booter, made, mgrVars>>

\* Mutant: the Manager that was stopped stays the current one.
DaemonStoppedKeeps(h) ==
  /\ Go(h, "stop.wait", "idle")
  /\ StopManager(torMgr)
  /\ isBooting' = FALSE
  /\ smu' = Nobody
  /\ UNCHANGED <<torMgr, mine, booter, made>>

DaemonStopped(h) ==
  /\ Go(h, "stop.wait", "idle")
  /\ StopManager(torMgr)
  /\ torMgr' = None
  /\ isBooting' = FALSE
  /\ smu' = Nobody
  /\ UNCHANGED <<mine, booter, made>>

-----------------------------------------------------------------------------
(***************************************************************************)
(* Start of Manager m, called by the boot goroutine or by handleTest.      *)
(***************************************************************************)
\* Mutant: Start makes its runtime directory again.
SpawnsAnyway(m) ==
  /\ start[m] = "called"
  /\ start' = [start EXCEPT ![m] = "waiting"]
  /\ scanner' = [scanner EXCEPT ![m] = "reading"]
  /\ tor' = [tor EXCEPT ![m] = "running"]
  /\ UNCHANGED <<serverVars, made, bootstrapped, stopped>>

\* The torrc can be written only while the runtime directory is there.
StartSpawns(m) ==
  /\ start[m] = "called" /\ m \notin stopped
  /\ start' = [start EXCEPT ![m] = "waiting"]
  /\ scanner' = [scanner EXCEPT ![m] = "reading"]
  /\ tor' = [tor EXCEPT ![m] = "running"]
  /\ UNCHANGED <<serverVars, made, bootstrapped, stopped>>

StartSpawnFails(m) ==
  /\ start[m] = "called"
  /\ start' = [start EXCEPT ![m] = "err"]
  /\ UNCHANGED <<serverVars, made, scanner, tor, bootstrapped, stopped>>

\* Tor logs progress, or that it is done.
TorLogs(m) ==
  /\ tor[m] = "running" /\ scanner[m] = "reading"
  /\ \E line \in {"progress", "complete"} : scanner' = [scanner EXCEPT ![m] = line]
  /\ UNCHANGED <<serverVars, made, start, tor, bootstrapped, stopped>>

\* The callback takes s.mu to set bootPct and bootMsg.
CallBack(m) ==
  /\ smu = Nobody
  /\ scanner[m] \in {"progress", "complete"}
  /\ scanner' = [scanner EXCEPT ![m] = IF @ = "progress" THEN "reading" ELSE "told"]
  /\ UNCHANGED <<serverVars, made, start, tor, bootstrapped, stopped>>

ScanEnds(m) ==
  /\ scanner[m] = "told"
  /\ scanner' = [scanner EXCEPT ![m] = "done"]
  /\ bootstrapped' = bootstrapped \cup {m}
  /\ UNCHANGED <<serverVars, made, start, tor, stopped>>

\* Start goes from one step to another.
Moves(m, from, to) ==
  /\ start[m] = from
  /\ start' = [start EXCEPT ![m] = to]
  /\ UNCHANGED <<serverVars, made, scanner, tor, bootstrapped, stopped>>

StartBootstraps(m) == m \in bootstrapped /\ Moves(m, "waiting", "verifying")

\* An error in the log, or 90 seconds: Start calls Stop, which waits for the
\* mutex Start holds.
BootFails(m) == Moves(m, "waiting", "stuck")

\* VerifyListeners has every answer it wants; Tor may have died since.
StartSucceeds(m) == Moves(m, "verifying", "ok")

\* A wrong answer, or a Tor that has gone: Stop again.
StartFails(m) == Moves(m, "verifying", "stuck")

TorDies(m) ==
  /\ tor[m] = "running"
  /\ tor' = [tor EXCEPT ![m] = "dead"]
  /\ UNCHANGED <<serverVars, made, start, scanner, bootstrapped, stopped>>

-----------------------------------------------------------------------------
HandlerStep(h) ==
  \/ Serve(h)
  \/ TestRead(h) \/ TestUsesGateway(h) \/ TestMakes(h) \/ TestMakesNone(h) \/ TestBoots(h)
  \/ TestStarted(h) \/ TestDrops(h) \/ TestPublishes(h) \/ TestVerified(h)
  \/ NewnymReads(h) \/ NewnymAnswers(h)
  \/ DaemonStartMakesNone(h) \/ DaemonStart(h)
  \/ DaemonStopNothing(h) \/ DaemonStop(h) \/ DaemonStopped(h)

\* The select of Start, which its timer ends; and VerifyListeners.
Waited(m)   == StartBootstraps(m) \/ BootFails(m)
Verified(m) == StartSucceeds(m) \/ StartFails(m)

Next ==
  \/ \E h \in Handlers : Request(h) \/ HandlerStep(h) \/ NewnymSignalled(h)
  \/ \E m \in Managers : \/ Booted(m) \/ StartSpawns(m) \/ StartSpawnFails(m)
                         \/ Waited(m) \/ Verified(m)
                         \/ TorLogs(m) \/ CallBack(m) \/ ScanEnds(m) \/ TorDies(m)

Spec == Init /\ [][Next]_guiVars

(***************************************************************************)
(* A sync.Mutex hands itself to a goroutine that has waited for 1ms, so    *)
(* nobody waits for s.mu for ever while others come and go: strong         *)
(* fairness.  A Start leaves its select by the timer at the latest.        *)
(* Nothing makes Tor answer: Verified and NewnymSignalled may never come.  *)
(***************************************************************************)
FairSpec ==
  /\ Spec
  /\ \A h \in Handlers : SF_guiVars(HandlerStep(h))
  /\ \A m \in Managers :
       /\ WF_guiVars(StartSpawns(m) \/ StartSpawnFails(m))
       /\ WF_guiVars(Waited(m))
       /\ SF_guiVars(Booted(m))

-----------------------------------------------------------------------------
(***************************************************************************)
(* Type invariant.                                                         *)
(***************************************************************************)
GuiTypeOK ==
  /\ torMgr \in 0..made /\ made \in 0..MaxManagers
  /\ isBooting \in BOOLEAN
  /\ at \in [Handlers -> Steps]
  /\ mine \in [Handlers -> 0..made]
  /\ booter \subseteq 1..made
  /\ start \in [Managers -> StartSteps]
  /\ scanner \in [Managers -> {"none", "reading", "progress", "complete", "told", "done"}]
  /\ tor \in [Managers -> {"none", "running", "dead"}]
  /\ bootstrapped \subseteq Managers /\ stopped \subseteq Managers
  /\ \A h \in Handlers : smu = h <=> at[h] = "stop.wait"
  /\ smu \in Handlers \cup {Nobody}

(***************************************************************************)
(* Each Manager keeps the contract that TorManager is shown to implement,  *)
(* however requests overlap: no Tor of a Manager that has been stopped     *)
(* runs, not even when daemon/stop overtakes the goroutine daemon/start    *)
(* has left to call Start, and no Start reports success after a Stop.      *)
(***************************************************************************)
Contract(m) == INSTANCE ManagerContract WITH
  outcome <- CASE start[m] \in {"none", "made"}               -> "no"
               [] start[m] \in {"ok", "err"}                  -> start[m]
               [] OTHER                                       -> "pending",
  life    <- (IF tor[m] = "running" THEN "alive" ELSE tor[m]),
  gone    <- m \in stopped

ManagersKeepContract ==
  /\ \A m \in Managers : Contract(m)!Init
  /\ [][\A m \in Managers : [Contract(m)!Next]_(Contract(m)!contractVars)]_guiVars

(***************************************************************************)
(* The current Manager has not been stopped: neither a test that publishes *)
(* its own late nor a stop that waited brings back one that is gone.       *)
(***************************************************************************)
CurrentIsNotStopped == torMgr \notin stopped

(***************************************************************************)
(* Whenever the page shows that it is booting, a caller of Start is yet to *)
(* come back and reset the flag, however starts, tests and stops overlap.  *)
(* A caller whose Start hangs comes back never: see BootingEnds.           *)
(***************************************************************************)
BootingHasCaller ==
  isBooting => booter # {} \/ \E h \in Handlers : at[h] = "test.start"

\* Start keeps m.mu until Tor answers, or for ever.
Hung(m) == start[m] \in {"verifying", "stuck"}

(***************************************************************************)
(* The page does not show that it is booting for ever, unless a Start      *)
(* hangs: in its own mutex, or waiting for Tor's answer.                   *)
(***************************************************************************)
BootingEnds == []<>~isBooting \/ <>[](\E m \in Managers : Hung(m))

(***************************************************************************)
(* A request stays unanswered only behind Tor: its own new identity has no *)
(* answer, its own test's Start hangs, or a daemon/stop holds s.mu and     *)
(* waits for a Start that hangs.  The other lock cycle, daemon/stop that   *)
(* waits for a Start whose log callback waits for s.mu, comes to one of    *)
(* these; a Start that hangs while nobody stops it holds up no other.      *)
(***************************************************************************)
HeldUp(h) ==
  \/ at[h] = "newnym.signal"
  \/ at[h] = "test.start" /\ Hung(mine[h])
  \/ smu # Nobody /\ torMgr # None /\ Hung(torMgr)

HangsOnlyBehindTor == \A h \in Handlers : []<>(at[h] = "idle") \/ <>[]HeldUp(h)
=============================================================================

----------------------------- MODULE TorManager -----------------------------
(***************************************************************************)
(* The supervisor of one Tor process: type Manager of                      *)
(* internal/tor/manager.go, its methods Start, StartWatchdog and Stop, the *)
(* goroutine that scans Tor's log, and the Tor process they supervise.     *)
(*                                                                         *)
(* The module is the most general client of one Manager: any goroutine may *)
(* call Stop at any time, one of them calls Start (every caller in the     *)
(* program makes a Manager for one Start) and one of them is the watchdog. *)
(* TorSession narrows the client to what the commands of the program do.   *)
(*                                                                         *)
(* A method is a sequence of steps; pc[g] is the next step of goroutine g, *)
(* "idle" while g runs code outside the Manager.  Steps that only compute  *)
(* or print are not separate.  The mutex m.mu is not reentrant, as in Go.  *)
(***************************************************************************)
EXTENDS Naturals, Sequences, FiniteSets

CONSTANTS
  Goroutines,   \* the goroutines that use the Manager
  Nobody,       \* the owner of a free mutex
  PipeCap       \* lines that fit in the pipe Tor logs to

ASSUME NobodyAssumption  == Nobody \notin Goroutines
ASSUME PipeCapAssumption == PipeCap \in Nat \ {0}

VARIABLES
  mu,            \* m.mu: the goroutine that holds it, or Nobody
  stopClosed,    \* m.stopChan has been closed
  bootstrapped,  \* m.bootstrapped
  bootstrapDone, \* Start's channel of capacity 1: "empty", "ok" (nil) or "err"
  started,       \* the outcome of the call of Start: "no", "pending", "ok", "err"
  watching,      \* m.watchdogOnce has fired
  scanner,       \* the log scanning goroutine: "none", "reading" or "done"
  runtimeDir,    \* the session's directory: "absent", "present", "removed", or
                 \* "left": there, of a NewManager that failed
  dataDir,       \* Tor's DataDirectory, same values
  ephemeral,     \* m.isEphemeral
  tor,           \* Tor: "none", "running", "wedged" (in a write to its log), "killed"
                 \* (SIGKILL is sent: it executes nothing more) or "dead"
  booted,        \* Tor has logged that it is 100% bootstrapped
  pipe,          \* the lines Tor logged that nobody has read yet
  pc,            \* the next step of each goroutine
  ret            \* where a goroutine inside Stop continues when Stop returns

managerVars == <<mu, stopClosed, bootstrapped, bootstrapDone, started, watching,
                 scanner, runtimeDir, dataDir, ephemeral, tor, booted, pipe, pc, ret>>

Lines      == {"progress", "complete", "err", "notice"}
StartSteps == {"start.lock", "start.spawn", "start.wait", "start.verify", "start.failed"}
StopSteps  == {"stop.lock", "stop.close", "stop.wait", "stop.clean"}
WatchSteps == {"watch.enter", "watch.parked", "watch.crash"}
Steps      == {"idle"} \cup StartSteps \cup StopSteps \cup WatchSteps
Returns    == {"idle", "start.failed"}

Alive  == tor \in {"running", "wedged"}
Exists == tor \notin {"none", "dead"}

\* NewManager has returned a Manager, whose directories are there or removed.
HasManager == runtimeDir \in {"present", "removed"}

Goto(g, step) == pc' = [pc EXCEPT ![g] = step]

(***************************************************************************)
(* Stop is called: by a client, by Start on its error paths, or by the     *)
(* watchdog's handler.                                                     *)
(***************************************************************************)
EnterStop(g, continue) ==
  /\ Goto(g, "stop.lock")
  /\ ret' = [ret EXCEPT ![g] = continue]

Init ==
  /\ mu = Nobody
  /\ stopClosed = FALSE /\ bootstrapped = FALSE /\ watching = FALSE
  /\ bootstrapDone = "empty"
  /\ started = "no"
  /\ scanner = "none"
  /\ runtimeDir = "absent"
  /\ dataDir = "absent"
  /\ ephemeral \in BOOLEAN
  /\ tor = "none" /\ booted = FALSE /\ pipe = <<>>
  /\ pc = [g \in Goroutines |-> "idle"]
  /\ ret = [g \in Goroutines |-> "idle"]

(***************************************************************************)
(* NewManager: the runtime directory and the data directory exist when it  *)
(* returns.  A data directory that is not ephemeral is the user's own.     *)
(***************************************************************************)
NewManager(g) ==
  /\ pc[g] = "idle" /\ runtimeDir = "absent" /\ dataDir = "absent"
  /\ runtimeDir' = "present"
  /\ dataDir' = "present"
  /\ UNCHANGED <<mu, stopClosed, bootstrapped, bootstrapDone, started, watching,
                 scanner, ephemeral, tor, booted, pipe, pc, ret>>

(***************************************************************************)
(* NewManager fails with something left: the runtime directory, made and   *)
(* found not to be as it should (a symbolic link, another owner), or the   *)
(* ephemeral data directory, which a failure of cleanupStaleSocket         *)
(* forgets.  Other failures leave nothing and change nothing here.         *)
(***************************************************************************)
NewManagerFails(g) ==
  /\ pc[g] = "idle" /\ runtimeDir = "absent" /\ dataDir = "absent"
  /\ \/ runtimeDir' = "left" /\ UNCHANGED dataDir
     \/ ephemeral /\ dataDir' = "left" /\ UNCHANGED runtimeDir
  /\ UNCHANGED <<mu, stopClosed, bootstrapped, bootstrapDone, started, watching,
                 scanner, ephemeral, tor, booted, pipe, pc, ret>>

-----------------------------------------------------------------------------
(***************************************************************************)
(* Start.  It holds m.mu from its first statement until it returns.        *)
(***************************************************************************)
CallStart(g) ==
  /\ pc[g] = "idle" /\ HasManager /\ started = "no"
  /\ started' = "pending"
  /\ Goto(g, "start.lock")
  /\ UNCHANGED <<mu, stopClosed, bootstrapped, bootstrapDone, watching, scanner,
                 runtimeDir, dataDir, ephemeral, tor, booted, pipe, ret>>

StartLock(g) ==
  /\ pc[g] = "start.lock" /\ mu = Nobody
  /\ mu' = g
  /\ Goto(g, "start.spawn")
  /\ UNCHANGED <<stopClosed, bootstrapped, bootstrapDone, started, watching, scanner,
                 runtimeDir, dataDir, ephemeral, tor, booted, pipe, ret>>

\* torrc is written into the runtime directory, which an earlier Stop removed;
\* or the pipe or the Tor binary cannot be had.
StartSpawnFails(g) ==
  /\ pc[g] = "start.spawn"
  /\ Goto(g, "start.failed")
  /\ UNCHANGED <<mu, stopClosed, bootstrapped, bootstrapDone, started, watching, scanner,
                 runtimeDir, dataDir, ephemeral, tor, booted, pipe, ret>>

\* Mutant: torrc is written elsewhere, so that a removed directory is not noticed.
StartSpawnAnywhere(g) ==
  /\ pc[g] = "start.spawn"
  /\ tor' = "running"
  /\ scanner' = "reading"
  /\ Goto(g, "start.wait")
  /\ UNCHANGED <<mu, stopClosed, bootstrapped, bootstrapDone, started, watching,
                 runtimeDir, dataDir, ephemeral, booted, pipe, ret>>

StartSpawn(g) ==
  /\ pc[g] = "start.spawn"
  /\ runtimeDir = "present"
  /\ tor' = "running"
  /\ scanner' = "reading"
  /\ Goto(g, "start.wait")
  /\ UNCHANGED <<mu, stopClosed, bootstrapped, bootstrapDone, started, watching,
                 runtimeDir, dataDir, ephemeral, booted, pipe, ret>>

\* The select of Start: a value of bootstrapDone ...
StartBootstrapped(g) ==
  /\ pc[g] = "start.wait" /\ bootstrapDone = "ok"
  /\ bootstrapDone' = "empty"
  /\ Goto(g, "start.verify")
  /\ UNCHANGED <<mu, stopClosed, bootstrapped, started, watching, scanner,
                 runtimeDir, dataDir, ephemeral, tor, booted, pipe, ret>>

StartBootstrapFails(g) ==
  /\ pc[g] = "start.wait" /\ bootstrapDone = "err"
  /\ bootstrapDone' = "empty"
  /\ EnterStop(g, "start.failed")
  /\ UNCHANGED <<mu, stopClosed, bootstrapped, started, watching, scanner,
                 runtimeDir, dataDir, ephemeral, tor, booted, pipe>>

\* ... or the 90 seconds are over, whatever Tor and the scanner are doing.
StartTimesOut(g) ==
  /\ pc[g] = "start.wait"
  /\ EnterStop(g, "start.failed")
  /\ UNCHANGED <<mu, stopClosed, bootstrapped, bootstrapDone, started, watching, scanner,
                 runtimeDir, dataDir, ephemeral, tor, booted, pipe>>

\* VerifyListeners, whose conversation with Tor is the subject of ControlPort:
\* it succeeds once it has read Tor's last answer, whatever Tor does after that,
\* and may fail at any of its steps.
StartVerified(g) ==
  /\ pc[g] = "start.verify"
  /\ started' = "ok"
  /\ mu' = Nobody
  /\ Goto(g, "idle")
  /\ UNCHANGED <<stopClosed, bootstrapped, bootstrapDone, watching, scanner,
                 runtimeDir, dataDir, ephemeral, tor, booted, pipe, ret>>

StartVerifyFails(g) ==
  /\ pc[g] = "start.verify"
  /\ EnterStop(g, "start.failed")
  /\ UNCHANGED <<mu, stopClosed, bootstrapped, bootstrapDone, started, watching, scanner,
                 runtimeDir, dataDir, ephemeral, tor, booted, pipe>>

\* return err, with the deferred Unlock
StartFailed(g) ==
  /\ pc[g] = "start.failed"
  /\ started' = "err"
  /\ mu' = Nobody
  /\ Goto(g, "idle")
  /\ UNCHANGED <<stopClosed, bootstrapped, bootstrapDone, watching, scanner,
                 runtimeDir, dataDir, ephemeral, tor, booted, pipe, ret>>

-----------------------------------------------------------------------------
(***************************************************************************)
(* The goroutine that reads Tor's log, until the first line that decides.  *)
(* After that nobody reads the pipe.                                       *)
(***************************************************************************)
ScanLine ==
  /\ scanner = "reading" /\ pipe # <<>>
  /\ pipe' = Tail(pipe)
  /\ \/ /\ Head(pipe) = "complete"
        /\ bootstrapped' = TRUE
        /\ bootstrapDone' = "ok"
        /\ scanner' = "done"
     \/ /\ Head(pipe) = "err"
        /\ bootstrapDone' = "err"
        /\ scanner' = "done"
        /\ UNCHANGED bootstrapped
     \/ /\ Head(pipe) \in {"progress", "notice"}
        /\ UNCHANGED <<bootstrapped, bootstrapDone, scanner>>
  /\ UNCHANGED <<mu, stopClosed, started, watching, runtimeDir, dataDir, ephemeral,
                 tor, booted, pc, ret>>

\* End of file: Tor died before it was bootstrapped.
ScanEnd ==
  /\ scanner = "reading" /\ pipe = <<>> /\ tor = "dead"
  /\ scanner' = "done"
  /\ bootstrapDone' = IF bootstrapped THEN bootstrapDone ELSE "err"
  /\ UNCHANGED <<mu, stopClosed, bootstrapped, started, watching, runtimeDir, dataDir,
                 ephemeral, tor, booted, pipe, pc, ret>>

-----------------------------------------------------------------------------
(***************************************************************************)
(* Tor.  It logs its progress, then 100%, then notices; an error at any    *)
(* time.  It may die at any time, asked to (SIGTERM) or not: nothing       *)
(* obliges it to obey, which is why Stop has a timeout.  One that is       *)
(* killed is gone only some time later, when the kernel has ended it.      *)
(***************************************************************************)
TorLogs(line) ==
  /\ tor = "running" /\ Len(pipe) < PipeCap
  /\ line \in {"progress", "complete"} => ~booted
  /\ pipe' = Append(pipe, line)
  /\ booted' = (booted \/ line = "complete")
  /\ UNCHANGED <<mu, stopClosed, bootstrapped, bootstrapDone, started, watching, scanner,
                 runtimeDir, dataDir, ephemeral, tor, pc, ret>>

\* A write to a full pipe blocks Tor's main loop until someone reads.
TorWedges ==
  /\ tor = "running" /\ Len(pipe) = PipeCap
  /\ tor' = "wedged"
  /\ UNCHANGED <<mu, stopClosed, bootstrapped, bootstrapDone, started, watching, scanner,
                 runtimeDir, dataDir, ephemeral, booted, pipe, pc, ret>>

TorResumes ==
  /\ tor = "wedged" /\ Len(pipe) < PipeCap
  /\ tor' = "running"
  /\ UNCHANGED <<mu, stopClosed, bootstrapped, bootstrapDone, started, watching, scanner,
                 runtimeDir, dataDir, ephemeral, booted, pipe, pc, ret>>

TorDies ==
  /\ Exists
  /\ tor' = "dead"
  /\ UNCHANGED <<mu, stopClosed, bootstrapped, bootstrapDone, started, watching, scanner,
                 runtimeDir, dataDir, ephemeral, booted, pipe, pc, ret>>

-----------------------------------------------------------------------------
(***************************************************************************)
(* Stop.                                                                   *)
(***************************************************************************)
CallStop(g) ==
  /\ pc[g] = "idle" /\ HasManager
  /\ EnterStop(g, "idle")
  /\ UNCHANGED <<mu, stopClosed, bootstrapped, bootstrapDone, started, watching, scanner,
                 runtimeDir, dataDir, ephemeral, tor, booted, pipe>>

\* Mutant: the mutex lets a second goroutine in.
StopWithoutLock(g) ==
  /\ pc[g] = "stop.lock"
  /\ mu' = g
  /\ Goto(g, "stop.close")
  /\ UNCHANGED <<stopClosed, bootstrapped, bootstrapDone, started, watching, scanner,
                 runtimeDir, dataDir, ephemeral, tor, booted, pipe, ret>>

StopLock(g) ==
  /\ pc[g] = "stop.lock" /\ mu = Nobody
  /\ mu' = g
  /\ Goto(g, "stop.close")
  /\ UNCHANGED <<stopClosed, bootstrapped, bootstrapDone, started, watching, scanner,
                 runtimeDir, dataDir, ephemeral, tor, booted, pipe, ret>>

\* stopChan is closed once; a watchdog parked in its select wakes on it.  A
\* Tor that was started is sent SIGTERM.
StopClose(g) ==
  /\ pc[g] = "stop.close"
  /\ stopClosed' = TRUE
  /\ pc' = [h \in Goroutines |->
              CASE h = g /\ tor = "none"  -> "stop.clean"
                [] h = g /\ tor # "none"  -> "stop.wait"
                [] h # g /\ pc[h] = "watch.parked" /\ ~stopClosed -> "idle"
                [] OTHER -> pc[h]]
  /\ UNCHANGED <<mu, bootstrapped, bootstrapDone, started, watching, scanner,
                 runtimeDir, dataDir, ephemeral, tor, booted, pipe, ret>>

\* cmd.Wait returned within 2 seconds
StopReaps(g) ==
  /\ pc[g] = "stop.wait" /\ tor = "dead"
  /\ Goto(g, "stop.clean")
  /\ UNCHANGED <<mu, stopClosed, bootstrapped, bootstrapDone, started, watching, scanner,
                 runtimeDir, dataDir, ephemeral, tor, booted, pipe, ret>>

\* Mutant: a Tor that does not answer SIGTERM in time is left running.
StopGivesUp(g) ==
  /\ pc[g] = "stop.wait" /\ Alive
  /\ Goto(g, "stop.clean")
  /\ UNCHANGED <<mu, stopClosed, bootstrapped, bootstrapDone, started, watching, scanner,
                 runtimeDir, dataDir, ephemeral, tor, booted, pipe, ret>>

\* the 2 seconds are over: SIGKILL, whose effect nobody waits for
StopKills(g) ==
  /\ pc[g] = "stop.wait" /\ Exists
  /\ tor' = "killed"
  /\ Goto(g, "stop.clean")
  /\ UNCHANGED <<mu, stopClosed, bootstrapped, bootstrapDone, started, watching, scanner,
                 runtimeDir, dataDir, ephemeral, booted, pipe, ret>>

\* Cookie, socket and directories go, then the deferred Unlock.  "removed" says
\* that os.RemoveAll was called: its error is ignored.
StopClean(g) ==
  /\ pc[g] = "stop.clean"
  /\ runtimeDir' = "removed"
  /\ dataDir' = IF ephemeral THEN "removed" ELSE dataDir
  /\ mu' = Nobody
  /\ Goto(g, ret[g])
  /\ UNCHANGED <<stopClosed, bootstrapped, bootstrapDone, started, watching, scanner,
                 ephemeral, tor, booted, pipe, ret>>

-----------------------------------------------------------------------------
(***************************************************************************)
(* The watchdog: one goroutine in a select on stopChan, on the exit of the *)
(* process and on the loss of a control connection of its own.  Its        *)
(* context is never cancelled: both callers pass context.Background().     *)
(***************************************************************************)
StartWatchdog(w) ==
  /\ pc[w] = "idle" /\ started = "ok" /\ ~watching
  /\ watching' = TRUE
  /\ Goto(w, "watch.enter")
  /\ UNCHANGED <<mu, stopClosed, bootstrapped, bootstrapDone, started, scanner,
                 runtimeDir, dataDir, ephemeral, tor, booted, pipe, ret>>

\* No case of the select is ready: the goroutine sleeps in it.
WatchPark(w) ==
  /\ pc[w] = "watch.enter" /\ ~stopClosed /\ tor # "dead"
  /\ Goto(w, "watch.parked")
  /\ UNCHANGED <<mu, stopClosed, bootstrapped, bootstrapDone, started, watching, scanner,
                 runtimeDir, dataDir, ephemeral, tor, booted, pipe, ret>>

WatchStopped(w) ==
  /\ pc[w] = "watch.enter" /\ stopClosed
  /\ Goto(w, "idle")
  /\ UNCHANGED <<mu, stopClosed, bootstrapped, bootstrapDone, started, watching, scanner,
                 runtimeDir, dataDir, ephemeral, tor, booted, pipe, ret>>

WatchProcessExit(w) ==
  /\ pc[w] \in {"watch.enter", "watch.parked"} /\ tor = "dead"
  /\ Goto(w, "watch.crash")
  /\ UNCHANGED <<mu, stopClosed, bootstrapped, bootstrapDone, started, watching, scanner,
                 runtimeDir, dataDir, ephemeral, tor, booted, pipe, ret>>

\* The control socket cannot be dialled or the connection ends, for a reason
\* of its own.
WatchSocketLost(w) ==
  /\ pc[w] \in {"watch.enter", "watch.parked"} /\ Exists
  /\ Goto(w, "watch.crash")
  /\ UNCHANGED <<mu, stopClosed, bootstrapped, bootstrapDone, started, watching, scanner,
                 runtimeDir, dataDir, ephemeral, tor, booted, pipe, ret>>

\* onCrash: the handler calls Stop.
WatchCrash(w) ==
  /\ pc[w] = "watch.crash"
  /\ EnterStop(w, "idle")
  /\ UNCHANGED <<mu, stopClosed, bootstrapped, bootstrapDone, started, watching, scanner,
                 runtimeDir, dataDir, ephemeral, tor, booted, pipe>>

-----------------------------------------------------------------------------
StartStep(g) ==
  \/ StartLock(g) \/ StartSpawnFails(g) \/ StartSpawn(g)
  \/ StartBootstrapped(g) \/ StartBootstrapFails(g) \/ StartTimesOut(g)
  \/ StartVerified(g) \/ StartVerifyFails(g) \/ StartFailed(g)

StopStep(g) ==
  StopLock(g) \/ StopClose(g) \/ StopReaps(g) \/ StopKills(g) \/ StopClean(g)

WatchStep(w) ==
  \/ WatchPark(w) \/ WatchStopped(w)
  \/ WatchProcessExit(w) \/ WatchSocketLost(w)

ScanStep == ScanLine \/ ScanEnd

TorStep ==
  \/ \E line \in Lines : TorLogs(line)
  \/ TorWedges \/ TorResumes \/ TorDies

Call(g) ==
  \/ NewManager(g) \/ NewManagerFails(g)
  \/ CallStart(g) \/ CallStop(g) \/ StartWatchdog(g)

Next ==
  \/ \E g \in Goroutines : Call(g) \/ StartStep(g) \/ StopStep(g) \/ WatchStep(g) \/ WatchCrash(g)
  \/ ScanStep
  \/ TorStep

Spec == Init /\ [][Next]_managerVars

-----------------------------------------------------------------------------
\* The types of the variables; a pipe never holds more than PipeCap lines.
TypeOK ==
  /\ mu \in Goroutines \cup {Nobody}
  /\ stopClosed \in BOOLEAN /\ bootstrapped \in BOOLEAN /\ watching \in BOOLEAN
  /\ bootstrapDone \in {"empty", "ok", "err"}
  /\ started \in {"no", "pending", "ok", "err"}
  /\ scanner \in {"none", "reading", "done"}
  /\ runtimeDir \in {"absent", "left", "present", "removed"}
  /\ dataDir \in {"absent", "left", "present", "removed"}
  /\ ephemeral \in BOOLEAN
  /\ tor \in {"none", "running", "wedged", "killed", "dead"}
  /\ booted \in BOOLEAN
  /\ pipe \in Seq(Lines) /\ Len(pipe) <= PipeCap
  /\ pc \in [Goroutines -> Steps]
  /\ ret \in [Goroutines -> Returns]

(***************************************************************************)
(* While a Tor process is alive its runtime directory (torrc, cookie,      *)
(* control socket) and its DataDirectory exist: Stop deletes them only     *)
(* after the process is reaped or killed, and a Start that loses the race  *)
(* for the mutex against a Stop never launches Tor into deleted            *)
(* directories.  Code: the order kill, wait, remove in Stop, and the       *)
(* writing of torrc before the launch in Start.                            *)
(***************************************************************************)
DirsOutliveTor ==
  Alive => runtimeDir = "present" /\ dataDir = "present"

(***************************************************************************)
(* Once a Stop has released the mutex, whichever goroutines called Start   *)
(* and Stop and in whichever order they got it: no Tor process is left     *)
(* that executes anything, nor will one be started, the runtime directory  *)
(* is gone, the data directory is gone if it was ephemeral and kept if it  *)
(* is the user's.                                                          *)
(***************************************************************************)
StoppedIsClean ==
  stopClosed /\ mu = Nobody =>
    /\ ~Alive
    /\ runtimeDir = "removed"
    /\ dataDir = IF ephemeral THEN "removed" ELSE "present"

(***************************************************************************)
(* Start reports success only for a Tor that said it was bootstrapped and  *)
(* for a Manager nobody has begun to stop: a Stop that comes first makes   *)
(* Start fail, one that comes later waits for it.  So the Tor may have     *)
(* died of itself, but was not killed.  Code: the mutex held for the whole *)
(* of Start, and bootstrapDone.                                            *)
(***************************************************************************)
StartSucceedsOnLiveManager ==
  [][started' = "ok" /\ started # "ok" =>
       /\ bootstrapped /\ booted
       /\ ~stopClosed /\ tor \notin {"none", "killed"} /\ runtimeDir = "present"]_managerVars

-----------------------------------------------------------------------------
(***************************************************************************)
(* The inductive invariant behind the three properties above.              *)
(***************************************************************************)
Critical(g) ==
  \/ pc[g] \in (StartSteps \cup StopSteps) \ {"start.lock", "stop.lock"}
  \/ pc[g] = "stop.lock" /\ ret[g] = "start.failed"

\* The mutex is held by the goroutine inside Start or Stop, and a Stop that
\* Start calls gets no further than its Lock.
LockDiscipline ==
  \A g \in Goroutines :
    /\ Critical(g) <=> mu = g
    /\ pc[g] \in StopSteps \ {"stop.lock"} => ret[g] = "idle"

\* The directories: made by NewManager, removed together, with Tor dead; or one
\* of them made and left by a NewManager that failed.
DirsInv ==
  /\ ~HasManager =>
       /\ tor = "none" /\ ~stopClosed /\ started = "no"
       /\ dataDir = "absent" \/ (dataDir = "left" /\ runtimeDir = "absent" /\ ephemeral)
       /\ \A g \in Goroutines : pc[g] = "idle"
  /\ runtimeDir = "present" => dataDir = "present"
  /\ runtimeDir = "removed" =>
       /\ stopClosed /\ ~Alive
       /\ dataDir = IF ephemeral THEN "removed" ELSE "present"

\* A closed stopChan means that a Stop is at work, or that the directories are gone.
StopInv ==
  /\ \A g \in Goroutines :
       /\ pc[g] \in {"stop.wait", "stop.clean"} => stopClosed
       /\ pc[g] = "stop.clean" => ~Alive
  /\ stopClosed /\ runtimeDir # "removed" =>
       \E g \in Goroutines : pc[g] \in {"stop.wait", "stop.clean"}

\* A Start that waits for Tor works on a live Manager; "ok" means Tor said so.
BootInv ==
  /\ \A g \in Goroutines :
       /\ pc[g] \in {"start.wait", "start.verify"} =>
            ~stopClosed /\ runtimeDir = "present" /\ tor # "none"
       /\ pc[g] = "start.verify" => bootstrapped
  /\ tor = "killed" => stopClosed
  /\ bootstrapDone = "ok" => bootstrapped
  /\ bootstrapped => booted
  /\ \A i \in 1..Len(pipe) : pipe[i] = "complete" => booted

\* Start runs once: no Tor before it launches one, none when it has failed.
StartInv ==
  /\ \A g \in Goroutines :
       /\ pc[g] \in StartSteps => started = "pending"
       /\ pc[g] \in {"start.lock", "start.spawn"} => tor = "none"
       /\ pc[g] = "start.failed" => ~Alive
       /\ \A h \in Goroutines : pc[g] \in StartSteps /\ pc[h] \in StartSteps => g = h
  /\ started = "no" => tor = "none"

(***************************************************************************)
(* The conjunction that every step preserves: who holds the mutex, what a  *)
(* closed stopChan implies for the directories, what a successful          *)
(* bootstrap implies, and that Start runs once.  Checked here, proved in   *)
(* TorManager_proofs.                                                      *)
(***************************************************************************)
IInv == TypeOK /\ LockDiscipline /\ DirsInv /\ StopInv /\ BootInv /\ StartInv

(***************************************************************************)
(* The Manager keeps its contract: whatever its goroutines, its mutex and  *)
(* its log do, Tor is launched once, for a Start at work and never after a *)
(* Stop, and is gone when Start fails or Stop returns.                     *)
(***************************************************************************)
Life == IF Alive THEN "alive" ELSE IF tor = "killed" THEN "dead" ELSE tor

Contract == INSTANCE ManagerContract WITH
  outcome <- started,
  life    <- Life,
  gone    <- (runtimeDir = "removed")

ImplementsContract == Contract!Spec

-----------------------------------------------------------------------------
(***************************************************************************)
(* No goroutine waits for the mutex it holds itself.  Code: Start keeps    *)
(* m.mu locked and its error paths call Stop, whose first statement locks  *)
(* m.mu; the message "tor bootstrap timed out after 90 seconds" that Start *)
(* is written to return (manager.go:253) is behind that call.              *)
(***************************************************************************)
NoSelfDeadlock ==
  \A g \in Goroutines : pc[g] \in {"start.lock", "stop.lock"} => mu # g
=============================================================================

----------------------------- MODULE TorSession -----------------------------
(***************************************************************************)
(* One run of the program that owns a Tor: the commands open, daemon, test *)
(* and shell of cmd/tuxproxy/main.go, with the supervision of the target   *)
(* by internal/launcher/launcher.go.  It composes with TorManager: each    *)
(* step here is code outside the Manager, or a call into it.               *)
(*                                                                         *)
(* Three goroutines: "main"; "sig", the cleanup goroutine that open alone  *)
(* starts; "wd", the watchdog that open alone starts.  at[g] is the        *)
(* position of g in that code; a goroutine inside the Manager              *)
(* (pc[g] # "idle") takes no step here.  When the process exits, in        *)
(* whatever way, its goroutines stop; Tor and the target, processes of     *)
(* their own, go on.                                                       *)
(***************************************************************************)
EXTENDS TorManager

CONSTANTS
  Commands,    \* the commands considered, a subset of AllCommands
  MaxSignals   \* bound: signals the user sends

AllCommands == {"open", "daemon", "test", "shell"}

ASSUME SessionAssumption ==
  /\ {"main", "sig", "wd"} \subseteq Goroutines
  /\ Commands \subseteq AllCommands
  /\ MaxSignals \in Nat

VARIABLES
  command,    \* the command of this run
  at,         \* where each goroutine is outside the Manager
  target,     \* the target application or subshell: "none", "running", "exited"
  notified,   \* the signal channels that are registered with signal.Notify
  inbox,      \* the signal waiting in each channel (their capacity is 1), or "none"
  signals,    \* how many signals the user may still send
  exit        \* "running", the exit code "0" or "1", "signal" or "fatal"

sessionVars == <<command, at, target, notified, inbox, signals, exit>>
vars == <<managerVars, sessionVars>>

Channels == {"cleanup", "launch", "daemon"}
\* SIGINT and SIGTERM are handled alike everywhere: "int"
Signals  == {"int", "hup"}
\* what each channel is registered for
Accepts(c) == IF c = "launch" THEN {"int", "hup"} ELSE {"int"}

Positions == {"none", "new", "notify", "start", "started", "audit", "launch",
              "launched", "supervise", "await", "serve", "recv", "watch",
              "exit.0", "exit.1"}

Running == exit = "running"
\* g is about to execute the code at position p
At(g, p) == Running /\ at[g] = p /\ pc[g] = "idle"
Move(g, p) == at' = [at EXCEPT ![g] = p]

SessionInit ==
  /\ Init
  /\ command \in Commands
  /\ ephemeral \/ command \in {"open", "daemon"}  \* test and shell always are
  /\ at = [g \in Goroutines |-> IF g = "main" THEN "new" ELSE "none"]
  /\ target = "none"
  /\ notified = {}
  /\ inbox = [c \in Channels |-> "none"]
  /\ signals = MaxSignals
  /\ exit = "running"

-----------------------------------------------------------------------------
(***************************************************************************)
(* The main goroutine.                                                     *)
(***************************************************************************)
MainNew ==
  /\ At("main", "new")
  /\ \/ NewManager("main") /\ Move("main", IF command = "open" THEN "notify" ELSE "start")
     \/ (NewManagerFails("main") \/ UNCHANGED managerVars) /\ Move("main", "exit.1")
  /\ UNCHANGED <<command, target, notified, inbox, signals, exit>>

\* open: the cleanup goroutine, before Start
MainNotify ==
  /\ At("main", "notify")
  /\ notified' = notified \cup {"cleanup"}
  /\ at' = [at EXCEPT !["main"] = "start", !["sig"] = "recv"]
  /\ UNCHANGED <<managerVars, command, target, inbox, signals, exit>>

MainStart ==
  /\ At("main", "start")
  /\ CallStart("main")
  /\ Move("main", "started")
  /\ UNCHANGED <<command, target, notified, inbox, signals, exit>>

\* Start returned an error.  test and shell return, so their exit code is 0.
MainStartFailed ==
  /\ At("main", "started") /\ started = "err"
  /\ CallStop("main")
  /\ Move("main", IF command \in {"open", "daemon"} THEN "exit.1" ELSE "exit.0")
  /\ UNCHANGED <<command, target, notified, inbox, signals, exit>>

\* Mutant: open forgets to start its watchdog.
MainUpUnwatched ==
  /\ At("main", "started") /\ started = "ok"
  /\ Move("main", IF command = "shell" THEN "launch" ELSE "audit")
  /\ UNCHANGED <<managerVars, command, target, notified, inbox, signals, exit>>

MainUp ==
  /\ At("main", "started") /\ started = "ok"
  /\ \/ /\ command = "open"
        /\ StartWatchdog("wd")
        /\ at' = [at EXCEPT !["main"] = "audit", !["wd"] = "watch"]
     \/ /\ command # "open"
        /\ Move("main", IF command = "shell" THEN "launch" ELSE "audit")
        /\ UNCHANGED managerVars
  /\ UNCHANGED <<command, target, notified, inbox, signals, exit>>

\* VerifyEgress: up to 15 seconds of requests through Tor, whose result is only printed.
MainAudit ==
  /\ At("main", "audit")
  /\ \/ /\ command = "open"
        /\ Move("main", "launch")
        /\ UNCHANGED <<managerVars, notified>>
     \/ /\ command = "daemon"
        /\ notified' = notified \cup {"daemon"}
        /\ Move("main", "serve")
        /\ UNCHANGED managerVars
     \/ /\ command = "test"
        /\ CallStop("main")
        /\ Move("main", "exit.0")
        /\ UNCHANGED notified
  /\ UNCHANGED <<command, target, inbox, signals, exit>>

\* launcher.Launch for open, shell.SpawnSubshell for shell
MainLaunch ==
  /\ At("main", "launch")
  /\ target' = "running"
  /\ Move("main", IF command = "open" THEN "launched" ELSE "await")
  /\ UNCHANGED <<managerVars, command, notified, inbox, signals, exit>>

\* The target is not in PATH, its isolation cannot be set up, or it does not start.
MainLaunchFails ==
  /\ At("main", "launch")
  /\ CallStop("main")
  /\ Move("main", IF command = "open" THEN "exit.1" ELSE "exit.0")
  /\ UNCHANGED <<command, target, notified, inbox, signals, exit>>

\* Launch registers its own channel after the target has started.
MainForward ==
  /\ At("main", "launched")
  /\ notified' = notified \cup {"launch"}
  /\ Move("main", "supervise")
  /\ UNCHANGED <<managerVars, command, target, inbox, signals, exit>>

\* The select of Launch takes a signal and hands it to the target, which may
\* ignore it; from then on Launch waits for the target alone.
MainRelay ==
  /\ At("main", "supervise") /\ inbox["launch"] # "none"
  /\ inbox' = [inbox EXCEPT !["launch"] = "none"]
  /\ Move("main", "await")
  /\ UNCHANGED <<managerVars, command, target, notified, signals, exit>>

\* The target ended; open exits with 1 if it failed, shell with 0 always.
MainTargetEnded ==
  /\ At("main", "supervise") \/ At("main", "await")
  /\ target = "exited"
  /\ CallStop("main")
  /\ \/ Move("main", "exit.0")
     \/ command = "open" /\ Move("main", "exit.1")
  /\ UNCHANGED <<command, target, notified, inbox, signals, exit>>

\* daemon: the signal it waits for
MainServe ==
  /\ At("main", "serve") /\ inbox["daemon"] # "none"
  /\ inbox' = [inbox EXCEPT !["daemon"] = "none"]
  /\ CallStop("main")
  /\ Move("main", "exit.0")
  /\ UNCHANGED <<command, target, notified, signals, exit>>

-----------------------------------------------------------------------------
(***************************************************************************)
(* The cleanup goroutine and the watchdog's handler.                       *)
(***************************************************************************)
\* Mutant: the handler stops Tor and leaves the exit to main.
SigStaysUp ==
  /\ At("sig", "recv") /\ inbox["cleanup"] # "none"
  /\ inbox' = [inbox EXCEPT !["cleanup"] = "none"]
  /\ CallStop("sig")
  /\ Move("sig", "none")
  /\ UNCHANGED <<command, target, notified, signals, exit>>

\* Mutant: the handler cleans up by itself, without Stop and its mutex.
SigCleansUp ==
  /\ At("sig", "recv") /\ inbox["cleanup"] # "none"
  /\ inbox' = [inbox EXCEPT !["cleanup"] = "none"]
  /\ tor' = "dead"
  /\ runtimeDir' = "removed"
  /\ Move("sig", "exit.0")
  /\ UNCHANGED <<mu, stopClosed, bootstrapped, bootstrapDone, started, watching, scanner,
                 dataDir, ephemeral, booted, pipe, pc, ret,
                 command, target, notified, signals, exit>>

\* Mutant: the handler of SIGINT and SIGTERM exits at once.
SigExits ==
  /\ At("sig", "recv") /\ inbox["cleanup"] # "none"
  /\ inbox' = [inbox EXCEPT !["cleanup"] = "none"]
  /\ Move("sig", "exit.0")
  /\ UNCHANGED <<managerVars, command, target, notified, signals, exit>>

SigReceive ==
  /\ At("sig", "recv") /\ inbox["cleanup"] # "none"
  /\ inbox' = [inbox EXCEPT !["cleanup"] = "none"]
  /\ CallStop("sig")
  /\ Move("sig", "exit.0")
  /\ UNCHANGED <<command, target, notified, signals, exit>>

\* Mutant: the handler stops Tor and forgets to exit.
WatchdogStaysUp ==
  /\ Running
  /\ WatchCrash("wd")
  /\ Move("wd", "none")
  /\ UNCHANGED <<command, target, notified, inbox, signals, exit>>

WatchdogFires ==
  /\ Running
  /\ WatchCrash("wd")
  /\ Move("wd", "exit.1")
  /\ UNCHANGED <<command, target, notified, inbox, signals, exit>>

\* Mutant: the position is taken for the exit code.
ExitWithPosition(g) ==
  /\ At(g, "exit.0") \/ At(g, "exit.1")
  /\ exit' = at[g]
  /\ UNCHANGED <<managerVars, command, at, target, notified, inbox, signals>>

\* os.Exit, or the return of main
Exit(g) ==
  /\ \/ At(g, "exit.0") /\ exit' = "0"
     \/ At(g, "exit.1") /\ exit' = "1"
  /\ UNCHANGED <<managerVars, command, at, target, notified, inbox, signals>>

\* The Go runtime aborts a process all of whose goroutines are blocked for good.
\* A registered signal channel, or a scanner waiting for a pipe, prevents it.
RuntimeAborts ==
  /\ Running /\ notified = {} /\ scanner # "reading"
  /\ pc["main"] = "stop.lock" /\ mu = "main"
  /\ exit' = "fatal"
  /\ UNCHANGED <<managerVars, command, at, target, notified, inbox, signals>>

-----------------------------------------------------------------------------
(***************************************************************************)
(* The environment: the user's signals and the target.                     *)
(***************************************************************************)
\* A signal goes to every registered channel that accepts it, and is dropped
\* where one is waiting already; if there is no such channel it kills the process.
Signal(s) ==
  LET receivers == {c \in notified : s \in Accepts(c)} IN
  /\ Running /\ signals > 0
  /\ signals' = signals - 1
  /\ inbox' = [c \in Channels |-> IF c \in receivers /\ inbox[c] = "none" THEN s ELSE inbox[c]]
  /\ exit' = IF receivers = {} THEN "signal" ELSE exit
  /\ UNCHANGED <<managerVars, command, at, target, notified>>

TargetExits ==
  /\ target = "running"
  /\ target' = "exited"
  /\ UNCHANGED <<managerVars, command, at, notified, inbox, signals, exit>>

-----------------------------------------------------------------------------
MainStep ==
  \/ MainNew \/ MainNotify \/ MainStart \/ MainStartFailed \/ MainUp \/ MainAudit
  \/ MainLaunch \/ MainLaunchFails \/ MainForward \/ MainRelay \/ MainTargetEnded
  \/ MainServe

\* The steps of the Manager's code, taken on behalf of a running process
ManagerStep(g) ==
  /\ Running
  /\ StartStep(g) \/ StopStep(g) \/ WatchStep(g)
  /\ UNCHANGED sessionVars

Scan == Running /\ ScanStep /\ UNCHANGED sessionVars

Environment ==
  \/ \E s \in Signals : Signal(s)
  \/ TargetExits
  \/ TorStep /\ UNCHANGED sessionVars

SessionNext ==
  \/ MainStep \/ SigReceive \/ WatchdogFires
  \/ \E g \in Goroutines : Exit(g) \/ ManagerStep(g)
  \/ Scan
  \/ RuntimeAborts
  \/ Environment

(***************************************************************************)
(* Go schedules every goroutine that can run, and the 2 seconds of Stop    *)
(* elapse: weak fairness of each goroutine's own code.  None of the        *)
(* environment (signals, the target, Tor), and none of the 90 seconds of   *)
(* Start, of a control connection that is lost, or of VerifyListeners:     *)
(* its reads have no deadline, and Tor may be silent.                      *)
(***************************************************************************)
GoroutineRuns(g) ==
  /\ Running
  /\ \/ StartLock(g) \/ StartSpawnFails(g) \/ StartSpawn(g) \/ StartBootstrapped(g)
     \/ StartBootstrapFails(g) \/ StartFailed(g)
     \/ StopStep(g)
     \/ WatchPark(g) \/ WatchStopped(g) \/ WatchProcessExit(g)
  /\ UNCHANGED sessionVars

Fairness ==
  /\ WF_vars(MainStep) /\ WF_vars(SigReceive) /\ WF_vars(WatchdogFires) /\ WF_vars(Scan)
  /\ \A g \in Goroutines : WF_vars(Exit(g)) /\ WF_vars(GoroutineRuns(g))

SessionSpec == SessionInit /\ [][SessionNext]_vars
FairSessionSpec == SessionSpec /\ Fairness

-----------------------------------------------------------------------------
\* The types of the session's own variables.
SessionTypeOK ==
  /\ command \in AllCommands
  /\ at \in [Goroutines -> Positions]
  /\ target \in {"none", "running", "exited"}
  /\ notified \subseteq Channels
  /\ inbox \in [Channels -> Signals \cup {"none"}]
  /\ signals \in 0..MaxSignals
  /\ exit \in {"running", "0", "1", "signal", "fatal"}

(***************************************************************************)
(* However the three goroutines race to end the program, an exit by its    *)
(* own decision leaves no Tor process that executes anything and the       *)
(* user's own data directory in place.  With code 0 nothing else is there; *)
(* with code 1 nothing, or, of a NewManager that failed and before there   *)
(* was a Tor, one directory.  Code: every os.Exit and return of main.go    *)
(* comes after a Stop that released the mutex, or before there is a        *)
(* Manager.                                                                *)
(***************************************************************************)
CleanExit ==
  exit \in {"0", "1"} =>
    /\ ~Alive
    /\ runtimeDir # "present"
    /\ ephemeral => dataDir # "present"
    /\ ~ephemeral => dataDir \notin {"removed", "left"}
    /\ "left" \in {runtimeDir, dataDir} =>
         exit = "1" /\ started = "no" /\ runtimeDir # dataDir

(***************************************************************************)
(* Why CleanExit holds: a goroutine about to exit has never had a Manager  *)
(* (then it is main, and the code is 1), is in a Stop of its own, or finds *)
(* one already done.  Code: the pairs of Stop and os.Exit of main.go.      *)
(***************************************************************************)
ExitInv ==
  /\ at["main"] = "new" => runtimeDir = "absent" /\ dataDir = "absent"
  /\ \A g \in Goroutines : at[g] \in {"exit.0", "exit.1"} =>
       \/ ~HasManager /\ g = "main" /\ at[g] = "exit.1"
       \/ pc[g] \in StopSteps /\ ret[g] = "idle"
       \/ runtimeDir = "removed"
  /\ exit \in {"0", "1"} => runtimeDir # "present"
  /\ exit = "0" => runtimeDir = "removed"

(***************************************************************************)
(* Once open is up, a SIGINT or SIGTERM waiting for its cleanup goroutine  *)
(* ends the program, also when the watchdog and the end of the target      *)
(* compete for the mutex.                                                  *)
(***************************************************************************)
InterruptEndsSession ==
  (inbox["cleanup"] # "none" /\ started = "ok") ~> ~Running

(***************************************************************************)
(* Once open is up, the death of Tor ends the program, whatever main and   *)
(* the cleanup goroutine are doing.  Code: the watchdog.                   *)
(***************************************************************************)
TorDeathEndsSession ==
  (command = "open" /\ started = "ok" /\ tor = "dead") ~> ~Running

(***************************************************************************)
(* A session whose Manager has begun to stop ends: no caller of Stop goes  *)
(* on without Tor, or hangs.                                               *)
(***************************************************************************)
StoppedSessionEnds == stopClosed ~> ~Running

(***************************************************************************)
(* The program uses the Manager the way TorManager says a client may: the  *)
(* session implements TorManager's specification, and inherits what holds  *)
(* of it.                                                                  *)
(***************************************************************************)
ImplementsManager == Init /\ [][Next]_managerVars

(***************************************************************************)
(* When the watchdog has ended the program, the target no longer runs: the *)
(* handler announces "Активация Fail-Closed: мгновенная остановка          *)
(* процесса" (main.go:352).                                                *)
(***************************************************************************)
KillSwitchStopsTarget ==
  ~Running /\ at["wd"] = "exit.1" /\ pc["wd"] = "idle" /\ exit = "1" => target # "running"
=============================================================================

# TuxProxy: a TLA+ verification project

This directory specifies the parts of TuxProxy that have state and concurrency:
the supervisor of the Tor process, the commands that own a Tor, the network
namespaces that several commands share by name, the rewriting of the user's
shell startup files, the configuration file and its readers and writers, the
choice of an isolation profile, and the web interface. Each module is translated
from the Go source; `PROJECT.json` maps every definition to the lines it models.
TLC checks small instances; TLAPS proves every safety property of the passing
runs, and three refinements, for every value of the constants.

Contents

1. The system
2. The modules and how they correspond to the code
3. What each run checks, its bounds and what it shows
4. Fairness
5. Proofs
6. Where code and documents disagree
7. What is not modelled
8. Plan

## 1. The system

| Component | Source | State | Operations | Concurrency and failure |
|---|---|---|---|---|
| Tor Manager | `internal/tor/manager.go` | mutex `m.mu`, `stopChan`, `bootstrapped`, the session's directories, the child process | `NewManager`, `Start`, `StartWatchdog`, `Stop`, `SignalNewnym` | callers in different goroutines, the log scanner, the watchdog, control connections without read deadlines; Tor may die, wedge, fall silent or ignore SIGTERM; timeouts of 90 s and 2 s |
| Session control | `cmd/tuxproxy/main.go`, `internal/launcher/launcher.go` | the goroutines of one run, the signal channels, the target process | `open`, `daemon`, `test`, `shell` | signals at any point, the watchdog's exit, the target's end, all racing to call `Stop` and `os.Exit` |
| NetNS engine and collector | `internal/leak/netns.go` | objects of the kernel known by name: namespace, veth pair, nftables table; `resolv.conf`; the session's JSON record | `Setup`, `Teardown`, `ReconcileOrphans` | several processes, all with session id 42, no lock; crashes, pid reuse, commands that fail |
| Shell hook | `internal/shell/hook.go` | `~/.bashrc`, `~/.zshrc`, their backups, `~/.tuxproxy.lock` | `InstallHook`, `RemoveHook`, `RestoreLatestBackup` | processes on one flock; crashes and errors between any two steps |
| Web GUI server | `internal/gui/server.go` | `s.mu`, `s.torMgr`, `s.isBooting`, the Managers made | eleven HTTP handlers | a goroutine per request, boot goroutines, log callbacks that take `s.mu` |
| Launcher profiles | `internal/launcher`, `internal/leak/{env,chromium,proxychains}.go` | the command being prepared, what was created for it | the choice of an isolation profile, deferred removals | sequential, except for an `os.Exit` of another goroutine |
| Configuration store | `internal/config` | `config.json`, a copy in every process | `Load`, `Save` | read and written by several processes without a lock, in place |
| Port selection | `internal/tor/ports.go` | none | `FindAvailablePort` | check, then bind by another process |
| torrc builder | `internal/tor/config_builder.go` | none | text of a configuration | none |
| Egress verifier | `internal/verifier` | none | HTTP requests through Tor | only its answer matters |
| Settings menus | `internal/tui` | a `Config` in memory | terminal dialogue, `Save` | sequential in its process |
| Page | `internal/gui/html.go` | the form, in every open tab | configuration and hook requests | tabs that do not know of each other; answers that overtake each other |
| Banner | `internal/banner` | none | output | none |

How they interact. A command (session control) makes one Manager and is its
client; the launcher it calls sets up a namespace through the NetNS engine,
starts the target and forwards signals to it. The web server makes Managers of
its own, from several requests, and shares one mutex with their log callbacks.
The hook's functions are called from the command line and from the web server,
which also save the flag that says whether the hook is installed; the page in
the browser sends that flag back with every form, as it showed it.
Processes meet only through the kernel's names (namespaces, tables), through
files (records, startup files, configuration) and through ports.

What makes each component correct:

- Manager: Tor never outlives its directories, a finished `Stop` leaves nothing,
  `Start` succeeds only on a Manager that nobody stops, no call hangs.
- Control connections: the line looked at is the answer to the question asked,
  no read waits for a line Tor does not owe, a rotation is reported only when it
  happened.
- Session: every ending cleans up, exactly one way, and every reason to end
  (signal, death of Tor, end of the target) does end it.
- NetNS: a session that is up has its firewall; the collector removes what the
  dead left and only that; what is left stays findable.
- Hook: the user's text survives every sequence of edits and crashes, backups
  are what was replaced, the newest of them stay, the lock is always released.
- Configuration: it stays loadable, a copy agrees with the file unless somebody
  else wrote, the flag
  agrees with the startup files after a hook command.
- Launcher: a profile is what it says, and what it creates is removed.
- Web server: no request brings back a Tor that was stopped, the flag shown to
  the user goes off again, and handlers wait for Tor at most, never only for each
  other.

## 2. The modules

| Module | Models | Extends | Checked through | Proofs |
|---|---|---|---|---|
| `ManagerContract` | what a Manager promises its users (abstract) | | `TorManager`, `GuiServer` | |
| `TorManager` | one Manager, its scanner and watchdog, Tor, and any client | | the next two | `TorManager_proofs` |
| `ControlPort` | the conversations with Tor's control port | `TorManager` | `MCTorManager` | `TorManager_proofs`, second part |
| `TorSession` | one run of the program that owns a Manager | `TorManager` | `MCTorSession` | `TorSession_proofs` |
| `NetNS` | namespaces of any number of processes | | `MCNetNS` | `NetNS_proofs` |
| `Launcher` | the choice of a profile, the packet filter, the target's packets | | itself (no constants) | in the module |
| `HookText` | the edits of a startup file as operators | | through the next three | `HookText_proofs` |
| `HookEdits` | the edits of one file as steps | `HookText` | through `Settings` | in `Settings_proofs` |
| `ShellHook` | processes editing files with lock, backups, crashes | `HookText` | `MCShellHook` | `ShellHook_proofs` |
| `Settings` | `config.json`, the commands and servers that use it | `HookEdits` | `MCSettings` | `Settings_proofs` |
| `GuiServer` | HTTP handlers, `s.mu` and the Managers they make | | `MCGuiServer` | `GuiServer_proofs` |

Three refinements join them: `TorManager` implements `ManagerContract`,
`ControlPort` and `TorSession` implement `TorManager`, and each Manager of
`GuiServer` implements `ManagerContract`. So what the web server relies on is
what the detailed Manager was shown to do.

**ManagerContract** is a Manager as its user sees it: how its one `Start` went,
whether its Tor runs, whether a `Stop` has removed its directories. A Tor is
launched only by a `Start` at work and before any `Stop`, a `Start` that
returns an error has none, and a `Stop` leaves none.

**TorManager.** `pc[g]` is the next step of goroutine `g` inside a method;
"idle" is code outside. A step is what the code does between two points where
another goroutine can come in: acquiring `m.mu` (`StartLock`, `StopLock`),
spawning Tor, the three ways out of `Start`'s select (`StartBootstrapped`,
`StartBootstrapFails`, `StartTimesOut`), the verification, `Stop`'s closing of
`stopChan`, its wait of 2 seconds (`StopReaps`, or `StopKills` at the timeout)
and its removals (`StopClean`, with the deferred unlock). `Start` holds the
mutex throughout, and its error paths really enter `Stop`: `ret[g]` says where a
`Stop` returns to. The log is a bounded pipe of lines the scanner reads until
100% or an error; a full pipe wedges Tor. `NewManager` succeeds as one step; one
that fails leaves nothing, or the runtime directory it made and did not find as it
should be (`manager.go:611-629`), or an ephemeral data directory (129-132):
`NewManagerFails`, directory "left". A Tor that gets SIGKILL is "killed" from then
on: it executes nothing, and nobody waits until the kernel has reaped it (391-396).
The module is the most general client: any
goroutine calls `Stop` at any time, one `Start` is made.

**ControlPort** replaces the two steps of `TorManager` that stand for
`VerifyListeners` by the conversation: dial, AUTHENTICATE, the question about
SOCKS, the one about DNS, the two probes. `SignalNewnym`, which takes no mutex,
is a second conversation any goroutine may have at any time. `unread[g]` are the
lines Tor has sent and the code has not read; a read takes one, and GETINFO has
two. Tor may refuse the cookie, be silent for ever, or die at any line; `Start` may still
report success when Tor dies after its last answer. The address a listener is bound
to is chosen at the start: "0.0.0.0" or any other, which is all the code tells
apart.

**TorSession** narrows the client. `at[g]` is the position of the goroutines
`main`, `sig` (the cleanup goroutine, `open` only) and `wd` (the watchdog,
`open` only) outside the Manager. Signal channels have capacity 1 and drop what
does not fit; a signal no channel accepts kills the process; when the process
ends its goroutines stop and Tor and the target go on. `RuntimeAborts` is the Go
runtime's "all goroutines are asleep". That the session is a client the
Manager's specification allows, so that what is proved there holds here, is the
refinement `ImplementsManager`: the same variables, with the session's own
hidden, so each step is a step of `TorManager` or a stutter.

**NetNS.** The kernel's objects are variables holding the session (pid and
start time) that made them; the code knows them by name only. A process is at
step `pc[p]`, and may die at any. `StartWithFlags` is a run of the program with
flags, which collects first (`main.go:84-87`); `StartWithSubcommand` never does.
`usage`, fixed at the start, restricts how processes run: "subcommands" (nobody
collects), "sequential" (one process at a time, which always collects) or
"any"; properties that hold only in one of these say so. Every deletion may
fail, without stopping the next one, as in the code; `failed` remembers it,
because recovery is claimed only while deletions work. The contents of the
nftables table are one element per session that loaded rules: `nft -f -` adds. The
record's file is written in two steps (`SetupCreate`, `SetupWrite`); what stands there
between them is `Torn`, `tornBy` says whose, and opening it may fail
(`SetupCreateFails`).

**Launcher** is one call of `Launch`: the request (flags, mode, root, what is
installed), the command it makes, the namespace and the configuration it
creates, and the packets the target sends. The nftables table is a decision on
packets (`Prerouting`, `InputAccepts`, `Accepted`), translated rule by rule from
`GenerateNFTRules`. `Choose` is the code's `if !useProxychains`, taken by the
profile netns too.

**HookText, HookEdits, ShellHook.** A text is a sequence of pieces: markers,
the body TuxProxy writes, an older body, pieces of the user. `Inject`, `Strip`
and `Installed` are the three functions of the code on it, with the code's rule
"first start marker, first end marker". `ShellHook` runs them step by step: the
list of files before the lock, then for each file read, backup (temporary file,
content, rename), prune one by one, rename; any step may fail or be the last. The
lock file may be out of reach (`LockFails`); a removal of the prune that fails is
ignored, so any of the old names may stay (`PruneOne`, `PruneDone`); an installation
whose `Stat` of the file fails makes no backup (`StatFails`).
Backups are kept in the order of their names, which is how the code finds the
newest; a temporary file of a backup carries the backup's prefix and is one of
them until renamed.

**Settings.** A process runs a command (`hook enable`, `hook disable`, the menu,
the web server, or one that only reads) that begins with `Load`; `Load` of a
missing file saves the defaults. `Save` is what `os.WriteFile` does, two steps:
the file is emptied (`Open`), and written from its start (`Write`), either of
which may fail or be the last; a write over a longer text that came in between
leaves its tail (`Over`). A configuration is the hook's flag and one other
parameter. The menu changes the copy in memory as often as the user likes and
saves it or leaves; a command that overrides parameters in memory
(`main.go:301-312`, 422-430) never saves them, and nothing is claimed of its copy.
The web server's handlers of configuration and hook hold `s.mu` throughout, so a
server has one job at a time. Nothing is assumed of the pages before it: `html.go`
has no guard against requests in flight, and answers may arrive in another order,
so a request may come at any time and a form may say anything.
The edit of the startup file is one step: `ShellHook` has its
own, and `EditsAreAtomic` (section 5) says that they come to the same.

**GuiServer.** Handlers run between acquisitions of `s.mu`; only
`handleDaemonStop` keeps it across a wait (`smu`, step "stop.wait"), so the
others are steps that need it free. A Manager is seen at the grain of its own
mutex: "waiting" in the select of `Start`, which a timer ends, "verifying" while
`VerifyListeners` reads Tor's answers, which nothing ends, "stuck" once an error path
has called `Stop` inside `Start`: for good, by `HangsForEver` (section 5). A new
identity waits for Tor's answer too ("newnym.signal"). `TestUsesGateway`,
`TestMakes` and `TestMakesNone` are `handleTest`'s look at `s.torMgr` without the
mutex.

## 3. Runs

Runs that pass:

| Run | Bounds | Question |
|---|---|---|
| `TorManager_safety` | 3 goroutines, a pipe of 2 lines; both addresses of both listeners | every interleaving of `Start`, `Stop`, watchdog, `SignalNewnym` and a Tor that dies, wedges, refuses or is silent; two refinements |
| `TorSession_session` | all four commands, pipe of 2, 2 signals | every ending of a session; refinement of `TorManager`; what must eventually end |
| `NetNS_sessions` | 2 pids, each used twice; all three usages | sessions, collectors, crashes, pid reuse, failing deletions |
| `Settings_commands` | 2 processes, 3 commands, 3 requests, 2 countries, from one startup file; 2 commands from every startup file with one block and at most 5 pieces, and every one of at most 2 without | overlap, crashes and failures of everybody who loads or saves |
| `ShellHook_calls` | 2 processes, 2 files, 3 calls, 1 backup kept | crashes, errors and overlap of install, remove and restore |
| `GuiServer_requests` | 2 requests at a time, 2 Managers | every overlap of requests, boots, callbacks and deaths |

Why these bounds are enough to be interesting. Three goroutines put one in
`Start`, one in `Stop` and one in the watchdog; a fourth would repeat a role.
A pipe of two lines can hold the decisive line behind another, and fills. Two
signals find a channel occupied. Two pids used twice give a dead recorded
process, its pid reused, and a collector beside them; a third pid was explored
for the overlap of three sessions with no difference. One backup kept makes
retention bite at the second call; with a crash in between there are more
than retention allows. Three calls are an install, a removal and a
restoration, or a crash between two of them. Three commands over two processes
are a web server, a command beside it, and a third after a crash, or two servers;
three requests are a reset, a form and a hook request. Five pieces hold a block with user text on both
sides. Two Managers are the current one
and one that is booting beside it.

What the properties say (each is stated, with the code it is about, above its
definition):

- `TorManager_safety`: `DirsOutliveTor` (Tor's directories exist while it
  lives), `StoppedIsClean` (after any finished `Stop` no Tor is left or comes,
  and the user's own data directory is kept), `StartSucceedsOnLiveManager`,
  `IInv`, the invariant the proofs use, and `ImplementsContract`. Of the
  conversations: `AuditSeesSocks` (a `Start` that succeeds has seen the answer
  about SOCKS), `NewnymIsDone`, `ReadIsOwed` (no read waits for a line Tor does
  not owe, so that only a Tor that owes a line and is silent can hold `m.mu` for ever:
  that it does is not excluded) and
  `ControlImplementsManager`.
- `TorSession_session`: `CleanExit` (an exit with code 0 leaves nothing, one with
  code 1 nothing or the directory of a `NewManager` that failed, and never a Tor),
  `ImplementsManager`, and three liveness properties: an interrupt of a session that is up, the death
  of Tor, and a `Stop` that has begun each end the program.
- `NetNS_sessions`: without a collector `UpIsFiltered`: `ip netns add` is in effect the lock on all names. With collectors
  `JudgedDead`: a verdict stays true although the pid
  may be reused. For every process
  `TeardownLeavesNothing`: the step that ends a `Teardown` whose commands worked leaves
  nothing the process made, not even the part of a record a failed write has left. For one process at a
  time `UpIsIntact`, `LeftoverIsRecorded` and `GCPrunesRecorded`: what a session
  that was up leaves behind stays recorded, across crashes in `Teardown` and in
  the collector itself, and one collection removes it.
- `Settings_commands`: `TornOnlyByAccident` (a file nobody can load comes from a
  save that was cut off or overlapped, never from saves one after the other),
  `CopyIsOnDisk` (the copy of a process between two jobs is what the file says, if
  nobody else wrote and no save failed), `HookCommandHeals` (a hook command nobody
  disturbs makes the flag and the startup file agree, whatever a reset or a crash
  left), `UserTextUntouched` and `LastEditWins` of the text. The history variables
  `fresh` and `accident` state "undisturbed" exactly.
- `ShellHook_calls`: `UserTextKept`, `ReplacedIsBackedUp` (the newest backup is
  what the rename replaces), `BackupsRetained` (no prune, no failure and no crash takes
  a backup that is among the newest `maxBackups`), `SuccessIsComplete`, `CallsReturn`.
- `GuiServer_requests`: `ManagersKeepContract`, `CurrentIsNotStopped`;
  `BootingHasCaller` (`isBooting` is set only while a caller of `Start` is yet to come
  back) and `BootingEnds` (it goes off, unless some `Start` hangs); and
  `HangsOnlyBehindTor`: the lock cycle between `daemon/stop` (holds `s.mu`, waits for
  `m.mu`) and a boot (holds `m.mu`, its callback waits for `s.mu`) is broken when the
  select of `Start` ends, so a request stays unanswered only behind a `Start` that
  hangs, in the self-deadlock of section 6 or in a read of an answer that Tor does not
  send, or behind its own new identity that Tor does not answer.

Runs that find a violation, each of one property quoted from the repository:
`TorManager_selfdeadlock`, `TorSession_killswitch`, `NetNS_orphan`,
`NetNS_livepruned`, `ShellHook_restore`, `Launcher_confinement` (section 6).

Deadlock is not checked where the system may stop: a session ends, bounded
calls run out, and a self-deadlocked Manager has no further step.

## 4. Fairness

- `FairSessionSpec`: weak fairness of each goroutine's own code, because Go runs
  every runnable goroutine, and of the 2 second wait in `Stop`, which is a
  timer. No fairness of the user, the target, Tor, the 90 second timeout or a
  lost control connection, and none of `VerifyListeners`: its reads have no
  deadline, and Tor may be silent.
- `FairSpec` of `ShellHook`: weak fairness of each process's steps and of the
  lock. Calls are bounded, so an flock cannot be taken over and over.
- `FairSpec` of `GuiServer`: strong fairness of each handler, because
  `sync.Mutex` hands itself over to a waiter of more than 1 ms, so a handler
  whose mutex is free again and again gets it; the same of a boot goroutine
  that resets the flag (`Booted`). Weak fairness of `Start`'s beginning and of the end
  of its select, which the 90 second timer brings. None of `VerifyListeners` and of
  `SignalNewnym`, which wait for Tor, and none of Tor's log, of callbacks or of
  requests.

## 5. Proofs

All are checked by TLAPS for every value of the constants that satisfies the
assumptions named in the modules (a free mutex's owner is no goroutine, the
pipe holds at least one line, `None` and `Torn` are not sessions, ...).

- `TorManager_proofs`. `IInv` is `TypeOK` with five parts: `LockDiscipline`
  (who is inside the critical section holds the mutex; a `Stop` that `Start`
  calls stays at its lock), `DirsInv` (the life of the directories, and what a
  `NewManager` that failed may leave), `StopInv`
  (a closed `stopChan` means a `Stop` at work or directories gone) and
  `BootInv` (what a waiting `Start` may rely on), `StartInv` (one `Start`
  is at work at a time; before it launches a Tor there is none, and when it
  returns an error there is none left). `DirsOutliveTor` alone is not
  inductive: that a spawned Tor has its directories needs to know that no
  `Stop` is between closing and removing, which is the mutex. Theorems:
  `Invariance`, and from it `TypeCorrect`, `DirsOutliveTorCorrect`,
  `StoppedIsCleanCorrect`, `StartSucceedsOnLiveManagerCorrect`, and
  `ContractIsKept`, the refinement of `ManagerContract`, with one case per step.
  Of the self-deadlock (section 6, item 1) they say how far it goes:
  `OnlyFailedStartsHangCorrect` (no other goroutine waits for a mutex it holds),
  `HangsForEverCorrect` (no step of anybody ends the wait) and
  `HungLeavesAllCorrect` (`stopChan` stays open, the directories stay). No
  `Stop` then kills a Tor that is still running.
- The second part of `TorManager_proofs` is about `ControlPort`.
  `ControlPortImplementsManager`: `VerifySucceeds` and
  `VerifyFails` are the two steps of `TorManager`, every other line read or
  written leaves its variables alone. `SocksIsAudited`, `NewnymIsObeyed` and
  `ReadsAreOwed` follow from `ControlInv`, which says for each point of a
  conversation (`InStep`) which lines may be unread there: that the line read
  after the SOCKS question is its first one holds because the answer to
  AUTHENTICATE is one line and was read, and that no read waits in vain although
  the DNS question is answered behind an older line.
- `TorSession_proofs`. `SessionImplementsManager`: each step of the session is a
  step of `TorManager` or leaves its variables alone, so `IInv` holds of
  sessions. `SessionTypeCorrect` is the session's type invariant.
  `CleanExitCorrect`, for all four commands, uses `IInv` with `ExitInv`: a goroutine
  that is about to exit never had a Manager (then it is `main`, with code 1), is in a
  `Stop` of its own, or finds one done.
- `NetNS_proofs`. `NetNSTypeCorrect`; `JudgedDeadCorrect` from `CollectorInv`
  (no recorded or read start time lies in the future, so a process that starts
  later under the same pid has another one); `UpIsFilteredCorrect` from
  `LockInv` (from `ip netns add` to `ip netns del` the holder of the name is
  the only one whose link and rules others' deletions could reach).
  `TeardownLeavesNothingCorrect` rests on `TeardownInv`: a process makes things
  only in its own name and only before its `Teardown`, so at each step of it
  (`Deleted`) what is gone stays gone, whatever other processes do; and who has
  not set `e.metaPath` has no record (`Unrecorded`), whole or torn. Recovery needs history:
  `HistoryInv` says that at most one process runs (`OneRuns`), that no session
  that was up is from the future, and that a process before its own session has
  read of another one (`Fresh`). On it stands `RecoveryInv`: for each step of a
  process (`Stage`) what exists and whose it is, and that the namespace is made
  first and deleted after its link and its table (`NetnsOutlives`).
  `UpIsIntact` is not inductive without it, because a session that is up could
  have come upon the table of a dead one; it did not, because its collector
  would have spared nobody (`NobodySpared`: a recorded session that lives would
  be the collector's own). From it `UpIsIntactCorrect`,
  `LeftoverIsRecordedCorrect`, `GCPrunesRecordedCorrect`. Last,
  `PrunesTheDeadAloneCorrect`: with one process at a time the property that
  `NetNS_livepruned` refutes holds, even when deletions fail, so its race is one
  of two processes; `OwnerInv` says that a collector's own namespace does not
  exist yet.
- `HookText_proofs` has the lemmas about the edits. A well-formed text is the
  user's pieces with at most one block between them; `Split` cuts it there.
  On such a text `Inject` installs exactly one block, `Strip` leaves none, both
  results are well-formed, and `EditsKeepUserText`: the user's pieces are the same,
  in the same order. `UserText` is defined by the positions of the user's pieces
  (`Nth`), not by a recursive filter, so that the proof compares positions instead
  of going through the text by induction; that there is a first position is
  `LeastExists`, without induction: if a set of positions had none, taking one
  off would map a finite set into itself one to one but not onto.
- `Settings_proofs`. `SettingsInv` has four parts beside the types: `SavesInv`
  (who is writing has a file before it, empty if nobody interfered; two at once
  are an accident), `JobInv` (what a server may be working on) and `HookInv` (the
  startup file is well-formed, and a hook command on its way to `Save` stands by
  what it edited). `CopyIsOnDisk` alone is not inductive: it needs that the
  write of an undisturbed save finds the file still empty, since a write over a
  longer text leaves its tail. From it, the types,
  `TornOnlyByAccidentCorrect`, `CopyIsOnDiskCorrect` and `HookCommandHealsCorrect`; from the lemmas about the edits and the
  well-formedness that `HookInv` keeps, `UserTextUntouchedCorrect` and
  `LastEditWinsCorrect`.
- `ShellHook_proofs` has three invariants, one on top of the other. `ShellInv` is
  `ShellHookTypeOK`, which contains mutual exclusion (`LockExcludes`), and `Staged`:
  what the process under the lock has read, backed up and prepared, step by step,
  is still what is on the disk. From it `ShellHookTypeCorrect`,
  `BackupsRetainedCorrect`, `ReplacedIsBackedUpCorrect`, and
  `EditsAreAtomicCorrect`: a rename puts there the edit of what is there at that
  moment, which is why `Settings` may take an edit as one step. `TextsInv` adds
  that every text on the disk or in hand is well-formed, backups and what
  crashes leave of them included; from it `FilesStayWellFormedCorrect` and
  `UserTextKeptCorrect`. `DoneInv` adds that the files a call has passed are
  edited, which needs the lock: nobody undoes it before the call returns; from it
  `SuccessIsCompleteCorrect`. Assumed are finitely many startup files and, for
  the texts and completeness, that they are well-formed to begin with
  (`WellFormedAssumption`); section 6 says what happens to others.
- `GuiServer_proofs`. `GuiInv` joins the types and the two properties
  `CurrentIsNotStopped` and `BootingHasCaller` with `HandlersInv` (a Manager made by
  a test is that test's alone, neither current nor stopped, until it is published;
  a stop waits for the current one) and `ManagersInv` (no Tor without a `Start`
  or after a `Stop`; no Manager whose `Start` is at work has been stopped).
  `CurrentIsNotStopped` alone is not inductive: a test publishes a Manager it has held
  since before the other requests. Theorems: `GuiTypeCorrect`,
  `CurrentIsNotStoppedCorrect`, `BootingHasCallerCorrect`, and
  `ManagersKeepContractCorrect`, where each step is one of `ManagerContract`'s for
  the Manager it is about and a stutter for the others.
- `Launcher` has its theorems at its end. `FilterIsTight` and `FilterIsGlobal`
  are about the filter alone, for every packet; `WrapperHoldsCorrect` uses `LaunchInv`, which says
  from which step on the namespace and the configuration exist.

The inductive invariants were checked by TLC on the instances of section 3
before they were proved; `IInv` is checked by its run still.

Only model-checked: `InterruptEndsSession`, `TorDeathEndsSession`,
`StoppedSessionEnds`, `BootingEnds`, `HangsOnlyBehindTor` and `CallsReturn`. They are liveness
properties under fairness, whose proofs need `ENABLED`, which the prover does
not reason about. That the six violations are reached is TLC's to show as well.

## 6. Where code and documents disagree

With a run that shows it:

1. `Start` calls `Stop` on its error paths with `m.mu` locked, and `Stop` locks
   it (`manager.go:158, 248, 252, 258, 365`): a bootstrap error, the timeout and
   a failed verification hang instead of returning the errors written there.
2. The kill switch stops Tor and exits; the target runs on (`main.go:350-353`),
   although the message says the process is stopped. `SECURITY.md:64-65`
   promises that the target's traffic is blocked when Tor fails.
3. A crash in `Setup` before the record is complete leaves a namespace no
   collection removes, and every later `Setup` fails on the name.
4. The collector's deletions come after its verdict with no lock: a session
   that starts in between is torn down.
5. A crash while a backup is written leaves a temporary file that counts as the
   newest backup; the restoration installs it. `RestoreLatestBackup` is reached by no
   command so far, only by the repository's tests.
6. The launcher prepares a command for the namespace and overwrites it, because
   the profile netns does not use proxychains (`launcher.go:60, 85-107`): the
   target runs on the host, as root, with only proxy variables. `README.md:77`
   and `SECURITY.md:30` promise that the kernel drops its direct traffic. The
   filter itself is tight for what does come from the namespace (`FilterIsTight`).

Without a run of their own:

- `Teardown` frees the namespace's name before it deletes `resolv.conf` and the
  record (`netns.go:351-364`), so it may delete those of the next session. That
  is why `UpIsFiltered` says nothing of the two, and the recovery properties are
  about one process at a time.
- Stray markers (`hook.go:239-259`): a start marker left alone takes the user's
  lines up to the next block with it; an end marker before the block
  makes every installation append one more. `README.md:96` promises that only
  the block is changed. `Settings` therefore starts from well-formed texts;
  that TuxProxy itself never makes others, across crashes and restorations, is
  `FilesStayWellFormedCorrect` of `ShellHook_proofs`. The properties of the text say
  nothing of files with stray markers.
- An edit the user saves between the read and the rename of an installation
  (`hook.go:342, 366`) is lost; the lock binds TuxProxy's processes only.
- `handleTest` says it starts Tor briefly for the check (`server.go:255`), and
  leaves it running as the current Manager. `daemon/start` answers
  "already_running" for a Tor that has died (361), and during a boot it replaces
  the Manager and loses the first one (374). `newnym` makes a temporary Manager,
  in the server (`server.go:327-331`) and on the command line (`main.go:579-585`), whose
  runtime directory nobody removes.
- `NewManager` may fail and leave a directory: its runtime directory when the checks
  of `createSecureRuntimeDir` fail (`manager.go:611-629`), the ephemeral data directory
  when `cleanupStaleSocket` does (129-132). `CleanExit` allows these, and no more.
- A Tor that neither answers nor dies hangs `Start` with `m.mu` held (270-299, 485)
  and a new identity (424-441), since no read has a deadline; once it is up, a wedged
  Tor ends no session.
- `pruneOldBackups` ignores removals that fail (`hook.go:164-171`) and counts what
  crashes have left, so there may be more than three backups, and fewer than three that
  are whole. `installHookToFile` takes any error of `Stat` for a missing file (360) and
  then replaces it without a backup.
- `VerifyListeners` reads one line per answer (`manager.go:280-299`), so the
  answer it takes for the DNS listener is the rest of the previous one, and the
  HTTP listener is not asked for; `SECURITY.md` (section 4, item 3) promises an
  audit of all three. `AuditSeesSocks` is what holds.
- The table's input and forward chains have `policy drop` for every interface
  (`netns.go:251, 260`; `FilterIsGlobal`): while a session is up the host's own
  traffic is dropped, Tor's included. `README.md:72` says Docker, KVM and VPN
  are not disturbed.
- `config.Save` writes in place (`config.go:169-176`): a crash, a full disk or
  two overlapping saves leave a file that no command loads any more, and the
  first-run save inside `Load` may overwrite what another process has saved.
- `config/reset` leaves the hook installed while the flag says it is not
  (`server.go:164-174`); a form saved after that does not remove it, since only
  a changed flag edits the startup files (150); `hook disable` does
  (`HookCommandHeals`). The page has no guard against requests in flight
  (`html.go:810-863`, 925-940, 977-988), so its checkbox may show an answer that was
  overtaken, and the next form carries it.
- The page's form has no field for `snowflake_url`, and `handleConfig` takes the
  missing value (`html.go:870-905`, `server.go:98`): saving the form erases it.
- A free port is looked for as TCP (`ports.go:10`), also for the DNS listener,
  which is UDP.

## 7. What is not modelled

- The bytes of the control protocol, the torrc, log wording, colours.
- `os.Exit` inside `open` skips the launcher's deferred `Teardown`: `Launcher`
  has it as `Exits`, `NetNS` as `Crash`. The modules are not composed; the only
  state they share is the life of the process.
- The texts of the environment, of Chromium's flags and of the proxychains
  configuration; the sorts of programs the launcher tells apart beyond those.
- The torrc builder: a text made once from a configuration, without state.
- The choice of ports: that a free port is taken before Tor binds it is a Tor
  that fails to start, a step of `TorManager`.
- The menu's dialogue, and the diagnosis it offers, which is a session like
  `test`. Telemetry of the page, `status` and the other requests that only read.
- Egress verification: its result is printed and decides nothing.
- A write of a temporary file that is cut off in its middle: it is one system
  call, so the file is empty or whole. (`Settings` does model a `config.json` that is
  written in part, because `os.WriteFile` empties it first.)
- Blank lines in startup files, which both edits normalise.
- Startup files that appear between the listing and the lock.
- Errors of `os.RemoveAll` in `Stop` (`manager.go:413, 417`), which the code ignores:
  "removed" means that the call was made.
- Errors other than a missing process in reading `/proc/<pid>/stat` (`netns.go:476-477`),
  which the collector takes for a dead process.
- What a page shows of the answers it gets: of a page only its requests matter, and
  they are unrestricted.

## 8. Plan

Done, in this order: `TorManager` and its proofs; `TorSession`, the refinement and
its proof; `NetNS` and its proofs; the hook; the web server; `ControlPort` and
its proofs; `ManagerContract`, implemented by `TorManager` and by `GuiServer`, both
proved; `Settings` and its proofs; `Launcher` and its proofs; the recovery of
`NetNS`; the text of the hook and `ShellHook`, proved.

Next theorems: that `ShellHook` implements an abstract editor of startup files
(each file changes by whole edits and restorations of backups), of which
`EditsAreAtomic` is the step; and that a session which has begun to exit keeps
its promise when the Manager hangs.

Next model: `TorSession` with the namespace's life of `Launcher` and `NetNS`, so
that the endings of a session and what they leave are one specification.

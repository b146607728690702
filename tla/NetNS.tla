-------------------------------- MODULE NetNS --------------------------------
(***************************************************************************)
(* The network namespaces of internal/leak/netns.go: Setup and Teardown of *)
(* a NetNSEngine and the garbage collector ReconcileOrphans, run by any    *)
(* number of tuxproxy processes on one machine.                            *)
(*                                                                         *)
(* The only caller of Setup, launcher.Launch, gives no SessionID, so every *)
(* process uses session "42": the same namespace, veth pair, nftables      *)
(* table, resolv.conf directory and metadata file, all known by name only. *)
(* The model records who created each of them; the code does not.          *)
(*                                                                         *)
(* A session is a pair <<pid, starttime>>.  The kernel reuses pids: a pid  *)
(* that is dead may start again, with a later starttime.                   *)
(***************************************************************************)
EXTENDS Naturals, FiniteSets

CONSTANTS
  Pids,          \* the pids tuxproxy processes run under
  MaxStarts,     \* how often a pid is reused: a bound for TLC
  Usages,        \* the ways tuxproxy may be used on the machine
  None,          \* the owner of what does not exist
  Torn           \* the content of a metadata file written in part

ASSUME MaxStartsAssumption == MaxStarts \in Nat
ASSUME UsagesAssumption    == Usages \subseteq {"any", "subcommands", "sequential"}

Sessions == Pids \X Nat

ASSUME NoneAssumption == None \notin Sessions /\ Torn \notin Sessions /\ None # Torn

VARIABLES
  usage,     \* "subcommands": no process collects, "sequential": one at a time
  pc,        \* the next step of the process with this pid, "dead" when there is none
  starts,    \* starttime of the latest process with this pid
  metaPath,  \* e.metaPath has been set by this process
  seen,      \* the metadata ReconcileOrphans has read
  netns,     \* the session that created the namespace, or None
  veth,      \* the session that created the veth pair, or None
  resolv,    \* the session that wrote /etc/netns/<name>/resolv.conf, or None
  table,     \* the sessions whose rules the nftables table holds; {}: no table
  meta,      \* session-42.json: a session, None or Torn
  tornBy,    \* the session that last began to write session-42.json (history)
  completed, \* the sessions whose Setup has returned nil (history)
  failed     \* a command that deletes something has failed (history)

locals    == <<usage, starts, metaPath, seen, tornBy, completed>>
netnsVars == <<locals, pc, netns, veth, resolv, table, meta, failed>>

GCPrune  == {"gc.table", "gc.veth", "gc.netns", "gc.resolv", "gc.meta"}
GCSteps  == {"gc.read", "gc.check"} \cup GCPrune
SetupRun == {"setup.veth", "setup.link", "setup.resolv", "setup.table",
             "setup.create", "setup.write"}
TdSteps  == {"td.table", "td.veth", "td.netns", "td.resolv", "td.meta"}
PCs      == {"dead", "setup.netns", "up"} \cup GCSteps \cup SetupRun \cup TdSteps

\* The session of the process that runs under pid p.
Me(p) == <<p, starts[p]>>

\* GetProcessStartTime(s.PID) succeeds and is the recorded one.
Alive(s) == pc[s[1]] # "dead" /\ starts[s[1]] = s[2]

Go(p, from, to) == pc[p] = from /\ pc' = [pc EXCEPT ![p] = to]

Init ==
  /\ usage \in Usages
  /\ pc = [p \in Pids |-> "dead"]
  /\ starts = [p \in Pids |-> 0]
  /\ metaPath = [p \in Pids |-> FALSE]
  /\ seen = [p \in Pids |-> None]
  /\ netns = None /\ veth = None /\ resolv = None /\ table = {} /\ meta = None
  /\ tornBy = None /\ completed = {} /\ failed = FALSE

-----------------------------------------------------------------------------
(***************************************************************************)
(* A process starts.  main collects orphans when it is called with flags   *)
(* (tuxproxy -n -o app) and never before a subcommand (tuxproxy open -n).  *)
(***************************************************************************)
AllDead == \A q \in Pids : pc[q] = "dead"

StartAt(p, first) ==
  /\ starts[p] < MaxStarts
  /\ Go(p, "dead", first)
  /\ starts' = [starts EXCEPT ![p] = @ + 1]
  /\ metaPath' = [metaPath EXCEPT ![p] = FALSE]
  /\ seen' = [seen EXCEPT ![p] = None]
  /\ UNCHANGED <<usage, netns, veth, resolv, table, meta, tornBy, completed, failed>>

StartWithFlags(p) ==
  /\ usage = "any" \/ (usage = "sequential" /\ AllDead)
  /\ StartAt(p, "gc.read")

StartWithSubcommand(p) ==
  /\ usage \in {"any", "subcommands"}
  /\ StartAt(p, "setup.netns")

(***************************************************************************)
(* A process dies between two steps: SIGKILL, a panic, or os.Exit in the   *)
(* signal goroutine of main, which skips the deferred Teardown of Launch.  *)
(***************************************************************************)
Crash(p) ==
  /\ pc[p] # "dead"
  /\ pc' = [pc EXCEPT ![p] = "dead"]
  /\ UNCHANGED <<locals, netns, veth, resolv, table, meta, failed>>

-----------------------------------------------------------------------------
(***************************************************************************)
(* Setup.  A name that is taken makes "ip netns add" fail, and Setup       *)
(* returns before its rollback is armed; every later failure rolls back.   *)
(***************************************************************************)
\* Mutant: a namespace that exists already is used as it is.
SetupNetnsReuses(p) ==
  /\ Go(p, "setup.netns", "setup.veth")
  /\ netns' = Me(p)
  /\ UNCHANGED <<locals, veth, resolv, table, meta, failed>>

SetupNetns(p) ==
  /\ netns = None
  /\ Go(p, "setup.netns", "setup.veth")
  /\ netns' = Me(p)
  /\ UNCHANGED <<locals, veth, resolv, table, meta, failed>>

\* A process without root, without the command, or with the name taken.
SetupNetnsFails(p) ==
  /\ Go(p, "setup.netns", "dead")
  /\ UNCHANGED <<locals, netns, veth, resolv, table, meta, failed>>

\* lo up, then the pair, whose name must be free.
SetupVeth(p) ==
  /\ veth = None
  /\ Go(p, "setup.veth", "setup.link")
  /\ veth' = Me(p)
  /\ UNCHANGED <<locals, netns, resolv, table, meta, failed>>

\* The app end into the namespace, addresses, links up, route and sysctls.
SetupLink(p) ==
  /\ Go(p, "setup.link", "setup.resolv")
  /\ UNCHANGED <<locals, netns, veth, resolv, table, meta, failed>>

\* MkdirAll and WriteFile: an existing directory or file is no error.
SetupResolv(p) ==
  /\ Go(p, "setup.resolv", "setup.table")
  /\ resolv' = Me(p)
  /\ UNCHANGED <<locals, netns, veth, table, meta, failed>>

\* "nft -f -" adds its rules to those of a table that exists.
SetupTable(p) ==
  /\ Go(p, "setup.table", "setup.create")
  /\ table' = table \cup {Me(p)}
  /\ UNCHANGED <<locals, netns, veth, resolv, meta, failed>>

\* Mutant: e.metaPath is set when the file has been written.
SetupCreateUnset(p) ==
  /\ Go(p, "setup.create", "setup.write")
  /\ meta' = Torn /\ tornBy' = Me(p)
  /\ UNCHANGED <<usage, starts, metaPath, seen, completed, netns, veth, resolv, table, failed>>

\* recordMetadata: e.metaPath is set, WriteFile truncates the file ...
SetupCreate(p) ==
  /\ Go(p, "setup.create", "setup.write")
  /\ metaPath' = [metaPath EXCEPT ![p] = TRUE]
  /\ meta' = Torn /\ tornBy' = Me(p)
  /\ UNCHANGED <<usage, starts, seen, completed, netns, veth, resolv, table, failed>>

\* ... or cannot open it ...
SetupCreateFails(p) ==
  /\ Go(p, "setup.create", "td.table")
  /\ metaPath' = [metaPath EXCEPT ![p] = TRUE]
  /\ UNCHANGED <<usage, starts, seen, tornBy, completed, netns, veth, resolv, table, meta, failed>>

\* ... and writes it.  Setup returns nil.
SetupWrite(p) ==
  /\ Go(p, "setup.write", "up")
  /\ meta' = Me(p)
  /\ completed' = completed \cup {Me(p)}
  /\ UNCHANGED <<usage, starts, metaPath, seen, tornBy, netns, veth, resolv, table, failed>>

SetupFails(p) ==
  /\ pc[p] \in SetupRun
  /\ pc' = [pc EXCEPT ![p] = "td.table"]
  /\ UNCHANGED <<locals, netns, veth, resolv, table, meta, failed>>

Setup(p) ==
  \/ SetupNetns(p) \/ SetupNetnsFails(p) \/ SetupVeth(p) \/ SetupLink(p)
  \/ SetupResolv(p) \/ SetupTable(p) \/ SetupCreate(p) \/ SetupCreateFails(p)
  \/ SetupWrite(p) \/ SetupFails(p)

-----------------------------------------------------------------------------
(***************************************************************************)
(* What Teardown and ReconcileOrphans delete, by name.  Neither of them    *)
(* stops at a command that fails.  The veth pair may go with the namespace *)
(* its app end is in.                                                      *)
(***************************************************************************)
Works == failed' = failed
Fails == failed' = TRUE

DeleteTable  == (table' = {} /\ Works)    \/ (table' = table /\ Fails)
DeleteVeth   == (veth' = None /\ Works)   \/ (veth' = veth /\ Fails)
DeleteNetns  == \/ netns' = None /\ veth' \in {veth, None} /\ Works
                \/ UNCHANGED <<netns, veth>> /\ Fails
DeleteResolv == (resolv' = None /\ Works) \/ (resolv' = resolv /\ Fails)
DeleteMeta   == (meta' = None /\ Works)   \/ (meta' = meta /\ Fails)

(***************************************************************************)
(* Teardown, when the target has ended, and the rollback of Setup.         *)
(***************************************************************************)
TargetEnded(p) ==
  /\ Go(p, "up", "td.table")
  /\ UNCHANGED <<locals, netns, veth, resolv, table, meta, failed>>

\* Mutant: a rollback deletes the rules only of a session that was recorded.
TdTableRecorded(p) ==
  /\ Go(p, "td.table", "td.veth")
  /\ IF metaPath[p] THEN DeleteTable ELSE UNCHANGED <<table, failed>>
  /\ UNCHANGED <<locals, netns, veth, resolv, meta>>

\* Mutant: Teardown removes the metadata first.
TdMetaFirst(p) ==
  /\ Go(p, "td.table", "td.veth")
  /\ DeleteTable
  /\ meta' = None
  /\ UNCHANGED <<locals, netns, veth, resolv>>

TdTable(p) ==
  /\ Go(p, "td.table", "td.veth")
  /\ DeleteTable
  /\ UNCHANGED <<locals, netns, veth, resolv, meta>>

TdVeth(p) ==
  /\ Go(p, "td.veth", "td.netns")
  /\ DeleteVeth
  /\ UNCHANGED <<locals, netns, resolv, table, meta>>

TdNetns(p) ==
  /\ Go(p, "td.netns", "td.resolv")
  /\ DeleteNetns
  /\ UNCHANGED <<locals, resolv, table, meta>>

TdResolv(p) ==
  /\ Go(p, "td.resolv", "td.meta")
  /\ DeleteResolv
  /\ UNCHANGED <<locals, netns, veth, table, meta>>

\* The engine knows of a metadata file only when it began to write one.
TdMeta(p) ==
  /\ Go(p, "td.meta", "dead")
  /\ IF metaPath[p] THEN DeleteMeta ELSE UNCHANGED <<meta, failed>>
  /\ UNCHANGED <<locals, netns, veth, resolv, table>>

Teardown(p) ==
  TargetEnded(p) \/ TdTable(p) \/ TdVeth(p) \/ TdNetns(p) \/ TdResolv(p) \/ TdMeta(p)

-----------------------------------------------------------------------------
(***************************************************************************)
(* ReconcileOrphans.  It takes no lock: the file is read, its process      *)
(* looked up and the names deleted one after the other.  main then runs    *)
(* its command: a session, or one that ends without Setup.                 *)
(***************************************************************************)
AfterGC(p, from) == \/ Go(p, from, "setup.netns")
                    \/ Go(p, from, "dead")

\* No file, or one that does not parse: nothing to prune.
GCSkips(p) ==
  /\ meta \in {None, Torn}
  /\ AfterGC(p, "gc.read")
  /\ UNCHANGED <<locals, netns, veth, resolv, table, meta, failed>>

\* Mutant: a file written in part is used as it is.
GCReadsTorn(p) ==
  /\ meta # None
  /\ Go(p, "gc.read", "gc.check")
  /\ seen' = [seen EXCEPT ![p] = meta]
  /\ UNCHANGED <<usage, starts, metaPath, tornBy, completed, netns, veth, resolv, table, meta, failed>>

GCReads(p) ==
  /\ meta \notin {None, Torn}
  /\ Go(p, "gc.read", "gc.check")
  /\ seen' = [seen EXCEPT ![p] = meta]
  /\ UNCHANGED <<usage, starts, metaPath, tornBy, completed, netns, veth, resolv, table, meta, failed>>

\* Mutant: a pid that exists is the recorded process, whatever its starttime.
GCSparesPid(p) ==
  /\ AfterGC(p, "gc.check")
  /\ pc[seen[p][1]] # "dead"
  /\ UNCHANGED <<locals, netns, veth, resolv, table, meta, failed>>

GCSpares(p) ==
  /\ AfterGC(p, "gc.check")
  /\ Alive(seen[p])
  /\ UNCHANGED <<locals, netns, veth, resolv, table, meta, failed>>

\* Mutant: a starttime that matches is taken for a mismatch.
GCCondemnsSame(p) ==
  /\ Go(p, "gc.check", "gc.table")
  /\ pc[seen[p][1]] = "dead" \/ starts[seen[p][1]] = seen[p][2]
  /\ UNCHANGED <<locals, netns, veth, resolv, table, meta, failed>>

\* The code takes an error reading /proc/<pid>/stat for a process that has died;
\* it can always be read of one that lives.
GCCondemns(p) ==
  /\ Go(p, "gc.check", "gc.table")
  /\ ~Alive(seen[p])
  /\ UNCHANGED <<locals, netns, veth, resolv, table, meta, failed>>

GCTable(p) ==
  /\ Go(p, "gc.table", "gc.veth")
  /\ DeleteTable
  /\ UNCHANGED <<locals, netns, veth, resolv, meta>>

GCVeth(p) ==
  /\ Go(p, "gc.veth", "gc.netns")
  /\ DeleteVeth
  /\ UNCHANGED <<locals, netns, resolv, table, meta>>

GCNetns(p) ==
  /\ Go(p, "gc.netns", "gc.resolv")
  /\ DeleteNetns
  /\ UNCHANGED <<locals, resolv, table, meta>>

GCResolv(p) ==
  /\ Go(p, "gc.resolv", "gc.meta")
  /\ DeleteResolv
  /\ UNCHANGED <<locals, netns, veth, table, meta>>

GCMeta(p) ==
  /\ AfterGC(p, "gc.meta")
  /\ DeleteMeta
  /\ UNCHANGED <<locals, netns, veth, resolv, table>>

ReconcileOrphans(p) ==
  \/ GCSkips(p) \/ GCReads(p) \/ GCSpares(p) \/ GCCondemns(p)
  \/ GCTable(p) \/ GCVeth(p) \/ GCNetns(p) \/ GCResolv(p) \/ GCMeta(p)

-----------------------------------------------------------------------------
Session(p) == Setup(p) \/ Teardown(p) \/ Crash(p)

Next == \E p \in Pids : StartWithFlags(p) \/ StartWithSubcommand(p)
                        \/ ReconcileOrphans(p) \/ Session(p)
Spec == Init /\ [][Next]_netnsVars

-----------------------------------------------------------------------------
(***************************************************************************)
(* Type invariant.                                                         *)
(***************************************************************************)
NetNSTypeOK ==
  /\ usage \in Usages
  /\ failed \in BOOLEAN
  /\ pc \in [Pids -> PCs]
  /\ starts \in [Pids -> Nat]
  /\ metaPath \in [Pids -> BOOLEAN]
  /\ seen \in [Pids -> Sessions \cup {None}]
  /\ \A p \in Pids : pc[p] \in GCSteps \ {"gc.read"} => seen[p] \in Sessions
  /\ netns \in Sessions \cup {None}
  /\ veth \in Sessions \cup {None}
  /\ resolv \in Sessions \cup {None}
  /\ table \subseteq Sessions
  /\ meta \in Sessions \cup {None, Torn}
  /\ tornBy \in Sessions \cup {None}
  /\ completed \subseteq Sessions

(***************************************************************************)
(* Without the collector, the name of the namespace is a lock: from "ip    *)
(* netns add" to "ip netns del" no other process, whatever it does or      *)
(* wherever it fails, takes away the namespace, the link or the firewall   *)
(* rules of a process whose session is up.                                 *)
(***************************************************************************)
UpIsFiltered ==
  usage = "subcommands" =>
    \A p \in Pids : pc[p] = "up" => netns = Me(p) /\ veth = Me(p) /\ Me(p) \in table

\* The inductive invariant behind it: who holds the namespace, from which step
\* on it has the link and the rules, and that nobody collects.
HoldingSteps == SetupRun \cup {"up", "td.table", "td.veth", "td.netns"}
Linked == {"setup.link", "setup.resolv", "setup.table", "setup.create", "setup.write", "up"}
Filtered == {"setup.create", "setup.write", "up"}
LockInv ==
  /\ NetNSTypeOK
  /\ usage = "subcommands" =>
       \A p \in Pids : /\ pc[p] \notin GCSteps
                       /\ pc[p] \in HoldingSteps => netns = Me(p)
                       /\ pc[p] \in Linked => veth = Me(p)
                       /\ pc[p] \in Filtered => Me(p) \in table

(***************************************************************************)
(* The collector never prunes on behalf of a process that runs: once it    *)
(* has judged a session dead, that session stays dead, although the pid    *)
(* may come back (starttime tells the two apart).                          *)
(***************************************************************************)
JudgedDead ==
  \A p \in Pids : pc[p] \in GCPrune => ~Alive(seen[p])

\* The inductive invariant of Spec: no recorded starttime is in the future.
Past(s) == s[2] <= starts[s[1]]
CollectorInv ==
  /\ NetNSTypeOK
  /\ JudgedDead
  /\ \A p \in Pids : seen[p] # None => Past(seen[p])
  /\ meta \in Sessions => Past(meta)

(***************************************************************************)
(* Crash recovery, one process after the other, as long as the commands    *)
(* that delete things work.                                                *)
(***************************************************************************)
Recovers == usage = "sequential" /\ ~failed

\* A session that is up has everything, alone, and is the one recorded.
UpIsIntact ==
  Recovers => \A p \in Pids : pc[p] = "up" =>
    netns = Me(p) /\ veth = Me(p) /\ resolv = Me(p) /\ table = {Me(p)} /\ meta = Me(p)

(***************************************************************************)
(* Whatever a session that was up leaves behind when its process dies, in  *)
(* the middle of Teardown too, its metadata is still there to find it by;  *)
(* and so it is when the collector dies in the middle of pruning.          *)
(***************************************************************************)
LeftoverIsRecorded ==
  Recovers => \A s \in completed : s \in {netns, veth, resolv} \cup table => meta = s

(***************************************************************************)
(* When the collector is done nothing recorded is left of a dead process:  *)
(* also when the dead process's pid is in use again.                       *)
(***************************************************************************)
CollectorDone(p) == pc[p] \in GCSteps /\ pc'[p] = "setup.netns"
GCPrunesRecorded ==
  [][\A p \in Pids : CollectorDone(p) /\ usage = "sequential" /\ ~failed' =>
       /\ meta' \in {None, Torn}
       /\ pc[p] = "gc.meta" => netns' = None /\ veth' = None /\ resolv' = None /\ table' = {}
    ]_netnsVars

(***************************************************************************)
(* A process that returns from Teardown, after its target or to roll back  *)
(* a Setup that failed, leaves nothing that it made: not its namespace,    *)
(* link, resolver or rules, and of its metadata neither the file nor the   *)
(* part of it that a failed write has left.  It holds when the commands of *)
(* Teardown work, whatever other processes do meanwhile.                   *)
(***************************************************************************)
IsLeft(s) == \/ s \in {netns, veth, resolv, meta} \cup table
             \/ meta = Torn /\ tornBy = s
TeardownLeavesNothing ==
  [][\A p \in Pids : TdMeta(p) /\ ~failed' => ~IsLeft(Me(p))']_netnsVars

-----------------------------------------------------------------------------
(***************************************************************************)
(* What the code says of itself and does not do.                           *)
(*                                                                         *)
(* ReconcileOrphans "prunes leaked netns, veth interfaces, and nftables    *)
(* tables from dead processes": when processes run one after the other all *)
(* but the one about to create its namespace are dead, and its collector   *)
(* has run.                                                                *)
(***************************************************************************)
GCPrunesOrphans == Recovers => \A p \in Pids : pc[p] = "setup.netns" => netns = None

(***************************************************************************)
(* It prunes them from dead processes only: a collector about to delete a  *)
(* namespace deletes the one of a process that has died.                   *)
(***************************************************************************)
GCPrunesOnlyTheDead ==
  \A p \in Pids : pc[p] = "gc.netns" /\ netns # None => ~Alive(netns)
=============================================================================

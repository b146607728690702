---------------------------- MODULE NetNS_proofs ----------------------------
(***************************************************************************)
(* Proofs about NetNS for every set of pids, every bound MaxStarts and     *)
(* every way of using tuxproxy.                                            *)
(***************************************************************************)
EXTENDS NetNS, TLAPS

\* The session of a running process is one.
LEMMA MeIsSession ==
  ASSUME NetNSTypeOK, NEW p \in Pids
  PROVE  Me(p) \in Sessions /\ Me(p) # None /\ Me(p) # Torn
BY NoneAssumption DEF NetNSTypeOK, Me, Sessions

\* Processes are told apart by their sessions.
LEMMA MeIsUnique ==
  ASSUME NEW p \in Pids, NEW q \in Pids, Me(p) = Me(q)
  PROVE  p = q
BY DEF Me

\* Before the first process starts.
LEMMA InitType == Init => NetNSTypeOK
<1>1. Init => failed \in BOOLEAN
      BY Zenon DEF Init
<1> QED BY <1>1 DEF Init, NetNSTypeOK, PCs, GCSteps, GCPrune

\* Every step of every process keeps the types.
LEMMA TypeStep == NetNSTypeOK /\ [Next]_netnsVars => NetNSTypeOK'
<1> SUFFICES ASSUME NetNSTypeOK, [Next]_netnsVars
             PROVE  NetNSTypeOK'
    OBVIOUS
<1> USE NoneAssumption
<1>1. CASE UNCHANGED netnsVars
      BY <1>1 DEF netnsVars, locals, NetNSTypeOK
<1>2. ASSUME NEW p \in Pids, StartWithFlags(p) \/ StartWithSubcommand(p) \/ Crash(p)
      PROVE  NetNSTypeOK'
  <2>1. pc' \in [Pids -> PCs] /\ starts' \in [Pids -> Nat]
        BY <1>2 DEF NetNSTypeOK, locals, StartWithFlags, StartWithSubcommand, StartAt, Crash, Go,
                    PCs, GCSteps
  <2>2. \A q \in Pids : pc'[q] \in GCSteps \ {"gc.read"} => seen'[q] \in Sessions
        BY <1>2 DEF NetNSTypeOK, locals, StartWithFlags, StartWithSubcommand, StartAt, Crash, Go,
                    PCs, GCSteps, GCPrune
  <2> QED BY <1>2, <2>1, <2>2
          DEF NetNSTypeOK, locals, StartWithFlags, StartWithSubcommand, StartAt, Crash
<1>3. ASSUME NEW p \in Pids, Setup(p) \/ Teardown(p)
      PROVE  NetNSTypeOK'
  <2>1. Me(p) \in Sessions
        BY MeIsSession
  <2>2. pc' \in [Pids -> PCs]
        BY <1>3 DEF NetNSTypeOK, PCs, SetupRun, TdSteps, Go, Setup, SetupNetns,
             SetupNetnsFails, SetupVeth, SetupLink, SetupResolv, SetupTable, SetupCreate, SetupCreateFails,
             SetupWrite, SetupFails, Teardown, TargetEnded, TdTable, TdVeth, TdNetns,
             TdResolv, TdMeta
  <2>3. \A q \in Pids : pc'[q] \in GCSteps => pc[q] = pc'[q]
        BY <1>3 DEF NetNSTypeOK, GCSteps, GCPrune, Go, Setup, SetupNetns,
             SetupNetnsFails, SetupVeth, SetupLink, SetupResolv, SetupTable, SetupCreate, SetupCreateFails,
             SetupWrite, SetupFails, Teardown, TargetEnded, TdTable, TdVeth, TdNetns,
             TdResolv, TdMeta
  <2>4. CASE Setup(p)
        BY <2>1, <2>2, <2>3, <2>4 DEF NetNSTypeOK, locals, Setup, SetupNetns,
             SetupNetnsFails, SetupVeth, SetupLink, SetupResolv, SetupTable, SetupCreate, SetupCreateFails,
             SetupWrite, SetupFails
  <2>5. CASE Teardown(p)
        BY <2>2, <2>3, <2>5 DEF NetNSTypeOK, locals, Teardown, TargetEnded, TdTable, TdVeth,
             TdNetns, TdResolv, TdMeta, DeleteTable, DeleteVeth, DeleteNetns, DeleteResolv,
             DeleteMeta, Works, Fails
  <2> QED BY <1>3, <2>4, <2>5
<1>4. ASSUME NEW p \in Pids, ReconcileOrphans(p)
      PROVE  NetNSTypeOK'
  <2>1. pc' \in [Pids -> PCs]
        BY <1>4 DEF NetNSTypeOK, PCs, GCSteps, GCPrune, Go, AfterGC, ReconcileOrphans, GCSkips,
             GCReads, GCSpares, GCCondemns, GCTable, GCVeth, GCNetns, GCResolv, GCMeta
  <2>2. seen' \in [Pids -> Sessions \cup {None}]
        BY <1>4 DEF NetNSTypeOK, locals, ReconcileOrphans, GCSkips,
             GCReads, GCSpares, GCCondemns, GCTable, GCVeth, GCNetns, GCResolv, GCMeta
  <2>3. \A q \in Pids : pc'[q] \in GCSteps \ {"gc.read"} => seen'[q] \in Sessions
        BY <1>4 DEF NetNSTypeOK, locals, GCSteps, GCPrune, Go, AfterGC, ReconcileOrphans, GCSkips,
             GCReads, GCSpares, GCCondemns, GCTable, GCVeth, GCNetns, GCResolv, GCMeta
  <2> QED BY <1>4, <2>1, <2>2, <2>3 DEF NetNSTypeOK, locals, ReconcileOrphans, GCSkips,
             GCReads, GCSpares, GCCondemns, GCTable, GCVeth, GCNetns, GCResolv, GCMeta,
             DeleteTable, DeleteVeth, DeleteNetns, DeleteResolv, DeleteMeta, Works, Fails
<1> QED BY <1>1, <1>2, <1>3, <1>4 DEF Next, Session

(***************************************************************************)
(* The types hold in every behaviour: for any number of processes that     *)
(* set up, tear down, collect and crash.                                   *)
(***************************************************************************)
THEOREM NetNSTypeCorrect == Spec => []NetNSTypeOK
BY InitType, TypeStep, PTL DEF Spec

-----------------------------------------------------------------------------
(***************************************************************************)
(* The collector.  A session that has been judged dead cannot come back,   *)
(* because a process that starts gets a starttime later than any recorded. *)
(***************************************************************************)
LEMMA CollectorStep == CollectorInv /\ [Next]_netnsVars => CollectorInv'
<1> SUFFICES ASSUME CollectorInv, [Next]_netnsVars
             PROVE  CollectorInv'
    OBVIOUS
<1> USE NoneAssumption
<1> NetNSTypeOK
    BY DEF CollectorInv
<1>0. NetNSTypeOK'
      BY TypeStep
<1>1. CASE UNCHANGED netnsVars
      BY <1>0, <1>1 DEF netnsVars, locals, CollectorInv, JudgedDead, Alive, Past
<1>2. ASSUME NEW p \in Pids, StartWithFlags(p) \/ StartWithSubcommand(p)
      PROVE  CollectorInv'
  <2>1. /\ starts' = [starts EXCEPT ![p] = @ + 1]
        /\ seen' = [seen EXCEPT ![p] = None]
        /\ meta' = meta
        /\ \A q \in Pids : q # p => pc'[q] = pc[q]
        /\ pc'[p] \notin GCPrune
        BY <1>2 DEF StartWithFlags, StartWithSubcommand, StartAt, Go, NetNSTypeOK, GCPrune
  <2>2. \A s \in Sessions : Past(s) => Past(s)'
        BY <2>1 DEF Past, Sessions, NetNSTypeOK
  <2>3. \A s \in Sessions : Past(s) /\ ~Alive(s) => ~Alive(s)'
        BY <2>1 DEF Past, Alive, Sessions, NetNSTypeOK
  <2>4. JudgedDead'
    <3> SUFFICES ASSUME NEW q \in Pids, pc'[q] \in GCPrune
                 PROVE  ~Alive(seen[q])'
        BY DEF JudgedDead
    <3>1. q # p /\ pc[q] \in GCPrune /\ seen'[q] = seen[q]
          BY <2>1 DEF NetNSTypeOK
    <3>2. seen[q] \in Sessions /\ Past(seen[q]) /\ ~Alive(seen[q])
          BY <3>1 DEF CollectorInv, JudgedDead, NetNSTypeOK, GCSteps, GCPrune
    <3> QED BY <3>1, <3>2, <2>3 DEF Alive
  <2>5. \A q \in Pids : seen'[q] # None => Past(seen[q])'
    <3> SUFFICES ASSUME NEW q \in Pids, seen'[q] # None
                 PROVE  Past(seen[q])'
        OBVIOUS
    <3>1. seen'[q] = seen[q] /\ seen[q] \in Sessions /\ Past(seen[q])
          BY <2>1 DEF CollectorInv, NetNSTypeOK
    <3> QED BY <3>1, <2>2 DEF Past
  <2>6. (meta \in Sessions => Past(meta))'
        BY <2>1, <2>2 DEF CollectorInv, Past, Sessions
  <2> QED BY <1>0, <2>4, <2>5, <2>6 DEF CollectorInv
<1>3. ASSUME NEW p \in Pids, Session(p)
      PROVE  CollectorInv'
  <2>1. starts' = starts /\ seen' = seen
        BY <1>3 DEF locals, Session, Crash, Setup, SetupNetns, SetupNetnsFails, SetupVeth,
             SetupLink, SetupResolv, SetupTable, SetupCreate, SetupCreateFails, SetupWrite, SetupFails, Teardown,
             TargetEnded, TdTable, TdVeth, TdNetns, TdResolv, TdMeta
  <2>2. \A q \in Pids : /\ pc'[q] # "dead" => pc[q] # "dead"
                        /\ pc'[q] \in GCPrune => pc[q] \in GCPrune
        BY <1>3 DEF NetNSTypeOK, GCPrune, SetupRun, Go, Session, Crash, Setup, SetupNetns,
             SetupNetnsFails, SetupVeth, SetupLink, SetupResolv, SetupTable, SetupCreate, SetupCreateFails,
             SetupWrite, SetupFails, Teardown, TargetEnded, TdTable, TdVeth, TdNetns, TdResolv,
             TdMeta
  <2>3. meta' \in {meta, None, Torn, Me(p)}
        BY <1>3 DEF Session, Crash, Setup, SetupNetns, SetupNetnsFails, SetupVeth,
             SetupLink, SetupResolv, SetupTable, SetupCreate, SetupCreateFails, SetupWrite, SetupFails, Teardown,
             TargetEnded, TdTable, TdVeth, TdNetns, TdResolv, TdMeta, DeleteMeta
  <2>4. Past(Me(p))
        BY DEF Past, Me, NetNSTypeOK
  <2>5. JudgedDead'
    <3> SUFFICES ASSUME NEW q \in Pids, pc'[q] \in GCPrune
                 PROVE  ~Alive(seen[q])'
        BY DEF JudgedDead
    <3>1. ~Alive(seen[q]) /\ seen[q][1] \in Pids
          BY <2>2 DEF CollectorInv, JudgedDead, NetNSTypeOK, GCSteps, GCPrune, Sessions
    <3> QED BY <3>1, <2>1, <2>2 DEF Alive
  <2>6. \A q \in Pids : seen'[q] # None => Past(seen[q])'
        BY <2>1 DEF CollectorInv, Past
  <2>7. (meta \in Sessions => Past(meta))'
        BY <2>1, <2>3, <2>4 DEF CollectorInv, Past, Sessions
  <2> QED BY <1>0, <2>5, <2>6, <2>7 DEF CollectorInv
<1>4. ASSUME NEW p \in Pids, ReconcileOrphans(p)
      PROVE  CollectorInv'
  <2>1. starts' = starts
        BY <1>4 DEF locals, ReconcileOrphans, GCSkips, GCReads, GCSpares, GCCondemns, GCTable,
             GCVeth, GCNetns, GCResolv, GCMeta
  <2>2. \A q \in Pids : /\ pc'[q] # "dead" => pc[q] # "dead"
                        /\ pc'[q] \in GCPrune /\ pc[q] \notin GCPrune => ~Alive(seen[q])
        BY <1>4 DEF NetNSTypeOK, GCPrune, Go, AfterGC, ReconcileOrphans, GCSkips, GCReads,
             GCSpares, GCCondemns, GCTable, GCVeth, GCNetns, GCResolv, GCMeta
  <2>3. \A q \in Pids : pc'[q] \in GCPrune => seen'[q] = seen[q]
        BY <1>4 DEF NetNSTypeOK, locals, GCPrune, Go, ReconcileOrphans, GCSkips, GCReads,
             GCSpares, GCCondemns, GCTable, GCVeth, GCNetns, GCResolv, GCMeta
  <2>4. \A q \in Pids : seen'[q] \in {seen[q], meta} /\ (seen'[q] # seen[q] => meta \in Sessions)
        BY <1>4 DEF NetNSTypeOK, locals, ReconcileOrphans, GCSkips, GCReads,
             GCSpares, GCCondemns, GCTable, GCVeth, GCNetns, GCResolv, GCMeta
  <2>5. meta' \in {meta, None}
        BY <1>4 DEF ReconcileOrphans, GCSkips, GCReads, GCSpares, GCCondemns, GCTable, GCVeth,
             GCNetns, GCResolv, GCMeta, DeleteMeta
  <2>6. JudgedDead'
    <3> SUFFICES ASSUME NEW q \in Pids, pc'[q] \in GCPrune
                 PROVE  ~Alive(seen[q])'
        BY DEF JudgedDead
    <3>1. ~Alive(seen[q])
          BY <2>2 DEF CollectorInv, JudgedDead
    <3>2. seen'[q] = seen[q] /\ seen[q][1] \in Pids
          BY <1>0, <2>3 DEF NetNSTypeOK, GCSteps, GCPrune, Sessions
    <3> QED BY <3>1, <3>2, <2>1, <2>2 DEF Alive
  <2>7. \A q \in Pids : seen'[q] # None => Past(seen[q])'
        BY <2>1, <2>4 DEF CollectorInv, Past
  <2>8. (meta \in Sessions => Past(meta))'
        BY <2>1, <2>5 DEF CollectorInv, Past, Sessions
  <2> QED BY <1>0, <2>6, <2>7, <2>8 DEF CollectorInv
<1> QED BY <1>1, <1>2, <1>3, <1>4 DEF Next, Session

(***************************************************************************)
(* ReconcileOrphans never prunes on behalf of a process that runs, however *)
(* often pids are reused and whatever other collectors and sessions do     *)
(* between its steps.                                                      *)
(***************************************************************************)
THEOREM JudgedDeadCorrect == Spec => []JudgedDead
<1>1. Init => CollectorInv
      BY InitType, NoneAssumption DEF Init, CollectorInv, JudgedDead, GCPrune
<1>2. CollectorInv => JudgedDead
      BY DEF CollectorInv
<1> QED BY <1>1, <1>2, CollectorStep, PTL DEF Spec

-----------------------------------------------------------------------------
(***************************************************************************)
(* The lock.                                                               *)
(***************************************************************************)
LEMMA UsageStays == [Next]_netnsVars => usage' = usage
<1> SUFFICES ASSUME [Next]_netnsVars
             PROVE  usage' = usage
    OBVIOUS
<1>1. CASE UNCHANGED netnsVars
      BY <1>1 DEF netnsVars, locals
<1>2. ASSUME NEW p \in Pids, StartWithFlags(p) \/ StartWithSubcommand(p) \/ Session(p)
      PROVE  usage' = usage
      BY <1>2 DEF locals, StartWithFlags, StartWithSubcommand, StartAt, Session, Crash, Setup,
         SetupNetns, SetupNetnsFails, SetupVeth, SetupLink, SetupResolv, SetupTable, SetupCreate, SetupCreateFails,
         SetupWrite, SetupFails, Teardown, TargetEnded, TdTable, TdVeth, TdNetns, TdResolv, TdMeta
<1>3. ASSUME NEW p \in Pids, ReconcileOrphans(p)
      PROVE  usage' = usage
      BY <1>3 DEF locals, ReconcileOrphans, GCSkips, GCReads, GCSpares, GCCondemns, GCTable,
         GCVeth, GCNetns, GCResolv, GCMeta
<1> QED BY <1>1, <1>2, <1>3 DEF Next

LEMMA LockStep == LockInv /\ [Next]_netnsVars => LockInv'
<1> SUFFICES ASSUME LockInv, [Next]_netnsVars, usage = "subcommands"
             PROVE  LockInv'
    BY TypeStep, UsageStays DEF LockInv
<1> NetNSTypeOK
    BY DEF LockInv
<1>0. NetNSTypeOK' /\ usage' = usage
      BY TypeStep, UsageStays
<1> DEFINE Holds(p)     == pc[p] \in HoldingSteps => netns = Me(p)
           HasLink(p)   == pc[p] \in Linked => veth = Me(p)
           HasRules(p)  == pc[p] \in Filtered => Me(p) \in table
           Kept(p)      == pc[p] \notin GCSteps /\ Holds(p) /\ HasLink(p) /\ HasRules(p)
<1>1. \A q \in Pids : Kept(q)
      BY DEF LockInv
<1>2. SUFFICES ASSUME NEW q \in Pids
               PROVE  Kept(q)'
      BY <1>0 DEF LockInv
<1>3. CASE UNCHANGED netnsVars
      BY <1>1, <1>3 DEF netnsVars, locals, Me
<1>4. ASSUME NEW p \in Pids, StartWithFlags(p) \/ StartWithSubcommand(p)
      PROVE  Kept(q)'
  <2>1. CASE p = q
        BY <1>4, <2>1 DEF StartWithFlags, StartWithSubcommand, StartAt, Go, NetNSTypeOK,
             GCSteps, GCPrune, HoldingSteps, SetupRun, Linked, Filtered
  <2>2. CASE p # q
        BY <1>1, <1>4, <2>2 DEF StartWithFlags, StartWithSubcommand, StartAt, Go, NetNSTypeOK, Me
  <2> QED BY <2>1, <2>2
<1>5. ASSUME NEW p \in Pids, Crash(p)
      PROVE  Kept(q)'
      BY <1>1, <1>5 DEF Crash, locals, NetNSTypeOK, Me, GCSteps, GCPrune,
         HoldingSteps, SetupRun, Linked, Filtered
<1>6. ASSUME NEW p \in Pids, Setup(p) \/ Teardown(p)
      PROVE  Kept(q)'
  <2>1. starts' = starts
        BY <1>6 DEF locals, Setup, SetupNetns, SetupNetnsFails, SetupVeth,
             SetupLink, SetupResolv, SetupTable, SetupCreate, SetupCreateFails, SetupWrite, SetupFails, Teardown,
             TargetEnded, TdTable, TdVeth, TdNetns, TdResolv, TdMeta
  <2>2. Me(q)' = Me(q) /\ Me(q) # None
        BY <2>1, MeIsSession DEF Me
  \* The step of q itself.
  <2>3. CASE p = q
    <3>1. CASE Setup(p)
          BY <1>1, <1>6, <2>2, <2>3, <3>1
             DEF Setup, SetupNetns, SetupNetnsFails, SetupVeth, SetupLink,
             SetupResolv, SetupTable, SetupCreate, SetupCreateFails, SetupWrite, SetupFails, Go, NetNSTypeOK,
             GCSteps, GCPrune, HoldingSteps, SetupRun, Linked, Filtered
    <3>2. CASE Teardown(p)
          BY <1>1, <1>6, <2>2, <2>3, <3>2
             DEF Teardown, TargetEnded, TdTable, TdVeth, TdNetns, TdResolv, TdMeta, DeleteNetns,
             DeleteVeth, DeleteTable, Go, NetNSTypeOK, GCSteps, GCPrune, HoldingSteps,
             SetupRun, Linked, Filtered
    <3> QED BY <1>6, <3>1, <3>2
  \* The step of another process while q holds the namespace: p does not.
  <2>4. CASE p # q
    <3>1. pc'[q] = pc[q]
          BY <1>6, <2>4 DEF NetNSTypeOK, Go, Setup, SetupNetns,
             SetupNetnsFails, SetupVeth, SetupLink, SetupResolv, SetupTable, SetupCreate, SetupCreateFails,
             SetupWrite, SetupFails, Teardown, TargetEnded, TdTable, TdVeth, TdNetns, TdResolv,
             TdMeta
    <3>2. CASE pc[q] \notin HoldingSteps
          BY <1>1, <3>1, <3>2 DEF HoldingSteps, SetupRun, Linked, Filtered
    <3>3. CASE pc[q] \in HoldingSteps
      <4>1. netns = Me(q)
            BY <1>1, <3>3
      <4>2. netns # None /\ pc[p] \notin HoldingSteps
            BY <1>1, <2>2, <2>4, <4>1, MeIsUnique
      <4>3. UNCHANGED <<netns, veth, table>>
            BY <1>6, <4>2 DEF Go, HoldingSteps, SetupRun, Setup, SetupNetns,
             SetupNetnsFails, SetupVeth, SetupLink, SetupResolv, SetupTable, SetupCreate, SetupCreateFails,
             SetupWrite, SetupFails, Teardown, TargetEnded, TdTable, TdVeth, TdNetns, TdResolv,
             TdMeta
      <4> QED BY <1>1, <2>2, <3>1, <4>3
    <3> QED BY <3>2, <3>3
  <2> QED BY <2>3, <2>4
\* Nobody collects.
<1>7. ASSUME NEW p \in Pids, ReconcileOrphans(p)
      PROVE  FALSE
      BY <1>1, <1>7 DEF Go, AfterGC, GCSteps, GCPrune, ReconcileOrphans, GCSkips, GCReads,
         GCSpares, GCCondemns, GCTable, GCVeth, GCNetns, GCResolv, GCMeta
<1> QED BY <1>3, <1>4, <1>5, <1>6, <1>7 DEF Next, Session

(***************************************************************************)
(* Without the collector a session that is up keeps its namespace, its     *)
(* link and its firewall rules, whatever other processes do.               *)
(***************************************************************************)
THEOREM UpIsFilteredCorrect == Spec => []UpIsFiltered
<1>1. Init => LockInv
      BY InitType DEF Init, LockInv, GCSteps, GCPrune, HoldingSteps, SetupRun, Linked, Filtered
<1>2. LockInv => UpIsFiltered
      BY DEF LockInv, UpIsFiltered, HoldingSteps, Linked, Filtered
<1> QED BY <1>1, <1>2, LockStep, PTL DEF Spec

-----------------------------------------------------------------------------
(***************************************************************************)
(* Teardown.  What a process has deleted by name it does not make again,   *)
(* and no other process makes anything in its name: the four moments of a  *)
(* Teardown, each with what is gone by then.                               *)
(***************************************************************************)
Deleted(p) ==
  /\ pc[p] \in {"td.veth", "td.netns", "td.resolv", "td.meta"} => Me(p) \notin table
  /\ pc[p] \in {"td.netns", "td.resolv", "td.meta"} => Me(p) # veth
  /\ pc[p] \in {"td.resolv", "td.meta"} => Me(p) # netns
  /\ pc[p] = "td.meta" => Me(p) # resolv

\* A process that has not set e.metaPath has no metadata file and no part of one.
Unrecorded(p) ==
  /\ ~metaPath[p] => meta # Me(p) /\ tornBy # Me(p)
  /\ pc[p] = "setup.write" => metaPath[p]

TeardownInv ==
  /\ CollectorInv
  /\ tornBy # None => Past(tornBy)
  /\ \A p \in Pids : Unrecorded(p)
  /\ ~failed => \A p \in Pids : Deleted(p)

\* What a step leaves alone: a process that starts ...
LEMMA StartFrame ==
  ASSUME NetNSTypeOK, NEW p \in Pids, StartWithFlags(p) \/ StartWithSubcommand(p)
  PROVE  /\ UNCHANGED <<netns, veth, resolv, table, meta, tornBy, completed, failed>>
         /\ starts' = [starts EXCEPT ![p] = @ + 1]
         /\ metaPath' = [metaPath EXCEPT ![p] = FALSE]
         /\ seen' = [seen EXCEPT ![p] = None]
         /\ Me(p)' = <<p, starts[p] + 1>>
         /\ pc[p] = "dead" /\ pc'[p] \in {"gc.read", "setup.netns"}
         /\ \A q \in Pids : q # p => pc'[q] = pc[q] /\ Me(q)' = Me(q)
BY DEF StartWithFlags, StartWithSubcommand, StartAt, Go, Me, NetNSTypeOK

\* ... a process in its session ...
LEMMA SessionFrame ==
  ASSUME NetNSTypeOK, NEW p \in Pids, Session(p)
  PROVE  /\ UNCHANGED <<starts, seen>>
         /\ tornBy' \in {tornBy, Me(p)}
         /\ \A q \in Pids : Me(q)' = Me(q)
         /\ \A q \in Pids \ {p} : pc'[q] = pc[q] /\ metaPath'[q] = metaPath[q]
BY DEF locals, Me, NetNSTypeOK, Go, Session, Crash, Setup, SetupNetns, SetupNetnsFails, SetupVeth,
       SetupLink, SetupResolv, SetupTable, SetupCreate, SetupCreateFails, SetupWrite, SetupFails, Teardown,
       TargetEnded, TdTable, TdVeth, TdNetns, TdResolv, TdMeta

\* ... and a process that collects, which makes nothing.
LEMMA CollectorFrame ==
  ASSUME NetNSTypeOK, NEW p \in Pids, ReconcileOrphans(p)
  PROVE  /\ UNCHANGED <<starts, metaPath, tornBy, completed>>
         /\ \A q \in Pids : Me(q)' = Me(q)
         /\ \A q \in Pids \ {p} : pc'[q] = pc[q] /\ seen'[q] = seen[q]
         /\ pc[p] \in GCSteps /\ pc'[p] \in GCSteps \cup {"setup.netns", "dead"}
         /\ netns' \in {netns, None} /\ veth' \in {veth, None} /\ resolv' \in {resolv, None}
         /\ table' \subseteq table /\ meta' \in {meta, None}
BY DEF locals, Me, NetNSTypeOK, Go, AfterGC, GCSteps, GCPrune, ReconcileOrphans, GCSkips,
       GCReads, GCSpares, GCCondemns, GCTable, GCVeth, GCNetns, GCResolv, GCMeta, DeleteTable,
       DeleteVeth, DeleteNetns, DeleteResolv, DeleteMeta

\* A command that has failed is not forgotten.
LEMMA FailedStays == NetNSTypeOK /\ [Next]_netnsVars /\ ~failed' => ~failed
<1> SUFFICES ASSUME NetNSTypeOK, [Next]_netnsVars, ~failed'
             PROVE  ~failed
    OBVIOUS
<1>1. CASE UNCHANGED netnsVars
      BY <1>1 DEF netnsVars
<1>2. ASSUME NEW p \in Pids, StartWithFlags(p) \/ StartWithSubcommand(p) \/ Session(p)
      PROVE  failed' = failed \/ failed' = TRUE
      BY <1>2 DEF StartWithFlags, StartWithSubcommand, StartAt, Session, Crash, Setup,
         SetupNetns, SetupNetnsFails, SetupVeth, SetupLink, SetupResolv, SetupTable, SetupCreate, SetupCreateFails,
         SetupWrite, SetupFails, Teardown, TargetEnded, TdTable, TdVeth, TdNetns, TdResolv, TdMeta,
         DeleteTable, DeleteVeth, DeleteNetns, DeleteResolv, DeleteMeta, Works, Fails
<1>3. ASSUME NEW p \in Pids, ReconcileOrphans(p)
      PROVE  failed' = failed \/ failed' = TRUE
      BY <1>3 DEF locals, ReconcileOrphans, GCSkips, GCReads, GCSpares, GCCondemns, GCTable,
         GCVeth, GCNetns, GCResolv, GCMeta, DeleteTable, DeleteVeth, DeleteNetns, DeleteResolv,
         DeleteMeta, Works, Fails
<1> QED BY <1>1, <1>2, <1>3 DEF Next

LEMMA TeardownStep == TeardownInv /\ [Next]_netnsVars => TeardownInv'
<1> SUFFICES ASSUME TeardownInv, [Next]_netnsVars
             PROVE  TeardownInv'
    OBVIOUS
<1> USE NoneAssumption
<1> CollectorInv /\ NetNSTypeOK
    BY DEF TeardownInv, CollectorInv
<1>1. CollectorInv' /\ NetNSTypeOK'
      BY CollectorStep, TypeStep
<1>0. (tornBy # None => Past(tornBy))'
  <2>1. tornBy = None \/ (tornBy \in Sessions /\ Past(tornBy))
        BY DEF TeardownInv, NetNSTypeOK
  <2>2. CASE UNCHANGED netnsVars
        BY <2>1, <2>2 DEF netnsVars, locals, Past
  <2>3. ASSUME NEW p \in Pids, StartWithFlags(p) \/ StartWithSubcommand(p)
        PROVE  tornBy' = None \/ Past(tornBy)'
    <3>1. tornBy' = tornBy /\ starts' = [starts EXCEPT ![p] = @ + 1]
          BY <2>3, StartFrame
    <3> QED BY <2>1, <3>1 DEF Past, NetNSTypeOK, Sessions
  <2>4. ASSUME NEW p \in Pids, Session(p)
        PROVE  tornBy' = None \/ Past(tornBy)'
    <3>1. starts' = starts /\ (tornBy' = tornBy \/ tornBy' = Me(p))
          BY <2>4, SessionFrame
    <3> QED BY <2>1, <3>1 DEF Past, Me, NetNSTypeOK
  <2>5. ASSUME NEW p \in Pids, ReconcileOrphans(p)
        PROVE  tornBy' = None \/ Past(tornBy)'
        BY <2>1, <2>5, CollectorFrame DEF Past
  <2> QED BY <2>2, <2>3, <2>4, <2>5 DEF Next
<1>2. SUFFICES ASSUME NEW q \in Pids
               PROVE  Unrecorded(q)' /\ (~failed' => Deleted(q)')
      BY <1>0, <1>1 DEF TeardownInv
<1>3. Unrecorded(q) /\ (~failed' => Deleted(q)) /\ Me(q) \in Sessions
      BY FailedStays, MeIsSession DEF TeardownInv
<1>4. CASE UNCHANGED netnsVars
      BY <1>3, <1>4 DEF netnsVars, locals, Unrecorded, Deleted, Me
<1>5. ASSUME NEW p \in Pids, StartWithFlags(p) \/ StartWithSubcommand(p)
      PROVE  Unrecorded(q)' /\ (~failed' => Deleted(q)')
  <2>1. CASE q = p
    \* No metadata is from the future.
    <3>1. meta # <<p, starts[p] + 1>> /\ tornBy # <<p, starts[p] + 1>>
          BY DEF TeardownInv, CollectorInv, Past, NetNSTypeOK, Sessions
    <3> QED BY <1>5, <2>1, <3>1, StartFrame DEF Unrecorded, Deleted, NetNSTypeOK
  <2>2. CASE q # p
        BY <1>3, <1>5, <2>2, StartFrame DEF Unrecorded, Deleted, NetNSTypeOK
  <2> QED BY <2>1, <2>2
<1>6. ASSUME NEW p \in Pids, Session(p)
      PROVE  Unrecorded(q)' /\ (~failed' => Deleted(q)')
  <2>1. Me(q)' = Me(q)
        BY <1>6, SessionFrame
  <2>2. CASE q = p
    <3>1. CASE Crash(p)
          BY <1>3, <2>1, <2>2, <3>1 DEF Crash, locals, NetNSTypeOK, Unrecorded, Deleted
    <3>2. CASE Setup(p)
      <4>1. Unrecorded(q)'
            BY <1>3, <2>1, <2>2, <3>2 DEF Unrecorded, locals, NetNSTypeOK, Go, SetupRun, Setup,
               SetupNetns, SetupNetnsFails, SetupVeth, SetupLink, SetupResolv, SetupTable,
               SetupCreate, SetupCreateFails, SetupWrite, SetupFails
      <4>2. pc'[p] \notin {"td.veth", "td.netns", "td.resolv", "td.meta"}
            BY <3>2 DEF NetNSTypeOK, Go, SetupRun, Setup, SetupNetns, SetupNetnsFails, SetupVeth,
               SetupLink, SetupResolv, SetupTable, SetupCreate, SetupCreateFails, SetupWrite, SetupFails
      <4> QED BY <4>1, <4>2, <2>2 DEF Deleted
    <3>3. CASE Teardown(p)
      <4>1. Unrecorded(q)'
            BY <1>3, <2>1, <2>2, <3>3 DEF Unrecorded, locals, NetNSTypeOK, Go, Teardown,
               TargetEnded, TdTable, TdVeth, TdNetns, TdResolv, TdMeta, DeleteMeta
      <4>2. ASSUME ~failed'
            PROVE  Deleted(q)'
            BY <1>3, <2>1, <2>2, <3>3, <4>2 DEF Deleted, NetNSTypeOK, Go, Teardown,
               TargetEnded, TdTable, TdVeth, TdNetns, TdResolv, TdMeta, DeleteTable, DeleteVeth,
               DeleteNetns, DeleteResolv, Fails
      <4> QED BY <4>1, <4>2
    <3> QED BY <1>6, <3>1, <3>2, <3>3 DEF Session
  <2>3. CASE q # p
    <3>1. Me(q) # Me(p) /\ pc'[q] = pc[q] /\ metaPath'[q] = metaPath[q]
          BY <1>6, <2>3, MeIsUnique, SessionFrame
    <3>2. /\ netns' \in {netns, None, Me(p)} /\ veth' \in {veth, None, Me(p)}
          /\ resolv' \in {resolv, None, Me(p)} /\ table' \subseteq table \cup {Me(p)}
          /\ meta' \in {meta, None, Torn, Me(p)}
          BY <1>6 DEF Session, Crash, Setup, SetupNetns, SetupNetnsFails, SetupVeth,
             SetupLink, SetupResolv, SetupTable, SetupCreate, SetupCreateFails, SetupWrite, SetupFails, Teardown,
             TargetEnded, TdTable, TdVeth, TdNetns, TdResolv, TdMeta, DeleteTable, DeleteVeth,
             DeleteNetns, DeleteResolv, DeleteMeta
    <3>3. tornBy' \in {tornBy, Me(p)}
          BY <1>6, SessionFrame
    <3> QED BY <1>3, <2>1, <3>1, <3>2, <3>3, MeIsSession DEF Unrecorded, Deleted
  <2> QED BY <2>2, <2>3
<1>7. ASSUME NEW p \in Pids, ReconcileOrphans(p)
      PROVE  Unrecorded(q)' /\ (~failed' => Deleted(q)')
  <2>1. CASE q = p
        BY <1>3, <1>7, <2>1, CollectorFrame, MeIsSession DEF Unrecorded, Deleted, GCSteps, GCPrune
  <2>2. CASE q # p
        BY <1>3, <1>7, <2>2, CollectorFrame, MeIsSession DEF Unrecorded, Deleted
  <2> QED BY <2>1, <2>2
<1> QED BY <1>4, <1>5, <1>6, <1>7 DEF Next

(***************************************************************************)
(* A process that returns from Teardown leaves nothing that it made, as    *)
(* long as the commands work, for any number of processes that set up,     *)
(* collect and crash meanwhile.                                            *)
(***************************************************************************)
THEOREM TeardownLeavesNothingCorrect == Spec => TeardownLeavesNothing
<1>1. Init => TeardownInv
  <2> SUFFICES ASSUME Init
               PROVE  TeardownInv
      OBVIOUS
  <2>1. CollectorInv /\ NetNSTypeOK
        BY InitType, NoneAssumption DEF Init, CollectorInv, JudgedDead, GCPrune
  <2> QED BY <2>1, MeIsSession DEF Init, TeardownInv, Unrecorded, Deleted
<1>2. TeardownInv /\ [Next]_netnsVars =>
        [\A p \in Pids : TdMeta(p) /\ ~failed' => ~IsLeft(Me(p))']_netnsVars
  <2> SUFFICES ASSUME TeardownInv, [Next]_netnsVars, NEW p \in Pids, TdMeta(p), ~failed'
               PROVE  ~IsLeft(Me(p))'
      OBVIOUS
  <2> NetNSTypeOK
      BY DEF TeardownInv, CollectorInv
  <2>1. Unrecorded(p) /\ Deleted(p) /\ pc[p] = "td.meta"
        BY FailedStays DEF TeardownInv, TdMeta, Go
  <2>2. Me(p)' = Me(p) /\ UNCHANGED <<netns, veth, resolv, table, tornBy, metaPath>>
        BY DEF TdMeta, locals, Me
  \* The engine knows of its file and has deleted it, or never began one.
  <2>3. \/ meta' = None
        \/ meta' = meta /\ ~metaPath[p]
        BY DEF TdMeta, DeleteMeta, Fails
  <2> QED BY <2>1, <2>2, <2>3, MeIsSession, NoneAssumption DEF IsLeft, Unrecorded, Deleted
<1> QED BY <1>1, <1>2, TeardownStep, PTL DEF Spec, TeardownLeavesNothing

-----------------------------------------------------------------------------
(***************************************************************************)
(* Crash recovery.  Of processes that run one after the other at most one  *)
(* is not dead.                                                            *)
(***************************************************************************)
OneRuns ==
  usage = "sequential" =>
    \A p, q \in Pids : pc[p] # "dead" /\ pc[q] # "dead" => p = q

\* A process that collects or sets up has not been up, has written no metadata
\* and judges another session than its own.
BeforeUp == GCSteps \cup {"setup.netns"} \cup SetupRun
Fresh(p) ==
  /\ pc[p] \in BeforeUp => Me(p) \notin completed
  /\ pc[p] \in BeforeUp \ {"setup.write"} => ~metaPath[p]
  /\ pc[p] \in GCSteps => seen[p] # Me(p)

\* The order in which Setup makes things and Teardown and the collector delete
\* them: what a process has of its own, and what is gone, at each of its steps.
Stage(p) ==
  /\ pc[p] \in {"setup.netns"} \cup SetupRun => meta \in {None, Torn}
  /\ pc[p] \in SetupRun \cup {"up"} => netns = Me(p)
  /\ pc[p] = "setup.veth" => veth = None
  /\ pc[p] \in Linked => veth = Me(p)
  /\ pc[p] \in SetupRun \ Filtered => table = {}
  /\ pc[p] \in Filtered => table = {Me(p)}
  /\ pc[p] \in {"setup.table"} \cup Filtered => resolv = Me(p)
  /\ pc[p] = "up" => meta = Me(p)
  /\ pc[p] \in {"td.veth", "td.netns", "gc.veth", "gc.netns"} => table = {}
  /\ pc[p] \in {"td.netns", "gc.netns"} => veth = None
  /\ pc[p] \in {"td.resolv", "td.meta", "gc.resolv", "gc.meta"} => netns = None
  /\ pc[p] \in {"td.meta", "gc.meta"} => resolv = None

\* The namespace is made first and deleted after the link and the rules.
NetnsOutlives == netns = None => veth = None /\ table = {}

\* The history: who has been up, who may be.
HistoryInv ==
  /\ TeardownInv
  /\ OneRuns
  /\ \A s \in completed : Past(s)
  /\ \A p \in Pids : Fresh(p)

RecoveryInv ==
  /\ HistoryInv
  /\ Recovers => NetnsOutlives /\ LeftoverIsRecorded /\ \A p \in Pids : Stage(p)

LEMMA HistoryStep == HistoryInv /\ [Next]_netnsVars => HistoryInv'
<1> SUFFICES ASSUME HistoryInv, [Next]_netnsVars
             PROVE  HistoryInv'
    OBVIOUS
<1> USE NoneAssumption
<1> TeardownInv /\ CollectorInv /\ NetNSTypeOK
    BY DEF HistoryInv, TeardownInv, CollectorInv
<1>1. TeardownInv' /\ usage' = usage
      BY TeardownStep, UsageStays
<1>2. SUFFICES OneRuns' /\ (\A s \in completed' : Past(s)') /\ \A q \in Pids : Fresh(q)'
      BY <1>1 DEF HistoryInv
<1>3. \A q \in Pids : Fresh(q) /\ Unrecorded(q) /\ Me(q) \in Sessions
      BY MeIsSession DEF HistoryInv, TeardownInv
<1>4. CASE UNCHANGED netnsVars
      BY <1>4 DEF netnsVars, locals, HistoryInv, OneRuns, Past, Fresh, Me
<1>5. ASSUME NEW p \in Pids, StartWithFlags(p) \/ StartWithSubcommand(p)
      PROVE  OneRuns' /\ (\A s \in completed' : Past(s)') /\ \A q \in Pids : Fresh(q)'
  <2>1. usage = "sequential" => AllDead
        BY <1>5 DEF StartWithFlags, StartWithSubcommand
  <2>2. OneRuns'
        BY <1>1, <1>5, <2>1, StartFrame DEF OneRuns, AllDead
  <2>3. \A s \in completed' : Past(s)'
        BY <1>5, StartFrame DEF HistoryInv, Past, Sessions, NetNSTypeOK
  <2>4. <<p, starts[p] + 1>> \notin completed
        BY DEF HistoryInv, Past, NetNSTypeOK
  <2>5. ASSUME NEW q \in Pids
        PROVE  Fresh(q)'
    <3>1. CASE q = p
          BY <1>5, <2>4, <3>1, StartFrame DEF Fresh, NetNSTypeOK, Sessions
    <3>2. CASE q # p
          BY <1>3, <1>5, <3>2, StartFrame DEF Fresh, NetNSTypeOK
    <3> QED BY <3>1, <3>2
  <2> QED BY <2>2, <2>3, <2>5
<1>6. ASSUME NEW p \in Pids, Session(p)
      PROVE  OneRuns' /\ (\A s \in completed' : Past(s)') /\ \A q \in Pids : Fresh(q)'
  <2>1. pc[p] # "dead" /\ pc'[p] \notin GCSteps
        BY <1>6 DEF NetNSTypeOK, GCSteps, GCPrune, SetupRun, Go, Session, Crash, Setup,
           SetupNetns, SetupNetnsFails, SetupVeth, SetupLink, SetupResolv, SetupTable,
           SetupCreate, SetupCreateFails, SetupWrite, SetupFails, Teardown, TargetEnded, TdTable, TdVeth, TdNetns,
           TdResolv, TdMeta
  <2>2. OneRuns'
        BY <1>1, <1>6, <2>1, SessionFrame DEF HistoryInv, OneRuns
  <2>3. completed' \subseteq completed \cup {Me(p)} /\ (pc'[p] \in BeforeUp => completed' = completed)
        BY <1>6 DEF NetNSTypeOK, BeforeUp, GCSteps, GCPrune, SetupRun, Go, locals, Session, Crash,
           Setup, SetupNetns, SetupNetnsFails, SetupVeth, SetupLink, SetupResolv, SetupTable,
           SetupCreate, SetupCreateFails, SetupWrite, SetupFails, Teardown, TargetEnded, TdTable, TdVeth, TdNetns,
           TdResolv, TdMeta
  <2>4. \A s \in completed' : Past(s)'
    <3>1. Past(Me(p))
          BY DEF Past, Me, NetNSTypeOK
    <3> QED BY <1>6, <2>3, <3>1, SessionFrame DEF HistoryInv, Past
  <2>5. ASSUME NEW q \in Pids
        PROVE  Fresh(q)'
    <3>1. CASE q = p
      <4>1. pc'[p] \in BeforeUp => pc[p] \in BeforeUp
            BY <1>6 DEF NetNSTypeOK, BeforeUp, GCSteps, GCPrune, SetupRun, Go, Session, Crash,
               Setup, SetupNetns, SetupNetnsFails, SetupVeth, SetupLink, SetupResolv, SetupTable,
               SetupCreate, SetupCreateFails, SetupWrite, SetupFails, Teardown, TargetEnded, TdTable, TdVeth,
               TdNetns, TdResolv, TdMeta
      <4>2. pc'[p] \in BeforeUp \ {"setup.write"} =>
              pc[p] \in BeforeUp \ {"setup.write"} /\ metaPath'[p] = metaPath[p]
            BY <1>6 DEF NetNSTypeOK, BeforeUp, GCSteps, GCPrune, SetupRun, Go, locals, Session,
               Crash, Setup, SetupNetns, SetupNetnsFails, SetupVeth, SetupLink, SetupResolv,
               SetupTable, SetupCreate, SetupCreateFails, SetupWrite, SetupFails, Teardown, TargetEnded, TdTable,
               TdVeth, TdNetns, TdResolv, TdMeta
      <4> QED BY <1>3, <1>6, <2>1, <2>3, <3>1, <4>1, <4>2, SessionFrame DEF Fresh
    <3>2. CASE q # p
          BY <1>3, <1>6, <2>3, <3>2, SessionFrame, MeIsUnique DEF Fresh
    <3> QED BY <3>1, <3>2
  <2> QED BY <2>2, <2>4, <2>5
<1>7. ASSUME NEW p \in Pids, ReconcileOrphans(p)
      PROVE  OneRuns' /\ (\A s \in completed' : Past(s)') /\ \A q \in Pids : Fresh(q)'
  <2>1. OneRuns'
        BY <1>1, <1>7, CollectorFrame DEF HistoryInv, OneRuns, GCSteps, GCPrune
  <2>2. \A s \in completed' : Past(s)'
        BY <1>7, CollectorFrame DEF HistoryInv, Past
  <2>3. ASSUME NEW q \in Pids
        PROVE  Fresh(q)'
    <3>1. CASE q = p
      <4>1. seen'[p] = seen[p] \/ seen'[p] = meta
            BY <1>7 DEF NetNSTypeOK, locals, ReconcileOrphans, GCSkips, GCReads, GCSpares,
               GCCondemns, GCTable, GCVeth, GCNetns, GCResolv, GCMeta
      <4>2. ~metaPath[p] /\ meta # Me(p) /\ seen[p] # Me(p) /\ Me(p) \notin completed
            BY <1>3, <1>7, CollectorFrame DEF Fresh, BeforeUp, Unrecorded, GCSteps, GCPrune, SetupRun
      <4> QED BY <1>7, <3>1, <4>1, <4>2, CollectorFrame DEF Fresh
    <3>2. CASE q # p
          BY <1>3, <1>7, <3>2, CollectorFrame DEF Fresh
    <3> QED BY <3>1, <3>2
  <2> QED BY <2>1, <2>2, <2>3
<1> QED BY <1>4, <1>5, <1>6, <1>7 DEF Next

\* The one process that runs collects or sets up for nobody else: the session a
\* collector has read of is never its own, so it is dead and condemned.
LEMMA NobodySpared ==
  ASSUME HistoryInv, usage = "sequential", NEW p \in Pids
  PROVE  ~GCSpares(p)
<1> SUFFICES ASSUME GCSpares(p)
             PROVE  FALSE
    OBVIOUS
<1> NetNSTypeOK /\ OneRuns /\ Fresh(p)
    BY DEF HistoryInv, TeardownInv, CollectorInv
<1>1. pc[p] = "gc.check" /\ seen[p] \in Sessions /\ Alive(seen[p])
      BY DEF GCSpares, AfterGC, Go, NetNSTypeOK, GCSteps
<1>2. seen[p][1] \in Pids /\ seen[p] = <<seen[p][1], seen[p][2]>>
      BY <1>1 DEF Sessions
<1>3. seen[p][1] = p
      BY <1>1, <1>2 DEF Alive, OneRuns
<1>4. seen[p] = Me(p)
      BY <1>1, <1>2, <1>3 DEF Alive, Me
<1> QED BY <1>1, <1>4 DEF Fresh, GCSteps

LEMMA RecoveryStep == RecoveryInv /\ [Next]_netnsVars => RecoveryInv'
<1> SUFFICES ASSUME RecoveryInv, [Next]_netnsVars, usage = "sequential", ~failed'
             PROVE  NetnsOutlives' /\ LeftoverIsRecorded' /\ \A q \in Pids : Stage(q)'
    BY HistoryStep, UsageStays DEF RecoveryInv, Recovers
<1> USE NoneAssumption
<1> HistoryInv /\ TeardownInv /\ CollectorInv /\ NetNSTypeOK /\ OneRuns
    BY DEF RecoveryInv, HistoryInv, TeardownInv, CollectorInv
<1> DEFINE Owns(s) == s \in {netns, veth, resolv} \cup table
<1>1. Recovers /\ NetnsOutlives /\ LeftoverIsRecorded /\ \A q \in Pids : Stage(q)
      BY FailedStays DEF RecoveryInv, Recovers
<1>2. \A s \in completed : Owns(s) => meta = s
      BY <1>1 DEF LeftoverIsRecorded
<1>3. CASE UNCHANGED netnsVars
      BY <1>1, <1>3 DEF netnsVars, locals, NetnsOutlives, LeftoverIsRecorded, Recovers, Stage, Me
<1>4. ASSUME NEW p \in Pids, StartWithFlags(p) \/ StartWithSubcommand(p)
      PROVE  NetnsOutlives' /\ LeftoverIsRecorded' /\ \A q \in Pids : Stage(q)'
  <2>1. NetnsOutlives' /\ LeftoverIsRecorded'
        BY <1>1, <1>4, StartFrame DEF NetnsOutlives, LeftoverIsRecorded
  <2>2. pc'[p] = "gc.read" /\ \A q \in Pids : q # p => pc'[q] = "dead"
        BY <1>4 DEF StartWithFlags, StartWithSubcommand, StartAt, Go, AllDead, NetNSTypeOK
  <2> QED BY <2>1, <2>2 DEF Stage, SetupRun, Linked, Filtered
\* Every process but the one that takes the step is dead.
<1>5. ASSUME NEW p \in Pids, pc[p] # "dead", \A q \in Pids \ {p} : pc'[q] = pc[q]
      PROVE  \A q \in Pids \ {p} : Stage(q)'
  <2>1. \A q \in Pids \ {p} : pc'[q] = "dead"
        BY <1>5 DEF OneRuns
  <2> QED BY <2>1 DEF Stage, SetupRun, Linked, Filtered
<1>6. ASSUME NEW p \in Pids, Crash(p)
      PROVE  NetnsOutlives' /\ LeftoverIsRecorded' /\ \A q \in Pids : Stage(q)'
  <2>1. NetnsOutlives' /\ LeftoverIsRecorded'
        BY <1>1, <1>6 DEF Crash, locals, NetnsOutlives, LeftoverIsRecorded
  <2>2. pc[p] # "dead" /\ pc'[p] = "dead" /\ \A q \in Pids \ {p} : pc'[q] = pc[q]
        BY <1>6 DEF Crash, NetNSTypeOK
  <2>3. Stage(p)'
        BY <2>2 DEF Stage, SetupRun, Linked, Filtered
  <2> QED BY <1>5, <2>1, <2>2, <2>3
<1>7. ASSUME NEW p \in Pids, Setup(p)
      PROVE  NetnsOutlives' /\ LeftoverIsRecorded' /\ \A q \in Pids : Stage(q)'
  <2>1. /\ Me(p)' = Me(p) /\ Me(p) # None /\ Me(p) \in Sessions
        /\ \A q \in Pids \ {p} : pc'[q] = pc[q]
        BY <1>7, SessionFrame, MeIsSession DEF Session
  <2>2. pc[p] \in {"setup.netns"} \cup SetupRun
        BY <1>7 DEF Go, SetupRun, Setup, SetupNetns, SetupNetnsFails, SetupVeth, SetupLink,
           SetupResolv, SetupTable, SetupCreate, SetupCreateFails, SetupWrite, SetupFails
  <2>3. meta \in {None, Torn} /\ Me(p) \notin completed
        BY <1>1, <2>2 DEF RecoveryInv, HistoryInv, Stage, Fresh, BeforeUp
  \* No completed session has anything left.
  <2>4. \A s \in completed : ~Owns(s)
        BY <1>2, <2>3 DEF NetNSTypeOK
  <2>5. Stage(p)'
        BY <1>1, <1>7, <2>1 DEF Stage, NetnsOutlives, NetNSTypeOK, Go, SetupRun, Linked, Filtered,
           Setup, SetupNetns, SetupNetnsFails, SetupVeth, SetupLink, SetupResolv, SetupTable,
           SetupCreate, SetupCreateFails, SetupWrite, SetupFails
  <2>6. NetnsOutlives'
        BY <1>1, <1>7, <2>1, <2>2 DEF Stage, NetnsOutlives, Go, SetupRun, Setup, SetupNetns,
           SetupNetnsFails, SetupVeth, SetupLink, SetupResolv, SetupTable, SetupCreate, SetupCreateFails,
           SetupWrite, SetupFails
  <2>7. LeftoverIsRecorded'
    <3>1. CASE SetupWrite(p)
          BY <2>3, <2>4, <3>1 DEF SetupWrite, LeftoverIsRecorded
    <3>2. CASE ~SetupWrite(p)
      <4>1. completed' = completed
            BY <1>7, <3>2 DEF locals, Setup, SetupNetns, SetupNetnsFails, SetupVeth, SetupLink,
               SetupResolv, SetupTable, SetupCreate, SetupCreateFails, SetupFails
      <4>2. /\ netns' \in {netns, Me(p)} /\ veth' \in {veth, Me(p)} /\ resolv' \in {resolv, Me(p)}
            /\ table' \subseteq table \cup {Me(p)}
            BY <1>7, <3>2 DEF Setup, SetupNetns, SetupNetnsFails, SetupVeth, SetupLink,
               SetupResolv, SetupTable, SetupCreate, SetupCreateFails, SetupFails
      <4> QED BY <2>3, <2>4, <4>1, <4>2 DEF LeftoverIsRecorded
    <3> QED BY <3>1, <3>2
  <2> QED BY <1>5, <2>1, <2>2, <2>5, <2>6, <2>7 DEF SetupRun
<1>8. ASSUME NEW p \in Pids, Teardown(p)
      PROVE  NetnsOutlives' /\ LeftoverIsRecorded' /\ \A q \in Pids : Stage(q)'
  <2>1. Me(p)' = Me(p) /\ \A q \in Pids \ {p} : pc'[q] = pc[q]
        BY <1>8, SessionFrame DEF Session
  <2>2. pc[p] # "dead" /\ completed' = completed
        BY <1>8 DEF Go, locals, Teardown, TargetEnded, TdTable, TdVeth, TdNetns, TdResolv, TdMeta
  <2>3. Stage(p)'
        BY <1>1, <1>8, <2>1 DEF Stage, NetNSTypeOK, Go, SetupRun, Linked, Filtered, Teardown,
           TargetEnded, TdTable, TdVeth, TdNetns, TdResolv, TdMeta, DeleteTable, DeleteVeth,
           DeleteNetns, DeleteResolv, DeleteMeta, Fails
  <2>4. NetnsOutlives'
        BY <1>1, <1>8 DEF Stage, NetnsOutlives, Go, Teardown, TargetEnded, TdTable, TdVeth,
           TdNetns, TdResolv, TdMeta, DeleteTable, DeleteVeth, DeleteNetns, Fails
  <2>5. LeftoverIsRecorded'
    <3>1. CASE TdMeta(p)
      <4>1. table = {} /\ veth = None /\ netns = None /\ resolv = None
            BY <1>1, <3>1 DEF TdMeta, Go, Stage, NetnsOutlives
      <4> QED BY <3>1, <4>1, <2>2 DEF TdMeta, LeftoverIsRecorded, NetNSTypeOK
    <3>2. CASE ~TdMeta(p)
      <4>1. /\ netns' \in {netns, None} /\ veth' \in {veth, None} /\ resolv' \in {resolv, None}
            /\ table' \subseteq table /\ meta' = meta
            BY <1>8, <3>2 DEF Teardown, TargetEnded, TdTable, TdVeth, TdNetns, TdResolv,
               DeleteTable, DeleteVeth, DeleteNetns, DeleteResolv
      <4> QED BY <1>2, <2>2, <4>1 DEF LeftoverIsRecorded, NetNSTypeOK
    <3> QED BY <3>1, <3>2
  <2> QED BY <1>5, <2>1, <2>2, <2>3, <2>4, <2>5
<1>9. ASSUME NEW p \in Pids, ReconcileOrphans(p)
      PROVE  NetnsOutlives' /\ LeftoverIsRecorded' /\ \A q \in Pids : Stage(q)'
  <2>1. /\ pc[p] # "dead" /\ completed' = completed
        /\ \A q \in Pids \ {p} : pc'[q] = pc[q]
        BY <1>9, CollectorFrame DEF GCSteps, GCPrune
  <2>2. Stage(p)'
        BY <1>1, <1>9, NobodySpared DEF Stage, NetNSTypeOK, Go, AfterGC, SetupRun, Linked,
           Filtered, ReconcileOrphans, GCSkips, GCReads, GCCondemns, GCTable, GCVeth, GCNetns,
           GCResolv, GCMeta, DeleteTable, DeleteVeth, DeleteNetns, DeleteResolv, DeleteMeta, Fails
  <2>3. NetnsOutlives'
        BY <1>1, <1>9 DEF Stage, NetnsOutlives, Go, ReconcileOrphans, GCSkips, GCReads, GCSpares,
           GCCondemns, GCTable, GCVeth, GCNetns, GCResolv, GCMeta, DeleteTable, DeleteVeth,
           DeleteNetns, Fails
  <2>4. LeftoverIsRecorded'
    <3>1. CASE GCMeta(p)
      <4>1. table = {} /\ veth = None /\ netns = None /\ resolv = None
            BY <1>1, <3>1 DEF GCMeta, AfterGC, Go, Stage, NetnsOutlives
      <4> QED BY <3>1, <4>1, <2>1 DEF GCMeta, LeftoverIsRecorded, NetNSTypeOK
    <3>2. CASE ~GCMeta(p)
      <4>1. meta' = meta
            BY <1>9, <3>2 DEF ReconcileOrphans, GCSkips, GCReads, GCSpares, GCCondemns, GCTable,
               GCVeth, GCNetns, GCResolv
      <4> QED BY <1>2, <1>9, <2>1, <4>1, CollectorFrame DEF LeftoverIsRecorded, NetNSTypeOK
    <3> QED BY <3>1, <3>2
  <2> QED BY <1>5, <2>1, <2>2, <2>3, <2>4
<1> QED BY <1>3, <1>4, <1>6, <1>7, <1>8, <1>9 DEF Next, Session

LEMMA InitRecovery == Init => RecoveryInv
<1> SUFFICES ASSUME Init
             PROVE  RecoveryInv
    OBVIOUS
<1>1. CollectorInv /\ NetNSTypeOK
      BY InitType, NoneAssumption DEF Init, CollectorInv, JudgedDead, GCPrune
<1>2. TeardownInv
      BY <1>1, MeIsSession DEF Init, TeardownInv, Unrecorded, Deleted
<1>3. HistoryInv
      BY <1>2 DEF Init, HistoryInv, OneRuns, Fresh, BeforeUp, GCSteps, GCPrune, SetupRun
<1> QED BY <1>3 DEF Init, RecoveryInv, NetnsOutlives, LeftoverIsRecorded, Stage, SetupRun,
           Linked, Filtered

LEMMA RecoveryHolds == Spec => []RecoveryInv
BY InitRecovery, RecoveryStep, PTL DEF Spec

(***************************************************************************)
(* One process after the other, a session that is up has everything that   *)
(* goes by its name, alone, and is the one recorded, whatever the crashes  *)
(* of the processes before it have left.                                   *)
(***************************************************************************)
THEOREM UpIsIntactCorrect == Spec => []UpIsIntact
<1>1. RecoveryInv => UpIsIntact
      BY DEF RecoveryInv, UpIsIntact, Stage, Linked, Filtered
<1> QED BY <1>1, RecoveryHolds, PTL

(***************************************************************************)
(* Whatever a session that was up leaves behind, the metadata file names   *)
(* it, wherever its process or the collector's dies.                       *)
(***************************************************************************)
THEOREM LeftoverIsRecordedCorrect == Spec => []LeftoverIsRecorded
<1>1. RecoveryInv => LeftoverIsRecorded
      BY DEF RecoveryInv, LeftoverIsRecorded
<1> QED BY <1>1, RecoveryHolds, PTL

(***************************************************************************)
(* A collector that is done has left nothing of the session it has read    *)
(* of, and no metadata: its judgement is never "alive", also when the      *)
(* recorded pid is now its own.                                            *)
(***************************************************************************)
THEOREM GCPrunesRecordedCorrect == Spec => GCPrunesRecorded
<1>1. RecoveryInv /\ [Next]_netnsVars =>
        [\A p \in Pids : CollectorDone(p) /\ usage = "sequential" /\ ~failed' =>
           /\ meta' \in {None, Torn}
           /\ pc[p] = "gc.meta" => netns' = None /\ veth' = None /\ resolv' = None /\ table' = {}
        ]_netnsVars
  <2> SUFFICES ASSUME RecoveryInv, Next, NEW p \in Pids,
                      CollectorDone(p), usage = "sequential", ~failed'
               PROVE  /\ meta' \in {None, Torn}
                      /\ pc[p] = "gc.meta" =>
                           netns' = None /\ veth' = None /\ resolv' = None /\ table' = {}
      OBVIOUS
  <2> HistoryInv /\ NetNSTypeOK
      BY DEF RecoveryInv, HistoryInv, TeardownInv, CollectorInv
  <2>1. Recovers /\ NetnsOutlives /\ Stage(p)
        BY FailedStays DEF RecoveryInv, Recovers
  <2>2. ReconcileOrphans(p)
    <3>1. PICK q \in Pids : StartWithFlags(q) \/ StartWithSubcommand(q) \/ ReconcileOrphans(q)
                             \/ Session(q)
          BY DEF Next
    <3>2. q = p
          BY <3>1, StartFrame, SessionFrame, CollectorFrame DEF CollectorDone, GCSteps, GCPrune
    <3>3. ~StartWithFlags(p) /\ ~StartWithSubcommand(p)
          BY StartFrame DEF CollectorDone, GCSteps, GCPrune
    <3>4. ~Session(p)
          BY DEF CollectorDone, NetNSTypeOK, GCSteps, GCPrune, SetupRun, Go, Session, Crash,
             Setup, SetupNetns, SetupNetnsFails, SetupVeth, SetupLink, SetupResolv, SetupTable,
             SetupCreate, SetupCreateFails, SetupWrite, SetupFails, Teardown, TargetEnded, TdTable, TdVeth,
             TdNetns, TdResolv, TdMeta
    <3> QED BY <3>1, <3>2, <3>3, <3>4
  <2>3. GCSkips(p) \/ GCMeta(p)
        BY <2>2, NobodySpared DEF CollectorDone, NetNSTypeOK, Go, ReconcileOrphans, GCReads,
           GCCondemns, GCTable, GCVeth, GCNetns, GCResolv
  <2>4. CASE GCSkips(p)
        BY <2>4 DEF GCSkips, AfterGC, Go
  <2>5. CASE GCMeta(p)
        BY <2>1, <2>5 DEF GCMeta, AfterGC, Go, DeleteMeta, Fails, Stage, NetnsOutlives
  <2> QED BY <2>3, <2>4, <2>5
<1> QED BY <1>1, RecoveryHolds, PTL DEF Spec, GCPrunesRecorded

-----------------------------------------------------------------------------
(***************************************************************************)
(* The race of the collector.  No process but its owner makes a namespace, *)
(* in its own name, and the owner makes it after its own collector.        *)
(***************************************************************************)
OwnerInv ==
  /\ HistoryInv
  /\ netns # None => Past(netns)
  /\ \A p \in Pids : pc[p] \in GCSteps \cup {"setup.netns"} => netns # Me(p)

LEMMA OwnerStep == OwnerInv /\ [Next]_netnsVars => OwnerInv'
<1> SUFFICES ASSUME OwnerInv, [Next]_netnsVars
             PROVE  /\ netns' # None => Past(netns)'
                    /\ \A q \in Pids : pc'[q] \in GCSteps \cup {"setup.netns"} => netns' # Me(q)'
    BY HistoryStep DEF OwnerInv
<1> USE NoneAssumption
<1> HistoryInv /\ NetNSTypeOK
    BY DEF OwnerInv, HistoryInv, TeardownInv, CollectorInv
<1>1. CASE UNCHANGED netnsVars
      BY <1>1 DEF netnsVars, locals, OwnerInv, Past, Me
<1>2. ASSUME NEW p \in Pids, StartWithFlags(p) \/ StartWithSubcommand(p)
      PROVE  /\ netns' # None => Past(netns)'
             /\ \A q \in Pids : pc'[q] \in GCSteps \cup {"setup.netns"} => netns' # Me(q)'
  <2>1. /\ netns' = netns
        /\ starts' = [starts EXCEPT ![p] = @ + 1]
        /\ Me(p)' = <<p, starts[p] + 1>>
        /\ \A q \in Pids : q # p => pc'[q] = pc[q] /\ Me(q)' = Me(q)
        BY <1>2, StartFrame
  <2>2. netns # None => netns[1] \in Pids /\ netns[2] \in Nat /\ netns[2] <= starts[netns[1]]
        BY DEF NetNSTypeOK, Sessions, OwnerInv, Past
  <2>3. netns # None => netns[2] <= starts'[netns[1]]
        BY <2>1, <2>2 DEF NetNSTypeOK
  <2>4. netns # <<p, starts[p] + 1>>
        BY <2>2, MeIsSession DEF NetNSTypeOK, Sessions
  <2>5. ASSUME NEW q \in Pids, pc'[q] \in GCSteps \cup {"setup.netns"} PROVE netns' # Me(q)'
        BY <2>1, <2>4, <2>5 DEF OwnerInv
  <2> QED BY <2>1, <2>3, <2>5 DEF Past
<1>3. ASSUME NEW p \in Pids, Session(p)
      PROVE  /\ netns' # None => Past(netns)'
             /\ \A q \in Pids : pc'[q] \in GCSteps \cup {"setup.netns"} => netns' # Me(q)'
  <2>1. starts' = starts /\ \A q \in Pids \ {p} : pc'[q] = pc[q]
        BY <1>3, SessionFrame
  <2>2. netns' \in {netns, None, Me(p)}
        BY <1>3 DEF Session, Crash, Setup, SetupNetns, SetupNetnsFails, SetupVeth, SetupLink,
           SetupResolv, SetupTable, SetupCreate, SetupCreateFails, SetupWrite, SetupFails, Teardown, TargetEnded,
           TdTable, TdVeth, TdNetns, TdResolv, TdMeta, DeleteNetns
  <2>3. pc'[p] \notin GCSteps \cup {"setup.netns"}
        BY <1>3 DEF Session, Crash, Setup, SetupNetns, SetupNetnsFails, SetupVeth, SetupLink,
           SetupResolv, SetupTable, SetupCreate, SetupCreateFails, SetupWrite, SetupFails, Teardown, TargetEnded,
           TdTable, TdVeth, TdNetns, TdResolv, TdMeta, Go, NetNSTypeOK, GCSteps, GCPrune
  <2> QED BY <2>1, <2>2, <2>3, MeIsSession, MeIsUnique DEF OwnerInv, Past, Me, NetNSTypeOK
<1>4. ASSUME NEW p \in Pids, ReconcileOrphans(p)
      PROVE  /\ netns' # None => Past(netns)'
             /\ \A q \in Pids : pc'[q] \in GCSteps \cup {"setup.netns"} => netns' # Me(q)'
  <2>1. starts' = starts /\ pc[p] \in GCSteps /\ \A q \in Pids \ {p} : pc'[q] = pc[q]
        BY <1>4, CollectorFrame DEF ReconcileOrphans, GCSkips, GCReads, GCSpares, GCCondemns,
           GCTable, GCVeth, GCNetns, GCResolv, GCMeta, AfterGC, Go, GCSteps, GCPrune
  <2>2. netns' \in {netns, None}
        BY <1>4 DEF ReconcileOrphans, GCSkips, GCReads, GCSpares, GCCondemns,
           GCTable, GCVeth, GCNetns, GCResolv, GCMeta, DeleteNetns
  <2> QED BY <2>1, <2>2, MeIsSession DEF OwnerInv, Past, Me
<1> QED BY <1>1, <1>2, <1>3, <1>4 DEF Next

LEMMA OwnerHolds == Spec => []OwnerInv
<1>1. Init => OwnerInv
  <2>1. Init => HistoryInv
        BY InitRecovery DEF RecoveryInv
  <2> QED BY <2>1 DEF Init, OwnerInv, GCSteps, GCPrune
<1> QED BY <1>1, OwnerStep, PTL DEF Spec

(***************************************************************************)
(* A collector prunes for nobody who is alive but another process: its own *)
(* session does not exist yet.                                             *)
(***************************************************************************)
CollectorOwnsNothing == \A p \in Pids : pc[p] \in GCSteps => netns # Me(p)

THEOREM CollectorOwnsNothingCorrect == Spec => []CollectorOwnsNothing
<1>1. OwnerInv => CollectorOwnsNothing
      BY DEF OwnerInv, CollectorOwnsNothing
<1> QED BY <1>1, OwnerHolds, PTL

(***************************************************************************)
(* The race that takes the namespace of a live session away is one of two  *)
(* processes: one after the other, the collector deletes the namespace of  *)
(* dead processes only, whatever crashes and whichever commands fail.      *)
(***************************************************************************)
PrunesTheDeadAlone == usage = "sequential" => GCPrunesOnlyTheDead

THEOREM PrunesTheDeadAloneCorrect == Spec => []PrunesTheDeadAlone
<1>1. OwnerInv => PrunesTheDeadAlone
  <2> SUFFICES ASSUME OwnerInv, usage = "sequential", NEW p \in Pids,
                      pc[p] = "gc.netns", netns # None, Alive(netns)
               PROVE  FALSE
      BY DEF PrunesTheDeadAlone, GCPrunesOnlyTheDead
  <2> NetNSTypeOK /\ OneRuns
      BY DEF OwnerInv, HistoryInv, TeardownInv, CollectorInv
  <2>1. netns[1] \in Pids /\ netns = <<netns[1], netns[2]>>
        BY DEF NetNSTypeOK, Sessions
  <2>2. netns[1] = p
        BY <2>1 DEF Alive, OneRuns
  <2>3. netns = Me(p)
        BY <2>1, <2>2 DEF Alive, Me
  <2> QED BY <2>3 DEF OwnerInv, GCSteps, GCPrune
<1> QED BY <1>1, OwnerHolds, PTL
=============================================================================

------------------------------ MODULE Launcher ------------------------------
(***************************************************************************)
(* launcher.Launch: from the profile that is asked for to the process that *)
(* runs, and where that process's packets go.  What it creates (namespace, *)
(* proxychains configuration) goes in deferred calls, which os.Exit by     *)
(* another goroutine skips.                                                *)
(*                                                                         *)
(* The packet filter is the nftables table of a session, as a decision on  *)
(* packets; Setup and Teardown are one step each here, NetNS has theirs.   *)
(***************************************************************************)
EXTENDS FiniteSets, TLAPS

VARIABLES
  request,    \* what the user asks for, and what the machine has
  at,         \* "begin", "choose", "start", "running", "returned" or "exited"
  command,    \* the command that will run: where, and through what
  namespace,  \* Setup has made the namespace and its filter
  conf,       \* the temporary proxychains configuration exists
  heard       \* who has received a packet of the target: "tor", "host", "wan"

launchVars == <<request, at, command, namespace, conf, heard>>

Modes    == {"auto", "netns", "proxychains", "electron"}
Requests == [forceNetNS : BOOLEAN, forceProxychains : BOOLEAN, mode : Modes,
             root : BOOLEAN, proxychains : BOOLEAN, chromium : BOOLEAN]
Commands == [where : {"host", "namespace"}, how : {"none", "plain", "flags", "proxychains"}]
NoCommand == [where |-> "host", how |-> "none"]

\* The profile: the namespace excludes the others.
NetNSAsked(r)       == r.forceNetNS \/ r.mode = "netns"
ProxychainsAsked(r) == ~NetNSAsked(r) /\ (r.forceProxychains \/ r.mode = "proxychains")
ElectronAsked(r)    == ~NetNSAsked(r) /\ r.mode = "electron"

-----------------------------------------------------------------------------
(***************************************************************************)
(* The filter.  A packet comes in on the host's end of the veth pair or on *)
(* another interface, for an address of the host or for one beyond it.     *)
(***************************************************************************)
Ports   == {"53", "socks", "dns", "other"}
Packets == [iif : {"veth", "other"}, saddr : {"app", "other"}, proto : {"tcp", "udp"},
            dport : Ports, to : {"host", "wan"}]

\* prerouting: questions to any resolver become questions to Tor's DNSPort.
Prerouting(p) ==
  IF p.iif = "veth" /\ p.dport = "53" THEN [p EXCEPT !.dport = "dns", !.to = "host"] ELSE p

\* input, for the host's addresses: policy drop, three rules that accept.
InputAccepts(p) ==
  /\ p.iif = "veth" /\ p.saddr = "app"
  /\ p.dport = "dns" \/ (p.dport = "socks" /\ p.proto = "tcp")

\* forward: policy drop, no rule that accepts.
Accepted(p) == Prerouting(p).to = "host" /\ InputAccepts(Prerouting(p))

\* The ports the filter opens are Tor's.  Without the filter a packet that is
\* not addressed to them goes where its sender likes.
Receiver(p) == IF p.to = "host" /\ p.dport \in {"socks", "dns"} THEN {"tor"} ELSE {p.to}
Through(p)  == IF Accepted(p) THEN Receiver(Prerouting(p)) ELSE {}
HeardBy(c, p) == IF c.where = "namespace" THEN Through(p) ELSE Receiver(p)

-----------------------------------------------------------------------------
Init ==
  /\ request \in Requests
  /\ at = "begin" /\ command = NoCommand
  /\ namespace = FALSE /\ conf = FALSE /\ heard = {}

\* The deferred calls: Teardown, and the removal of the configuration.
Return ==
  /\ at' = "returned"
  /\ namespace' = FALSE /\ conf' = FALSE
  /\ UNCHANGED <<request, command, heard>>

\* Not in PATH; or the profile netns without root, or its Setup fails, and has
\* undone what it did; or the configuration cannot be written.
Refuses == at = "begin" /\ Return

SetsUp ==
  /\ at = "begin" /\ NetNSAsked(request) /\ request.root
  /\ namespace' = TRUE
  /\ command' = [where |-> "namespace", how |-> "plain"]
  /\ at' = "choose"
  /\ UNCHANGED <<request, conf, heard>>

Proxychains ==
  /\ at = "begin" /\ ProxychainsAsked(request) /\ request.proxychains
  /\ conf' = TRUE
  /\ command' = [where |-> "host", how |-> "proxychains"]
  /\ at' = "start"
  /\ UNCHANGED <<request, namespace, heard>>

\* Neither asked for, or proxychains is not installed.
NoWrapper ==
  /\ at = "begin" /\ ~NetNSAsked(request)
  /\ ProxychainsAsked(request) => ~request.proxychains
  /\ at' = "choose"
  /\ UNCHANGED <<request, command, namespace, conf, heard>>

\* if !useProxychains: the command is made (again), by the kind of program.
Choose ==
  /\ at = "choose"
  /\ command' = [where |-> "host",
                 how   |-> IF ElectronAsked(request) \/ request.chromium THEN "flags" ELSE "plain"]
  /\ at' = "start"
  /\ UNCHANGED <<request, namespace, conf, heard>>

Starts ==
  /\ at = "start"
  /\ at' = "running"
  /\ UNCHANGED <<request, command, namespace, conf, heard>>

StartFails == at = "start" /\ Return

\* From a namespace a packet comes in on the veth pair, with any address that
\* the program gives it.
Sends(p) ==
  /\ at = "running" /\ p.iif = "veth"
  /\ heard' = heard \cup HeardBy(command, p)
  /\ UNCHANGED <<request, at, command, namespace, conf>>

\* cmd.Wait returns, after a signal was passed on or not.
TargetEnds == at = "running" /\ Return

\* os.Exit in the cleanup goroutine or in the watchdog's handler (main.go).
Exits ==
  /\ at \notin {"returned", "exited"}
  /\ at' = "exited"
  /\ UNCHANGED <<request, command, namespace, conf, heard>>

Next ==
  \/ Refuses \/ SetsUp \/ Proxychains \/ NoWrapper \/ Choose
  \/ Starts \/ StartFails \/ TargetEnds \/ Exits
  \/ \E p \in Packets : Sends(p)

Spec == Init /\ [][Next]_launchVars

-----------------------------------------------------------------------------
(***************************************************************************)
(* The profile netns-gateway: no packet of the target reaches the WAN past *)
(* Tor.  README.md:77 promises it: "only local connections to the gateway  *)
(* (SOCKS 9050, DNS 9053) are allowed.  The kernel drops all direct        *)
(* traffic to the WAN."                                                    *)
(***************************************************************************)
NetNSIsConfined == NetNSAsked(request) => "wan" \notin heard

(***************************************************************************)
(* What does hold.  Whatever a program in the namespace sends, and to      *)
(* whomever, the filter lets it reach Tor and no one else; a question to   *)
(* any resolver is answered by Tor.                                        *)
(***************************************************************************)
FilterReachesTorOnly ==
  \A p \in Packets :
    /\ Through(p) \subseteq {"tor"}
    /\ p.iif = "veth" /\ p.saddr = "app" /\ p.dport = "53" => Through(p) = {"tor"}

(***************************************************************************)
(* The other side of "policy drop" in a base chain: while the table is     *)
(* loaded, the host receives and forwards no packet of any other           *)
(* interface, Tor's own traffic and the loopback included.                 *)
(***************************************************************************)
FilterCutsTheHost == \A p \in Packets : p.iif # "veth" => ~Accepted(p)

(***************************************************************************)
(* No target runs under the profile netns without root and a namespace,    *)
(* none through proxychains without its configuration; and when Launch     *)
(* has returned, by whichever path, neither is left.                       *)
(***************************************************************************)
WrapperHolds ==
  /\ at = "running" /\ NetNSAsked(request) => request.root /\ namespace
  /\ at = "running" /\ command.how = "proxychains" => conf
  /\ at = "returned" => ~namespace /\ ~conf

\* The steps at which each wrapper is needed, for the proof of WrapperHolds.
LaunchInv ==
  /\ request \in Requests /\ command \in Commands
  /\ at \in {"begin", "choose", "start", "running", "returned", "exited"}
  /\ namespace \in BOOLEAN /\ conf \in BOOLEAN
  /\ at \in {"choose", "start", "running"} /\ NetNSAsked(request) => request.root /\ namespace
  /\ at \in {"start", "running"} /\ command.how = "proxychains" => conf
  /\ at = "returned" => ~namespace /\ ~conf

-----------------------------------------------------------------------------
(***************************************************************************)
(* The input chain accepts Tor's two ports; prerouting sends every         *)
(* question to one of them; the forward chain accepts nothing.             *)
(***************************************************************************)
THEOREM FilterIsTight == FilterReachesTorOnly
<1> SUFFICES ASSUME NEW p \in Packets
             PROVE  /\ Through(p) \subseteq {"tor"}
                    /\ p.iif = "veth" /\ p.saddr = "app" /\ p.dport = "53" => Through(p) = {"tor"}
  BY DEF FilterReachesTorOnly
<1>1. CASE Accepted(p)
  <2>1. Prerouting(p).to = "host" /\ Prerouting(p).dport \in {"socks", "dns"}
    BY <1>1 DEF Accepted, InputAccepts
  <2> QED BY <1>1, <2>1 DEF Through, Receiver
<1>2. CASE ~Accepted(p)
  <2>1. ASSUME p.iif = "veth", p.saddr = "app", p.dport = "53" PROVE FALSE
    <3>1. Prerouting(p) = [p EXCEPT !.dport = "dns", !.to = "host"]
      BY <2>1 DEF Prerouting
    <3>2. /\ Prerouting(p).to = "host" /\ Prerouting(p).dport = "dns"
          /\ Prerouting(p).iif = "veth" /\ Prerouting(p).saddr = "app"
      BY <2>1, <3>1 DEF Packets
    <3> QED BY <1>2, <3>2 DEF Accepted, InputAccepts
  <2> QED BY <1>2, <2>1 DEF Through
<1> QED BY <1>1, <1>2

(***************************************************************************)
(* Every rule that accepts names the veth pair; all else meets the policy. *)
(***************************************************************************)
THEOREM FilterIsGlobal == FilterCutsTheHost
<1> SUFFICES ASSUME NEW p \in Packets, p.iif # "veth" PROVE ~Accepted(p)
  BY DEF FilterCutsTheHost
<1>1. Prerouting(p) = p
  BY DEF Prerouting
<1> QED BY <1>1 DEF Accepted, InputAccepts

(***************************************************************************)
(* No target runs without the wrapper of its profile, and a Launch that    *)
(* returns leaves none behind.                                             *)
(***************************************************************************)
THEOREM WrapperHoldsCorrect == Spec => []WrapperHolds
<1>1. Init => LaunchInv
  <2>1. NoCommand \in Commands
    BY DEF NoCommand, Commands
  <2> QED BY <2>1 DEF Init, LaunchInv
<1>2. LaunchInv /\ [Next]_launchVars => LaunchInv'
  <2> SUFFICES ASSUME LaunchInv, [Next]_launchVars PROVE LaunchInv'
    OBVIOUS
  <2> USE DEF LaunchInv
  <2>1. CASE Refuses \/ StartFails \/ TargetEnds
    BY <2>1 DEF Refuses, StartFails, TargetEnds, Return
  <2>2. CASE SetsUp
    BY <2>2 DEF SetsUp, Commands, NetNSAsked
  <2>3. CASE Proxychains
    BY <2>3 DEF Proxychains, Commands, ProxychainsAsked, NetNSAsked
  <2>4. CASE NoWrapper
    BY <2>4 DEF NoWrapper, NetNSAsked
  <2>5. CASE Choose
    BY <2>5 DEF Choose, Commands, NetNSAsked
  <2>6. CASE Starts
    BY <2>6 DEF Starts, NetNSAsked
  <2>7. ASSUME NEW p \in Packets, Sends(p) PROVE LaunchInv'
    BY <2>7 DEF Sends, NetNSAsked
  <2>8. CASE Exits
    BY <2>8 DEF Exits, NetNSAsked
  <2>9. CASE UNCHANGED launchVars
    BY <2>9 DEF launchVars, NetNSAsked
  <2> QED BY <2>1, <2>2, <2>3, <2>4, <2>5, <2>6, <2>7, <2>8, <2>9 DEF Next
<1>3. LaunchInv => WrapperHolds
  BY DEF LaunchInv, WrapperHolds
<1> QED BY <1>1, <1>2, <1>3, PTL DEF Spec
=============================================================================

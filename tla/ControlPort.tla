----------------------------- MODULE ControlPort -----------------------------
(***************************************************************************)
(* The conversations with Tor's control port: VerifyListeners, the step of *)
(* TorManager's Start that decides whether it succeeds, and SignalNewnym,  *)
(* which any goroutine may call at any time without the mutex.             *)
(*                                                                         *)
(* A conversation is a connection of its own: AUTHENTICATE, then questions *)
(* one at a time, and of each answer the code reads one line.  Tor answers *)
(* GETINFO with two lines, "250-key=value" and "250 OK", so the second one *)
(* stays unread.  The reads have no deadline.                              *)
(***************************************************************************)
EXTENDS TorManager

VARIABLES
  bound,    \* the address each listener of this Tor is bound to
  dnsPort,  \* m.dnsPort > 0
  talk,     \* what each goroutine's conversation is at: the answer it reads next
  asked,    \* the question Tor has not answered yet
  unread,   \* the lines of Tor that the goroutine has not read
  newnym,   \* what the last SignalNewnym of each goroutine returned
  rotated   \* Tor has obeyed that NEWNYM

controlVars == <<bound, dnsPort, talk, asked, unread, newnym, rotated>>
allVars     == <<managerVars, controlVars>>

Listeners == {"socks", "dns"}
Addresses == {"0.0.0.0", "elsewhere"}  \* "elsewhere": 127.0.0.1 or any other address
Questions == {"auth", "newnym"} \cup Listeners
Answers   == {"250", "515"} \cup Addresses  \* "250" is 250 OK, an address 250-...=address

ControlInit ==
  /\ Init
  /\ bound \in [Listeners -> Addresses] /\ dnsPort \in BOOLEAN
  /\ talk = [g \in Goroutines |-> "none"]
  /\ asked = [g \in Goroutines |-> "none"]
  /\ unread = [g \in Goroutines |-> <<>>]
  /\ newnym = [g \in Goroutines |-> "none"]
  /\ rotated = [g \in Goroutines |-> FALSE]

-----------------------------------------------------------------------------
\* Every conversation begins with a dial and AUTHENTICATE.
Dial(g) ==
  /\ talk[g] = "none" /\ Alive
  /\ talk' = [talk EXCEPT ![g] = "auth"]
  /\ asked' = [asked EXCEPT ![g] = "auth"]
  /\ unread' = [unread EXCEPT ![g] = <<>>]

Ask(g, question) ==
  /\ talk' = [talk EXCEPT ![g] = question]
  /\ asked' = [asked EXCEPT ![g] = question]

HangUp(g) ==
  /\ talk' = [talk EXCEPT ![g] = "none"]
  /\ asked' = [asked EXCEPT ![g] = "none"]
  /\ unread' = [unread EXCEPT ![g] = <<>>]

\* The next line, and how a read that fails ends: Tor refuses, or it is dead
\* and no line is left.
Reads(g, lines) == unread[g] # <<>> /\ Head(unread[g]) \in lines
ReadFails(g)    == Reads(g, {"515"}) \/ (unread[g] = <<>> /\ tor = "dead")
Rest(g)         == unread' = [unread EXCEPT ![g] = Tail(@)]

\* Tor's side: the cookie is accepted or not, and GETINFO has two lines.
TorAnswer(question) ==
  IF question \in Listeners THEN {<<bound[question], "250">>}
  ELSE {<<"250">>} \cup (IF question = "auth" THEN {<<"515">>} ELSE {})

TorReplies(g) ==
  /\ tor = "running" /\ asked[g] # "none"
  /\ \E answer \in TorAnswer(asked[g]) : unread' = [unread EXCEPT ![g] = @ \o answer]
  /\ asked' = [asked EXCEPT ![g] = "none"]
  /\ rotated' = [rotated EXCEPT ![g] = @ \/ asked[g] = "newnym"]
  /\ UNCHANGED <<managerVars, bound, dnsPort, talk, newnym>>

-----------------------------------------------------------------------------
(***************************************************************************)
(* VerifyListeners: authenticateControl, the question about SOCKS, the one *)
(* about DNS if there is a DNS port, then the two synthetic probes, which  *)
(* have deadlines ("probe").  Any "250" line without 0.0.0.0 will do, so a *)
(* listener on one outer interface, or on [::], passes like 127.0.0.1.     *)
(***************************************************************************)
Verifying(g) == pc[g] = "start.verify"
VerifyStep   == UNCHANGED <<managerVars, bound, dnsPort, newnym, rotated>>
Good         == {"250", "elsewhere"}

VerifyDials(g) == Verifying(g) /\ Dial(g) /\ VerifyStep

\* Mutant: the answer to AUTHENTICATE is left on the connection.
VerifyAsksAtOnce(g) ==
  /\ Verifying(g) /\ talk[g] = "auth"
  /\ Ask(g, "socks")
  /\ UNCHANGED unread
  /\ VerifyStep

\* Mutant: the answer to AUTHENTICATE is read as one of two lines.
VerifyReadsTwice(g) ==
  /\ Verifying(g) /\ talk[g] = "auth" /\ Reads(g, Good)
  /\ Rest(g)
  /\ UNCHANGED <<talk, asked>>
  /\ VerifyStep

VerifyAsksSocks(g) ==
  /\ Verifying(g) /\ talk[g] = "auth" /\ Reads(g, Good \cup {"0.0.0.0"})
  /\ Ask(g, "socks")
  /\ Rest(g)
  /\ VerifyStep

VerifyAsksDNS(g) ==
  /\ Verifying(g) /\ talk[g] = "socks" /\ Reads(g, Good) /\ dnsPort
  /\ Ask(g, "dns")
  /\ Rest(g)
  /\ VerifyStep

VerifyProbes(g) ==
  /\ Verifying(g) /\ Reads(g, Good)
  /\ talk[g] = IF dnsPort THEN "dns" ELSE "socks"
  /\ talk' = [talk EXCEPT ![g] = "probe"]
  /\ Rest(g)
  /\ UNCHANGED asked
  /\ VerifyStep

\* Both probes are answered, and Start returns.
VerifySucceeds(g) ==
  /\ talk[g] = "probe"
  /\ StartVerified(g)
  /\ HangUp(g)
  /\ UNCHANGED <<bound, dnsPort, newnym, rotated>>

\* Mutant: Start returns the error and leaves Tor running.
VerifyFailsUnstopped(g) ==
  /\ Verifying(g) /\ talk[g] \in {"none", "probe"}
  /\ Goto(g, "start.failed")
  /\ HangUp(g)
  /\ UNCHANGED <<mu, stopClosed, bootstrapped, bootstrapDone, started, watching, scanner,
                 runtimeDir, dataDir, ephemeral, tor, booted, pipe, ret, bound, dnsPort,
                 newnym, rotated>>

\* Nobody to dial, a cookie that is not ours, an answer that will not do, the
\* end of the connection, or a probe without an answer in 2 seconds.
VerifyFails(g) ==
  /\ \/ talk[g] \in {"none", "probe"}
     \/ talk[g] \in Questions /\ ReadFails(g)
     \/ talk[g] \in Listeners /\ Reads(g, {"0.0.0.0"})
  /\ StartVerifyFails(g)
  /\ HangUp(g)
  /\ UNCHANGED <<bound, dnsPort, newnym, rotated>>

-----------------------------------------------------------------------------
(***************************************************************************)
(* SignalNewnym.  The goroutine does nothing else until it returns.        *)
(***************************************************************************)
Outside(g)  == pc[g] = "idle"
NewnymStep  == UNCHANGED <<managerVars, bound, dnsPort>>

NewnymDials(g) ==
  /\ Outside(g) /\ Dial(g)
  /\ newnym' = [newnym EXCEPT ![g] = "pending"]
  /\ rotated' = [rotated EXCEPT ![g] = FALSE]
  /\ NewnymStep

\* Mutant: the answer to AUTHENTICATE is left on the connection.
NewnymAsksAtOnce(g) ==
  /\ Outside(g) /\ talk[g] = "auth"
  /\ Ask(g, "newnym")
  /\ UNCHANGED <<unread, newnym, rotated>>
  /\ NewnymStep

NewnymAsks(g) ==
  /\ Outside(g) /\ talk[g] = "auth" /\ Reads(g, {"250"})
  /\ Ask(g, "newnym")
  /\ Rest(g)
  /\ UNCHANGED <<newnym, rotated>>
  /\ NewnymStep

NewnymReturns(g) ==
  /\ Outside(g)
  /\ \/ talk[g] = "newnym" /\ Reads(g, {"250"}) /\ newnym' = [newnym EXCEPT ![g] = "ok"]
     \/ talk[g] \in Questions /\ ReadFails(g) /\ newnym' = [newnym EXCEPT ![g] = "err"]
  /\ HangUp(g)
  /\ UNCHANGED rotated
  /\ NewnymStep

-----------------------------------------------------------------------------
\* What the Manager does besides: VerifyListeners takes the place of the two
\* steps of TorManager that stand for it.
OtherSteps(g) ==
  \/ Call(g) \/ StopStep(g) \/ WatchStep(g) \/ WatchCrash(g)
  \/ StartLock(g) \/ StartSpawnFails(g) \/ StartSpawn(g)
  \/ StartBootstrapped(g) \/ StartBootstrapFails(g) \/ StartTimesOut(g) \/ StartFailed(g)

VerifyAction(g) ==
  \/ VerifyDials(g) \/ VerifyAsksSocks(g) \/ VerifyAsksDNS(g) \/ VerifyProbes(g)
  \/ VerifySucceeds(g) \/ VerifyFails(g)

NewnymAction(g) == NewnymDials(g) \/ NewnymAsks(g) \/ NewnymReturns(g)

ControlNext ==
  \/ \E g \in Goroutines : talk[g] = "none" /\ OtherSteps(g) /\ UNCHANGED controlVars
  \/ \E g \in Goroutines : VerifyAction(g) \/ NewnymAction(g) \/ TorReplies(g)
  \/ (ScanStep \/ TorStep) /\ UNCHANGED controlVars

ControlSpec == ControlInit /\ [][ControlNext]_allVars

-----------------------------------------------------------------------------
\* A conversation is at one of its answers, with at most one question open.
ControlTypeOK ==
  /\ bound \in [Listeners -> Addresses] /\ dnsPort \in BOOLEAN
  /\ talk \in [Goroutines -> Questions \cup {"none", "probe"}]
  /\ asked \in [Goroutines -> Questions \cup {"none"}]
  /\ unread \in [Goroutines -> Seq(Answers)]
  /\ newnym \in [Goroutines -> {"none", "pending", "ok", "err"}]
  /\ rotated \in [Goroutines -> BOOLEAN]

(***************************************************************************)
(* The detailed conversation implements the Manager: whatever VerifyListe- *)
(* ners and SignalNewnym exchange with Tor, TorManager sees its own steps  *)
(* or none, so all that holds of TorManager holds with the conversations.  *)
(***************************************************************************)
ControlImplementsManager == Spec

(***************************************************************************)
(* SECURITY.md (section 4, item 3) has Start audit the listeners: a Tor    *)
(* whose SOCKS port is bound to 0.0.0.0 is never reported as started.  The *)
(* line looked at must be the answer to that question, which the lines     *)
(* left unread put at risk.  Not so for DNS: the line taken for its answer *)
(* is the second one about SOCKS.                                          *)
(***************************************************************************)
AuditSeesSocks == started = "ok" => bound["socks"] # "0.0.0.0"

\* SignalNewnym returns nil only when Tor has changed its circuits: the "250"
\* it reads is not the one that answers AUTHENTICATE.
NewnymIsDone == \A g \in Goroutines : newnym[g] = "ok" => rotated[g]

(***************************************************************************)
(* The code never waits for a line that Tor does not owe it: with no       *)
(* deadline on the reads, and with m.mu held by Start, that would be for   *)
(* ever.  What is left is a Tor that owes the line and is silent.          *)
(***************************************************************************)
ReadIsOwed ==
  \A g \in Goroutines : talk[g] \in Questions => asked[g] = talk[g] \/ unread[g] # <<>>

-----------------------------------------------------------------------------
(***************************************************************************)
(* The inductive invariant behind the last three: what is unread at each   *)
(* point of a conversation, and what has been established by then.         *)
(***************************************************************************)
\* The question of g is open, with these lines before its answer, or answered.
Open(g, before)    == asked[g] = talk[g] /\ unread[g] = before
Answered(g, lines) == asked[g] = "none" /\ unread[g] = lines

InStep(g) ==
  /\ talk[g] = "none" => asked[g] = "none"
  /\ talk[g] = "auth" =>
       /\ pc[g] = "start.verify" \/ (pc[g] = "idle" /\ newnym[g] = "pending")
       /\ Open(g, <<>>) \/ Answered(g, <<"250">>) \/ Answered(g, <<"515">>)
  /\ talk[g] = "socks" =>
       /\ pc[g] = "start.verify"
       /\ Open(g, <<>>) \/ Answered(g, <<bound["socks"], "250">>)
  /\ talk[g] = "dns" =>
       /\ pc[g] = "start.verify" /\ bound["socks"] # "0.0.0.0"
       /\ Open(g, <<"250">>) \/ (asked[g] = "none" /\ unread[g] # <<>>)
  /\ talk[g] = "probe" =>
       pc[g] = "start.verify" /\ bound["socks"] # "0.0.0.0"
  /\ talk[g] = "newnym" =>
       /\ pc[g] = "idle" /\ newnym[g] = "pending"
       /\ Open(g, <<>>) \/ (Answered(g, <<"250">>) /\ rotated[g])

ControlInv ==
  /\ ControlTypeOK
  /\ \A g \in Goroutines : InStep(g)
  /\ AuditSeesSocks
  /\ NewnymIsDone
=============================================================================

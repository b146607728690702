--------------------------- MODULE ManagerContract ---------------------------
(***************************************************************************)
(* What a Manager promises those who use it, told by what they can see:    *)
(* how its one call of Start went, whether its Tor runs, and whether a     *)
(* Stop has removed its directories.  Every Tor belongs to a Start that    *)
(* was called, is never left behind by one that fails, and does not        *)
(* outlive or follow a Stop.                                               *)
(*                                                                         *)
(* TorManager implements it step by step, with its mutex, its goroutines   *)
(* and its log; GuiServer, which sees its Managers at a coarser grain,     *)
(* implements it for each of them.                                         *)
(***************************************************************************)
VARIABLES
  outcome,  \* of Start: "no", "pending", "ok", "err"
  life,     \* of Tor: "none", "alive", "dead"
  gone      \* the runtime directory has been removed

contractVars == <<outcome, life, gone>>

Init == outcome = "no" /\ life = "none" /\ gone = FALSE

CallsStart ==
  /\ outcome = "no"
  /\ outcome' = "pending"
  /\ UNCHANGED <<life, gone>>

\* A Tor is launched once, for a Start that is still at work.
Launches ==
  /\ outcome = "pending" /\ life = "none" /\ ~gone
  /\ life' = "alive"
  /\ UNCHANGED <<outcome, gone>>

\* The Tor of a Start that succeeds may have died since.
Succeeds ==
  /\ outcome = "pending" /\ life # "none" /\ ~gone
  /\ outcome' = "ok"
  /\ UNCHANGED <<life, gone>>

\* A Start that returns an error has no Tor.
Fails ==
  /\ outcome = "pending" /\ life # "alive"
  /\ outcome' = "err"
  /\ UNCHANGED <<life, gone>>

Dies ==
  /\ life = "alive"
  /\ life' = "dead"
  /\ UNCHANGED <<outcome, gone>>

\* Stop may be called at any time, and again.
Stops ==
  /\ gone' = TRUE
  /\ life' = IF life = "alive" THEN "dead" ELSE life
  /\ UNCHANGED outcome

Next == CallsStart \/ Launches \/ Succeeds \/ Fails \/ Dies \/ Stops

Spec == Init /\ [][Next]_contractVars
=============================================================================

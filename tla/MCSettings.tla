------------------------------ MODULE MCSettings ----------------------------
(***************************************************************************)
(* TLC instance of Settings.  From a startup file with an older block      *)
(* between the user's lines everything the bounds allow; from every file   *)
(* with one block and up to MaxLen pieces, and every short one without,    *)
(* two commands and no request.                                            *)
(***************************************************************************)
EXTENDS Settings, TLC

CONSTANT MaxLen

Symmetry == Permutations(Procs)

ShortTexts == UNION {[1..n -> UserPieces \cup Ours] : n \in 0..MaxLen}
Files      == {t \in ShortTexts : WellFormed(t) /\ (HasBlock(t) \/ Len(t) <= 2)}
OldBlock   == <<"u1", "start", "oldbody", "end", "u2">>

MCInit ==
  \/ /\ original = OldBlock /\ text = OldBlock
     /\ InitWith(0, 0)
  \/ /\ \E t \in Files : original = t /\ text = t
     /\ InitWith(MaxRuns - 2, MaxRequests)

MCSpec == MCInit /\ [][Next]_settingsVars
=============================================================================

------------------------------- MODULE MCNetNS -------------------------------
(***************************************************************************)
(* TLC instance of NetNS: a few interchangeable pids, each used up to      *)
(* MaxStarts times, so that a recorded pid can come back as another        *)
(* process while a third one collects.                                     *)
(***************************************************************************)
EXTENDS NetNS, TLC

Symmetry == Permutations(Pids)
=============================================================================

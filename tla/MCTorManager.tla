---------------------------- MODULE MCTorManager ----------------------------
(***************************************************************************)
(* TLC instance of TorManager: three goroutines, interchangeable, so one   *)
(* can be in Start while another is in Stop and the third is the watchdog; *)
(* a pipe of two lines fills up and wedges Tor.                            *)
(***************************************************************************)
EXTENDS ControlPort, TLC

Symmetry == Permutations(Goroutines)
=============================================================================

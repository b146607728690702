---------------------------- MODULE MCTorSession ----------------------------
(***************************************************************************)
(* TLC instance of TorSession: its three goroutines, two signals, so that  *)
(* one can find the channel occupied by the other.                         *)
(***************************************************************************)
EXTENDS TorSession

MCGoroutines == {"main", "sig", "wd"}
MCCommands   == AllCommands
=============================================================================

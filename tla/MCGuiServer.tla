---------------------------- MODULE MCGuiServer ------------------------------
(***************************************************************************)
(* TLC instance of GuiServer: two requests at a time, two Managers.        *)
(***************************************************************************)
EXTENDS GuiServer
=============================================================================

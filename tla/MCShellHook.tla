----------------------------- MODULE MCShellHook -----------------------------
(***************************************************************************)
(* TLC instance of ShellHook: two processes, one or two startup files that *)
(* are missing, plain or hooked by an older version.                       *)
(***************************************************************************)
EXTENDS ShellHook

\* The files of a user who has, or has not, installed TuxProxy before.
Plain  == <<"u1">>
Stale  == <<"start", "oldbody", "end", "u1">>

AnyTexts   == {Absent, Plain, Stale}
PlainTexts == {Plain}
=============================================================================

------------------------------ MODULE HookEdits ------------------------------
(***************************************************************************)
(* What the edits of HookText do to one startup file, each a step, over    *)
(* any sequence of them.  Settings says who edits the file, and when.      *)
(***************************************************************************)
EXTENDS HookText

VARIABLES
  original,  \* the file before TuxProxy touched it
  text,      \* the file now
  log        \* the last edit: "none", "install" or "remove"

edits == <<original, text, log>>

InstallText == text' = Inject(text) /\ log' = "install" /\ UNCHANGED original
RemoveText  == text' = Strip(text)  /\ log' = "remove"  /\ UNCHANGED original

(***************************************************************************)
(* "Only the block between the markers is modified, the user's aliases and *)
(* scripts stay untouched": after any installations and removals the user  *)
(* finds what he wrote, in the order he wrote it.                          *)
(***************************************************************************)
UserTextUntouched == UserText(text) = UserText(original)

(***************************************************************************)
(* Installing and removing act on one hook: after an installation there is *)
(* one, up to date; after a removal none, as IsHookInstalled sees it.      *)
(***************************************************************************)
LastEditWins ==
  CASE log = "install" -> Inject(text) = text /\ Cardinality(Where(text, "start")) = 1
    [] log = "remove"  -> ~Installed(text) /\ Strip(text) = text
    [] OTHER           -> TRUE
=============================================================================

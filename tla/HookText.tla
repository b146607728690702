------------------------------- MODULE HookText -------------------------------
(***************************************************************************)
(* The text edits of internal/shell/hook.go: injectOrUpdateHook, stripHook *)
(* and the test of IsHookInstalledInFiles, as operators.                   *)
(*                                                                         *)
(* A text is a sequence of pieces: the two markers, the body TuxProxy      *)
(* writes between them, an older version of that body, and pieces of the   *)
(* user.  Blank lines between the pieces, which both edits normalise, are  *)
(* left out.                                                               *)
(***************************************************************************)
EXTENDS Naturals, Sequences, FiniteSets

CONSTANT UserPieces  \* what a user writes: aliases, exports, scripts

Markers  == {"start", "end"}
Ours     == Markers \cup {"body", "oldbody"}
Texts    == Seq(UserPieces \cup Ours)

ASSUME UserPiecesAssumption == UserPieces \cap Ours = {}

\* generateHookBlock
HookBlock == <<"start", "body", "end">>

Where(text, piece) == {i \in 1..Len(text) : text[i] = piece}
First(text, piece) ==
  CHOOSE i \in Where(text, piece) : \A j \in Where(text, piece) : i <= j

\* strings.Index finds both markers, the first end after the first start.
HasBlock(text) ==
  /\ Where(text, "start") # {} /\ Where(text, "end") # {}
  /\ First(text, "start") <= First(text, "end")

Before(text) == SubSeq(text, 1, First(text, "start") - 1)
After(text)  == SubSeq(text, First(text, "end") + 1, Len(text))

\* Mutant: the block is appended when it is there already.
InjectAppends(text) == text \o HookBlock

\* injectOrUpdateHook: the block found is replaced, else one is appended.
Inject(text) ==
  IF HasBlock(text) THEN Before(text) \o HookBlock \o After(text)
                    ELSE text \o HookBlock

\* Mutant: only the start marker decides where the block begins and ends.
StripToEnd(text) == IF HasBlock(text) THEN Before(text) ELSE text

\* stripHook
Strip(text) == IF HasBlock(text) THEN Before(text) \o After(text) ELSE text

\* IsHookInstalledInFiles, for one file
Installed(text) == Where(text, "start") # {}

-----------------------------------------------------------------------------
\* What the user wrote: his pieces, in their order.  The k-th of them is the one
\* that has k up to its place.
UserAt(text) == {i \in 1..Len(text) : text[i] \in UserPieces}
Nth(text, k) == CHOOSE i \in UserAt(text) : Cardinality(UserAt(text) \cap 1..i) = k
UserText(text) == [k \in 1..Cardinality(UserAt(text)) |-> text[Nth(text, k)]]

\* No marker, or one block with nothing of the user inside.
WellFormed(text) ==
  \/ \A i \in 1..Len(text) : text[i] \in UserPieces
  \/ \E i \in 1..Len(text), j \in 1..Len(text) :
       /\ i < j
       /\ Where(text, "start") = {i} /\ Where(text, "end") = {j}
       /\ \A k \in 1..Len(text) : text[k] \in UserPieces <=> (k < i \/ k > j)
=============================================================================

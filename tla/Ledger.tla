------------------------------- MODULE Ledger -------------------------------
(***************************************************************************)
(* What a rollup application and its host promise together: a ledger of    *)
(* outputs that grows by whole requests, and a root hash that commits to   *)
(* the part of it that starts at "base", replaced in the same step.        *)
(***************************************************************************)
EXTENDS Integers, Sequences

CONSTANTS Output, Capacity

VARIABLES ledger, root, base

Init == ledger = <<>> /\ root = <<>> /\ base = 0

\* Past the capacity of a tree, the root commits to nothing.
Commits(r, l, b) == Len(l) < b + Capacity => r = SubSeq(l, b + 1, Len(l))

\* An accepted request appends its outputs and commits to the result.
Accept ==
  /\ ledger' \in Seq(Output)
  /\ SubSeq(ledger', 1, Len(ledger)) = ledger
  /\ base' \in base..Len(ledger')
  /\ Commits(root', ledger', base')

Spec == Init /\ [][Accept]_<<ledger, root, base>>
=============================================================================

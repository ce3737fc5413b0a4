------------------------------- MODULE HexText -------------------------------
(***************************************************************************)
(* Hex text, as the programs read and write it.                            *)
(***************************************************************************)
EXTENDS Integers, Sequences

CONSTANT Base        \* values of a digit, 16 in the code
ASSUME BaseAssumption == Base \in Nat /\ Base > 1

\* Characters are the digits 0..Base - 1 and two others.
X == Base
Other == Base + 1
Zx == <<0, X>>

Digits(s) == \A i \in DOMAIN s : s[i] < Base
Bytes(s) == [i \in 1..(Len(s) \div 2) |-> s[2 * i - 1] * Base + s[2 * i]]
Tail2(s) == SubSeq(s, 3, Len(s))
=============================================================================

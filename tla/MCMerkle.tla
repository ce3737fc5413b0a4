------------------------------ MODULE MCMerkle ------------------------------
(* A tree of height 2 or 3 over two kinds of leaves.                       *)
EXTENDS Merkle
=============================================================================

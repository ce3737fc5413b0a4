------------------------------- MODULE Merkle -------------------------------
(***************************************************************************)
(* The incremental Merkle tree of libcmt (sys-utils/libcmt/src/merkle.c):  *)
(* a counter of leaves and one slot per level, holding the hash of the     *)
(* last complete subtree of that level.  It is pushed to, reset, saved to  *)
(* a file and loaded from one.                                             *)
(*                                                                         *)
(* Hashes are the terms they are the hash of: keccak is taken to be free   *)
(* of collisions, so two hashes are equal iff they hash the same things.   *)
(***************************************************************************)
EXTENDS Integers, Sequences

CONSTANTS
  Height,            \* CMT_MERKLE_TREE_HEIGHT, 63 in the code
  Data,              \* what is hashed into a leaf
  ShortWrites,       \* numbers of fields a save that fails may have written
  MaxSaved           \* bound: only trees of up to so many leaves are saved

ASSUME HeightAssumption == Height \in Nat \ {0}
ASSUME ShortWritesAssumption == ShortWrites \subseteq 0..Height
ASSUME MaxSavedAssumption == MaxSaved \in Nat

Level == 0..(Height - 1)

\* 1 << n, for every n
power_of_two ==
  LET power[n \in 0..Height] == IF n = 0 THEN 1 ELSE 2 * power[n - 1]
  IN  power

MaxCount == power_of_two[Height]

\* count >> n, for every n
shifted(count) ==
  LET half[n \in 0..Height] == IF n = 0 THEN count ELSE half[n - 1] \div 2
  IN  half

ZeroHash == <<>>                       \* 32 zero bytes, no keccak of anything
keccak(data) == <<data>>
concat_hash(lhs, rhs) == <<lhs, rhs>>

\* The table of constants: the hash of an empty subtree of each level.
pristine_hash[i \in Level] ==
  IF i = 0 THEN ZeroHash ELSE concat_hash(pristine_hash[i - 1], pristine_hash[i - 1])

-----------------------------------------------------------------------------
(* The operations, as functions of a tree.                                 *)

EmptyTree == [leaf_count |-> 0, state |-> [i \in Level |-> ZeroHash]]

\* leaf_count & (1 << i)
HasSubtree(tree, i) == shifted(tree.leaf_count)[i] % 2 = 1

\* Mutant of carried: the carry concatenates in the wrong order.
carried_swapped(tree, hash) ==
  LET right[i \in 0..Height] ==
        IF i = 0 THEN hash ELSE concat_hash(right[i - 1], tree.state[i - 1])
  IN  right

\* The carry loop: before level i, the new hash has absorbed the subtrees below.
carried(tree, hash) ==
  LET right[i \in 0..Height] ==
        IF i = 0 THEN hash ELSE concat_hash(tree.state[i - 1], right[i - 1])
  IN  right

\* It ends at the first empty slot, or, with none, at Height.
FirstEmpty(tree) ==
  CHOOSE i \in 0..Height :
    /\ \A j \in 0..(i - 1) : HasSubtree(tree, j)
    /\ i < Height => ~HasSubtree(tree, i)

\* The hash is stored there; at Height it is stored nowhere.
push_back(tree, hash) ==
  [leaf_count |-> tree.leaf_count + 1,
   state |-> [i \in Level |-> IF i = FirstEmpty(tree) THEN carried(tree, hash)[i] ELSE tree.state[i]]]

\* The loop over the levels of cmt_merkle_get_root_hash.
rooted(tree) ==
  LET root[i \in 0..Height] ==
        IF i = 0 THEN ZeroHash
        ELSE IF HasSubtree(tree, i - 1) THEN concat_hash(tree.state[i - 1], root[i - 1])
        ELSE concat_hash(root[i - 1], pristine_hash[i - 1])
  IN  root

get_root_hash(tree) == rooted(tree)[Height]

\* A file holds the first "fields" fields of the image of a tree: leaf_count,
\* then the slots.  Reading it overwrites as many fields of the tree.
NoFile == [fields |-> 0, image |-> EmptyTree]
FullImage == Height + 1

Overlay(tree, f) ==
  [leaf_count |-> IF f.fields > 0 THEN f.image.leaf_count ELSE tree.leaf_count,
   state |-> [i \in Level |-> IF i + 1 < f.fields THEN f.image.state[i] ELSE tree.state[i]]]

\* Mutant of load_rc: the length that was read is not checked.
load_rc_unchecked(f) == "OK"

load_rc(f) == IF f.fields = FullImage THEN "OK" ELSE "EINVAL"

-----------------------------------------------------------------------------
VARIABLES
  tree,      \* cmt_merkle_t
  file,      \* the file cmt_merkle_save writes
  leaves,    \* history: the data in the tree, as its user believes it to be
  saved,     \* history: the data in the tree when it was last saved in full
  trusted    \* history: no call has told the user that the tree is unusable

vars == <<tree, file, leaves, saved, trusted>>

Init ==
  /\ tree = EmptyTree
  /\ file = NoFile
  /\ leaves = <<>>
  /\ saved = <<>>
  /\ trusted = TRUE

cmt_merkle_reset ==
  /\ tree' = EmptyTree
  /\ leaves' = <<>>
  /\ trusted' = TRUE
  /\ UNCHANGED <<file, saved>>

\* Mutant of cmt_merkle_push_back_data: a full tree is pushed to.
push_back_data_to_full(d) ==
  /\ trusted
  /\ tree' = push_back(tree, keccak(d))
  /\ leaves' = Append(leaves, d)
  /\ UNCHANGED <<file, saved, trusted>>

cmt_merkle_push_back_data(d) ==
  /\ trusted
  /\ tree.leaf_count # MaxCount          \* else -ENOBUFS, and nothing changes
  /\ tree' = push_back(tree, keccak(d))
  /\ leaves' = Append(leaves, d)
  /\ UNCHANGED <<file, saved, trusted>>

cmt_merkle_save ==
  /\ trusted /\ tree.leaf_count <= MaxSaved
  /\ file' = [fields |-> FullImage, image |-> tree]
  /\ saved' = leaves
  /\ UNCHANGED <<tree, leaves, trusted>>

\* The file is truncated when it is opened: a failed write leaves a shorter one.
cmt_merkle_save_fails(n) ==
  /\ trusted /\ tree.leaf_count <= MaxSaved
  /\ file' = [fields |-> n, image |-> tree]
  /\ UNCHANGED <<tree, leaves, saved, trusted>>

cmt_merkle_load ==
  /\ tree' = Overlay(tree, file)
  /\ trusted' = (load_rc(file) = "OK")
  /\ leaves' = IF trusted' THEN saved ELSE leaves
  /\ UNCHANGED <<file, saved>>

Next ==
  \/ cmt_merkle_reset
  \/ \E d \in Data : cmt_merkle_push_back_data(d)
  \/ cmt_merkle_save
  \/ \E n \in ShortWrites : cmt_merkle_save_fails(n)
  \/ cmt_merkle_load

Spec == Init /\ [][Next]_vars

-----------------------------------------------------------------------------
(* The reference: the complete binary tree over the leaves, padded with    *)
(* zeros to 2^Height.                                                      *)

ReferenceLeaf(s, k) == IF k < Len(s) THEN keccak(s[k + 1]) ELSE ZeroHash

\* The kth node of each height.
ReferenceNode(s) ==
  LET node[h \in 0..Height] ==
        [k \in Nat |-> IF h = 0 THEN ReferenceLeaf(s, k)
                       ELSE concat_hash(node[h - 1][2 * k], node[h - 1][2 * k + 1])]
  IN  node

ReferenceRoot(s) == ReferenceNode(s)[Height][0]

TypeOK ==
  /\ tree.leaf_count \in 0..MaxCount
  /\ DOMAIN tree.state = Level
  /\ file.fields \in 0..FullImage
  /\ leaves \in Seq(Data) /\ saved \in Seq(Data)
  /\ trusted \in BOOLEAN

\* The root computed from the counter and the slots is the root of the whole
\* padded tree, after any pushes, resets, saves and loads (get_root_hash,
\* push_back, load, save), as long as the tree is not full.
RootIsReference ==
  (trusted /\ tree.leaf_count < MaxCount) => get_root_hash(tree) = ReferenceRoot(leaves)

\* Each slot the counter says is in use holds the complete subtree that ends
\* where the larger ones leave off: what push_back relies on when it carries.
SlotsHoldSubtrees ==
  trusted => \A i \in Level : HasSubtree(tree, i) =>
    tree.state[i] = ReferenceNode(leaves)[i][shifted(tree.leaf_count)[i] - 1]

\* merkle.h says of cmt_merkle_get_root_hash: "Compute the root hash of the
\* merkle tree", with no exception for a tree that push_back has filled.
RootOfAnyTreeIsReference ==
  trusted => get_root_hash(tree) = ReferenceRoot(leaves)
=============================================================================

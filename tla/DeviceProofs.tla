---------------------------- MODULE DeviceProofs ----------------------------
(***************************************************************************)
(* Theorems of the two modules that give Rollup.tla a device: RollupCli,   *)
(* where one process after another opens it, for any number of processes   *)
(* and any commands; and IoMock, where a mock replaces it, for any lists   *)
(* of inputs, any outputs and any bounds on the counters.                  *)
(***************************************************************************)
EXTENDS RollupCli, IoMock, RollupProofs

(* RollupCli: the inductive invariant.  Trees may have leaves that a torn  *)
(* file left.                                                              *)

Tree == {t \in Seq(Output \cup {NoHash}) : Len(t) <= Capacity}
Indexed(indices) == \A e \in indices : e.index \in Nat

TypesCli ==
  /\ merkle \in Tree /\ file.tree \in Tree
  /\ outputs \in Seq(Output) /\ settled \in Nat /\ settled <= Len(outputs)
  /\ mark \in Nat /\ claim.mark \in Nat
  /\ Indexed(issued)
  /\ proc = [p \in Proc |-> proc[p]]

\* The tree lists the outputs from a position on up to the nth, and the indices
\* that were given out name its leaves.
Good(tree, indices, from, outs, n) ==
  /\ from + Len(tree) <= n
  /\ \A i \in 1..Len(tree) : tree[i] = outs[from + i]
  /\ Len(tree) < Capacity => from + Len(tree) = n
  /\ IssuedInTree(indices, tree)

Held(pr) == \E p \in Proc : pr[p].at # "gone"
OneAtMost(pr) == \A p, q \in Proc : pr[p].at # "gone" /\ pr[q].at # "gone" => p = q

\* A good tree is in the process that has the device, or else in the file; in
\* both when that process has saved it.
TreeKept(pr, f, l, tree, indices, from, outs, n) ==
  ~l => /\ Held(pr) => Good(tree, indices, from, outs, n)
        /\ ~Held(pr) => f.state # "cut" /\ Good(f.tree, indices, from, outs, n)
        /\ \A p \in Proc : pr[p].at = "saved" => f.state # "cut" /\ f.tree = tree

TreeInv ==
  OneAtMost(proc) /\ TreeKept(proc, file, lost, merkle, issued, mark, outputs, Len(outputs))

\* So it is in the saved machine, for the outputs that are settled.
SavedInv ==
  snapshot.taken =>
    /\ snapshot.merkle \in Tree /\ saved.file.tree \in Tree
    /\ snapshot.mark \in Nat /\ Indexed(snapshot.issued)
    /\ saved.proc = [p \in Proc |-> saved.proc[p]]
    /\ OneAtMost(saved.proc)
    /\ TreeKept(saved.proc, saved.file, saved.lost, snapshot.merkle, snapshot.issued,
                snapshot.mark, outputs, settled)

CliInv == TypesCli /\ TreeInv /\ SavedInv /\ AcceptedRootCoversSettled

-----------------------------------------------------------------------------
(* Lemmas on trees.                                                        *)

\* A tree is a sequence.
LEMMA TreeFacts ==
  ASSUME NEW tree \in Tree
  PROVE  /\ tree \in Seq(Output \cup {NoHash})
         /\ Len(tree) \in Nat /\ Len(tree) <= Capacity
BY DEF Tree

\* Only the outputs up to the nth matter.
LEMMA GoodMoves ==
  ASSUME NEW tree \in Tree, NEW indices, NEW from \in Nat, NEW outs, NEW outs2, NEW n \in Nat,
         \A i \in 1..n : outs2[i] = outs[i], Good(tree, indices, from, outs, n)
  PROVE  Good(tree, indices, from, outs2, n)
<1>1. Len(tree) \in Nat
  BY TreeFacts
<1>2. \A i \in 1..Len(tree) : from + i \in 1..n
  BY <1>1 DEF Good
<1>. QED
  BY <1>2 DEF Good

\* The empty tree, from here on.
LEMMA GoodEmpty ==
  ASSUME NEW from \in Nat, NEW outs
  PROVE  <<>> \in Tree /\ Good(<<>>, {}, from, outs, from)
BY CapacityAssumption DEF Tree, Good, IssuedInTree

\* A new output that becomes a leaf.
LEMMA GoodAppend ==
  ASSUME NEW tree \in Tree, NEW indices, Indexed(indices), NEW from \in Nat,
         NEW outs \in Seq(Output), NEW o \in Output,
         Len(tree) # Capacity, Good(tree, indices, from, outs, Len(outs))
  PROVE  /\ Append(tree, o) \in Tree
         /\ Good(Append(tree, o), indices \cup {[index |-> Len(tree), output |-> o]}, from,
                 Append(outs, o), Len(outs) + 1)
<1>. DEFINE tree2 == Append(tree, o)
            outs2 == Append(outs, o)
<1>1. tree \in Seq(Output \cup {NoHash}) /\ Len(tree) \in Nat /\ Len(tree) < Capacity
  BY TreeFacts, CapacityAssumption
<1>2. /\ tree2 \in Seq(Output \cup {NoHash}) /\ Len(tree2) = Len(tree) + 1
      /\ tree2[Len(tree) + 1] = o /\ \A i \in 1..Len(tree) : tree2[i] = tree[i]
  BY <1>1, AppendProperties
<1>3. /\ outs2[Len(outs) + 1] = o /\ \A i \in 1..Len(outs) : outs2[i] = outs[i]
  BY AppendProperties
<1>4. Len(outs) \in Nat /\ from + Len(tree) = Len(outs)
  BY <1>1 DEF Good
<1>. HIDE DEF tree2, outs2
<1>5. tree2 \in Tree
  BY <1>1, <1>2, CapacityAssumption DEF Tree
<1>6. ASSUME NEW i \in 1..Len(tree2) PROVE tree2[i] = outs2[from + i]
  <2>1. CASE i = Len(tree) + 1
    BY <1>2, <1>3, <1>4, <2>1
  <2>2. CASE i # Len(tree) + 1
    <3>1. i \in 1..Len(tree) /\ from + i \in 1..Len(outs)
      BY <1>1, <1>2, <1>4, <2>2
    <3>. QED
      BY <1>2, <1>3, <3>1 DEF Good
  <2>. QED
    BY <2>1, <2>2
<1>7. IssuedInTree(indices \cup {[index |-> Len(tree), output |-> o]}, tree2)
  <2>1. ASSUME NEW e \in indices PROVE e.index < Len(tree2) /\ tree2[e.index + 1] = e.output
    <3>1. e.index \in Nat /\ e.index < Len(tree) /\ tree[e.index + 1] = e.output
      BY DEF Indexed, Good, IssuedInTree
    <3>2. e.index + 1 \in 1..Len(tree)
      BY <1>1, <3>1
    <3>. QED
      BY <1>1, <1>2, <3>1, <3>2
  <2>2. Len(tree) < Len(tree2)
    BY <1>1, <1>2
  <2>. QED
    BY <1>2, <2>1, <2>2 DEF IssuedInTree
<1>8. from + Len(tree2) = Len(outs) + 1
  BY <1>1, <1>2, <1>4
<1>9. Good(tree2, indices \cup {[index |-> Len(tree), output |-> o]}, from, outs2, Len(outs) + 1)
  BY <1>4, <1>6, <1>7, <1>8 DEF Good
<1>. QED
  BY <1>5, <1>9 DEF tree2, outs2

\* A new output that does not fit into the tree.
LEMMA GoodFull ==
  ASSUME NEW tree \in Tree, NEW indices, NEW from \in Nat,
         NEW outs \in Seq(Output), NEW o \in Output,
         Len(tree) = Capacity, Good(tree, indices, from, outs, Len(outs))
  PROVE  Good(tree, indices, from, Append(outs, o), Len(outs) + 1)
<1>1. \A i \in 1..Len(outs) : Append(outs, o)[i] = outs[i]
  BY AppendProperties
<1>2. Len(tree) \in Nat /\ Len(outs) \in Nat
  BY TreeFacts
<1>3. \A i \in 1..Len(tree) : from + i \in 1..Len(outs)
  BY <1>2 DEF Good
<1>. QED
  BY <1>1, <1>2, <1>3, CapacityAssumption DEF Good

\* The root of a good tree covers the outputs from its start.
LEMMA GoodRoot ==
  ASSUME NEW tree \in Tree, NEW indices, NEW from \in Nat, NEW outs \in Seq(Output),
         Good(tree, indices, from, outs, Len(outs)), Len(outs) < from + Capacity
  PROVE  root_hash(tree) = SubSeq(outs, from + 1, Len(outs))
<1>. DEFINE sub == SubSeq(outs, from + 1, Len(outs))
<1>1. /\ tree \in Seq(Output \cup {NoHash}) /\ Len(tree) \in Nat /\ Len(outs) \in Nat
      /\ Len(tree) <= Capacity /\ from + Len(tree) <= Len(outs)
  BY TreeFacts DEF Good
<1>2. Len(tree) < Capacity /\ from + Len(tree) = Len(outs)
  BY <1>1, CapacityAssumption DEF Good
<1>3. \A i \in (from + 1)..Len(outs) : outs[i] \in Output \cup {NoHash}
  BY <1>1
<1>4. /\ sub \in Seq(Output \cup {NoHash})
      /\ Len(sub) = IF from + 1 <= Len(outs) THEN Len(outs) - (from + 1) + 1 ELSE 0
      /\ \A i \in 1..(Len(outs) - (from + 1) + 1) : sub[i] = outs[from + 1 + i - 1]
  BY <1>1, <1>3, SubSeqProperties
<1>5. Len(sub) = Len(tree) /\ \A i \in 1..Len(tree) : sub[i] = outs[from + i]
  <2>1. Len(sub) = Len(tree) /\ Len(outs) - (from + 1) + 1 = Len(tree)
    BY <1>1, <1>2, <1>4
  <2>2. \A i \in 1..Len(tree) : from + 1 + i - 1 = from + i
    BY <1>1
  <2>. QED
    BY <1>4, <2>1, <2>2
<1>. HIDE DEF sub
<1>6. \A i \in 1..Len(tree) : sub[i] = tree[i]
  BY <1>5 DEF Good
<1>7. tree = sub
  BY <1>1, <1>4, <1>5, <1>6, SeqEqual
<1>. QED
  BY <1>2, <1>7, CapacityAssumption DEF root_hash, sub

\* What a load makes of a file.
LEMMA LoadsTrees ==
  ASSUME NEW f, f.tree \in Tree
  PROVE  /\ Loads(f) \subseteq Tree
         /\ f.state # "cut" => Loads(f) = {f.tree}
<1>1. <<>> \in Tree
  BY CapacityAssumption DEF Tree
<1>2. Torn(f.tree) \in Tree
  <2>. DEFINE n == Len(f.tree)
              torn == [i \in 1..n |-> NoHash]
  <2>1. n \in Nat /\ n <= Capacity
    BY TreeFacts
  <2>2. torn \in Seq(Output \cup {NoHash}) /\ Len(torn) = n
    BY <2>1, IsASeq
  <2>. QED
    BY <2>1, <2>2 DEF Torn, Tree
<1>. QED
  BY <1>1, <1>2 DEF Loads

-----------------------------------------------------------------------------
(* Lemmas on single moves.                                                 *)

\* What is said of the settled outputs depends on them only.
LEMMA SettledStays ==
  ASSUME CliInv, UNCHANGED <<settled, claim, snapshot, saved>>,
         \A i \in 1..settled : outputs'[i] = outputs[i]
  PROVE  SavedInv' /\ AcceptedRootCoversSettled'
<1>1. TypesCli /\ SavedInv /\ AcceptedRootCoversSettled
  BY DEF CliInv
<1>2. SavedInv'
  <2>1. SUFFICES ASSUME snapshot.taken,
                        TreeKept(saved.proc, saved.file, saved.lost, snapshot.merkle,
                                 snapshot.issued, snapshot.mark, outputs, settled)
                 PROVE  TreeKept(saved.proc, saved.file, saved.lost, snapshot.merkle,
                                 snapshot.issued, snapshot.mark, outputs', settled)
    BY <1>1 DEF SavedInv
  <2>2. /\ snapshot.merkle \in Tree /\ saved.file.tree \in Tree
        /\ snapshot.mark \in Nat /\ settled \in Nat
    BY <1>1, <2>1 DEF SavedInv, TypesCli
  <2>3. ASSUME NEW tree \in Tree,
               Good(tree, snapshot.issued, snapshot.mark, outputs, settled)
        PROVE  Good(tree, snapshot.issued, snapshot.mark, outputs', settled)
    BY <2>2, <2>3, GoodMoves
  <2>. QED
    BY <2>1, <2>2, <2>3 DEF TreeKept
<1>3. AcceptedRootCoversSettled'
  <2>1. \A i \in (claim.mark + 1)..settled : outputs[i] \in Output /\ outputs'[i] = outputs[i]
    BY <1>1 DEF TypesCli
  <2>2. claim.mark + 1 \in Int /\ settled \in Int
    BY <1>1 DEF TypesCli
  <2>3. SubSeq(outputs, claim.mark + 1, settled) = SubSeq(outputs', claim.mark + 1, settled)
    BY <2>1, <2>2, SubSeqAgree
  <2>. QED
    BY <1>1, <2>3 DEF AcceptedRootCoversSettled, ClaimCoversSettled
<1>. QED
  BY <1>2, <1>3

\* The process that has the device goes from one step to the next, and nothing
\* happens to its tree.
LEMMA MoveKeepsTree ==
  ASSUME CliInv, NEW p \in Proc, NEW entry, proc' = [proc EXCEPT ![p] = entry],
         proc[p].at # "gone", entry.at \notin {"gone", "saved"}, file'.tree \in Tree,
         UNCHANGED <<merkle, issued, mark, outputs, settled, claim, snapshot, saved, lost>>
  PROVE  CliInv'
<1>1. TypesCli /\ TreeInv
  BY DEF CliInv
<1>2. proc'[p] = entry /\ \A q \in Proc : q # p => proc'[q] = proc[q]
  BY <1>1 DEF TypesCli
<1>3. \A q \in Proc : q # p => proc[q].at = "gone"
  BY <1>1 DEF TreeInv, OneAtMost
<1>4. TypesCli'
  BY <1>1 DEF TypesCli
<1>5. TreeInv'
  <2>1. OneAtMost(proc') /\ Held(proc') /\ Held(proc)
    BY <1>2, <1>3 DEF OneAtMost, Held
  <2>2. \A q \in Proc : proc'[q].at # "saved"
    BY <1>2, <1>3
  <2>. QED
    BY <1>1, <2>1, <2>2 DEF TreeInv, TreeKept
<1>6. SavedInv' /\ AcceptedRootCoversSettled'
  BY SettledStays
<1>. QED
  BY <1>4, <1>5, <1>6 DEF CliInv

\* Nothing changes that the invariant is about.
LEMMA StutterKeepsTree ==
  ASSUME CliInv, UNCHANGED <<proc, file, merkle, issued, mark, outputs, settled, claim,
                             snapshot, saved, lost>>
  PROVE  CliInv'
<1>1. TypesCli' /\ TreeInv'
  BY DEF CliInv, TypesCli, TreeInv
<1>2. SavedInv' /\ AcceptedRootCoversSettled'
  BY SettledStays
<1>. QED
  BY <1>1, <1>2 DEF CliInv

\* The constructor.
LEMMA StartKeepsTree ==
  ASSUME CliInv, NEW p \in Proc, NEW command, start(p, command)
  PROVE  CliInv'
<1>1. TypesCli /\ TreeInv
  BY DEF CliInv
<1>2. /\ proc' = [proc EXCEPT ![p] = [at |-> "opened", command |-> command]]
      /\ merkle' \in Loads(file) /\ \A q \in Proc : proc[q].at = "gone"
      /\ UNCHANGED <<issued, mark, outputs, settled, claim, snapshot, saved, file, lost>>
  BY DEF start, DeviceFree, At, host
<1>3. proc'[p].at = "opened" /\ \A q \in Proc : q # p => proc'[q].at = "gone"
  BY <1>1, <1>2 DEF TypesCli
<1>4. merkle' \in Tree /\ (file.state # "cut" => merkle' = file.tree)
  <2>1. file.tree \in Tree
    BY <1>1 DEF TypesCli
  <2>. QED
    BY <1>2, <2>1, LoadsTrees
<1>5. TypesCli'
  BY <1>1, <1>2, <1>4 DEF TypesCli
<1>6. TreeInv'
  <2>1. ~Held(proc) /\ Held(proc') /\ OneAtMost(proc')
    BY <1>2, <1>3 DEF Held, OneAtMost
  <2>2. \A q \in Proc : proc'[q].at # "saved"
    BY <1>3
  <2>. QED
    BY <1>1, <1>2, <1>4, <2>1, <2>2 DEF TreeInv, TreeKept
<1>7. SavedInv' /\ AcceptedRootCoversSettled'
  BY <1>2, SettledStays
<1>. QED
  BY <1>5, <1>6, <1>7 DEF CliInv

\* The save is over: the file has the tree, or the tree is lost.
LEMMA SaveKeepsTree ==
  ASSUME CliInv, NEW p \in Proc, proc[p].at # "gone", Goto(p, "saved"),
         file'.tree \in Tree,
         UNCHANGED <<merkle, issued, mark, outputs, settled, claim, snapshot, saved>>,
         ~lost' => ~lost /\ file'.state # "cut" /\ file'.tree = merkle
  PROVE  CliInv'
<1>1. TypesCli /\ TreeInv
  BY DEF CliInv
<1>2. proc'[p].at = "saved" /\ \A q \in Proc : q # p => proc'[q].at = "gone"
  BY <1>1 DEF TypesCli, TreeInv, OneAtMost, Goto
<1>3. TypesCli'
  BY <1>1 DEF TypesCli, Goto
<1>4. TreeInv'
  <2>1. Held(proc) /\ Held(proc') /\ OneAtMost(proc')
    BY <1>2 DEF Held, OneAtMost
  <2>. QED
    BY <1>1, <2>1 DEF TreeInv, TreeKept
<1>5. SavedInv' /\ AcceptedRootCoversSettled'
  BY SettledStays
<1>. QED
  BY <1>3, <1>4, <1>5 DEF CliInv

\* The process leaves the device.
LEMMA LeaveKeepsTree ==
  ASSUME CliInv, NEW p \in Proc, proc[p].at # "gone", LeaveDevice(p),
         ~lost' => ~lost /\ (proc[p].at = "saved" \/ (file.state # "cut" /\ file.tree = merkle))
  PROVE  CliInv'
<1>1. TypesCli /\ TreeInv
  BY DEF CliInv
<1>2. /\ proc' = [proc EXCEPT ![p] = Gone] /\ merkle' = <<>>
      /\ UNCHANGED <<issued, mark, outputs, settled, claim, snapshot, saved, file>>
  BY DEF LeaveDevice, host
<1>3. \A q \in Proc : proc'[q].at = "gone"
  BY <1>1, <1>2 DEF TypesCli, TreeInv, OneAtMost, Gone
<1>4. TypesCli'
  <2>1. merkle' \in Tree
    BY <1>2, GoodEmpty
  <2>. QED
    BY <1>1, <1>2, <2>1 DEF TypesCli
<1>5. TreeInv'
  <2>1. Held(proc) /\ ~Held(proc') /\ OneAtMost(proc')
    BY <1>3 DEF Held, OneAtMost
  <2>2. ~lost' => file.state # "cut" /\ file.tree = merkle
    BY <1>1 DEF TreeInv, TreeKept
  <2>. QED
    BY <1>1, <1>2, <1>3, <2>1, <2>2 DEF TreeInv, TreeKept
<1>6. SavedInv' /\ AcceptedRootCoversSettled'
  BY <1>2, SettledStays
<1>. QED
  BY <1>4, <1>5, <1>6 DEF CliInv

\* The process that has the device changes the tree.
LEMMA HolderKeepsTree ==
  ASSUME CliInv, NEW p \in Proc, NEW entry, proc' = [proc EXCEPT ![p] = entry],
         proc[p].at # "gone", entry.at \notin {"gone", "saved"},
         ~lost' => Good(merkle', issued', mark', outputs', Len(outputs'))
  PROVE  TreeInv' /\ proc' = [q \in Proc |-> proc'[q]]
<1>1. TypesCli /\ TreeInv
  BY DEF CliInv
<1>2. proc'[p] = entry /\ \A q \in Proc : q # p => proc'[q] = proc[q]
  BY <1>1 DEF TypesCli
<1>3. \A q \in Proc : q # p => proc[q].at = "gone"
  BY <1>1 DEF TreeInv, OneAtMost
<1>4. OneAtMost(proc') /\ Held(proc') /\ \A q \in Proc : proc'[q].at # "saved"
  BY <1>2, <1>3 DEF OneAtMost, Held
<1>. QED
  BY <1>1, <1>4 DEF TypesCli, TreeInv, TreeKept

\* An output goes to the host, and becomes a leaf or not.
LEMMA EmissionKeepsTree ==
  ASSUME CliInv, NEW p \in Proc, proc[p].at # "gone", Goto(p, "returned"),
         NEW o \in Output, NEW rc, emit_output(o, rc), UNCHANGED <<file, lost, saved>>
  PROVE  CliInv'
<1>. DEFINE entry == [at |-> "returned", command |-> "none"]
<1>0. proc' = [proc EXCEPT ![p] = entry] /\ entry.at \notin {"gone", "saved"}
  BY DEF Goto
<1>. HIDE DEF entry
<1>1. TypesCli /\ TreeInv
  BY DEF CliInv
<1>2. CASE UNCHANGED vars
  <2>1. UNCHANGED <<merkle, issued, mark, outputs, settled, claim, snapshot>>
    BY <1>2 DEF vars, guest, host
  <2>2. file'.tree \in Tree
    BY <1>1 DEF TypesCli
  <2>. QED
    BY <1>0, <2>1, <2>2, MoveKeepsTree
<1>3. CASE ~UNCHANGED vars
  <2>1. /\ outputs' = Append(outputs, o)
        /\ \/ /\ Len(merkle) # Capacity
              /\ merkle' = Append(merkle, o)
              /\ issued' = issued \cup {[index |-> next_index, output |-> o]}
           \/ Len(merkle) = Capacity /\ merkle' = merkle /\ issued' = issued
        /\ UNCHANGED <<mark, settled, claim, snapshot>>
    BY <1>3, EmitCases, Zenon
  <2>2. /\ merkle \in Tree /\ outputs \in Seq(Output) /\ mark \in Nat /\ Indexed(issued)
        /\ settled \in Nat /\ settled <= Len(outputs)
        /\ ~lost => Good(merkle, issued, mark, outputs, Len(outputs))
    BY <1>1 DEF TypesCli, TreeInv, TreeKept, Held
  <2>3. /\ outputs' \in Seq(Output) /\ Len(outputs') = Len(outputs) + 1
        /\ \A i \in 1..Len(outputs) : outputs'[i] = outputs[i]
    BY <2>1, <2>2, AppendProperties
  <2>4. next_index \in Nat
    BY <2>2, TreeFacts DEF next_index
  <2>5. Indexed(issued')
    BY <2>1, <2>2, <2>4 DEF Indexed
  <2>6. merkle' \in Tree
    <3>1. CASE Len(merkle) # Capacity /\ merkle' = Append(merkle, o)
      <4>1. merkle' \in Seq(Output \cup {NoHash}) /\ Len(merkle') = Len(merkle) + 1
        BY <2>2, <3>1, TreeFacts, AppendProperties
      <4>2. Len(merkle) \in Nat /\ Len(merkle) < Capacity
        BY <2>2, <3>1, TreeFacts, CapacityAssumption
      <4>. QED
        BY <4>1, <4>2, CapacityAssumption DEF Tree
    <3>2. CASE merkle' = merkle
      BY <2>2, <3>2
    <3>. QED
      BY <2>1, <3>1, <3>2
  <2>7. ~lost' => Good(merkle', issued', mark', outputs', Len(outputs'))
    <3>1. SUFFICES ASSUME Good(merkle, issued, mark, outputs, Len(outputs))
                   PROVE  Good(merkle', issued', mark, Append(outputs, o), Len(outputs) + 1)
      BY <2>1, <2>2, <2>3
    <3>2. CASE Len(merkle) # Capacity
      <4>1. Good(Append(merkle, o), issued \cup {[index |-> Len(merkle), output |-> o]}, mark,
                 Append(outputs, o), Len(outputs) + 1)
        BY <2>2, <3>1, <3>2, GoodAppend
      <4>2. /\ merkle' = Append(merkle, o)
            /\ issued' = issued \cup {[index |-> Len(merkle), output |-> o]}
        BY <2>1, <3>2 DEF next_index
      <4>. QED
        BY <4>1, <4>2
    <3>3. CASE Len(merkle) = Capacity
      BY <2>1, <2>2, <3>1, <3>3, GoodFull
    <3>. QED
      BY <3>2, <3>3
  <2>8. TreeInv' /\ proc' = [q \in Proc |-> proc'[q]]
    BY <1>0, <2>7, HolderKeepsTree
  <2>9. TypesCli'
    <3>1. settled' \in Nat /\ settled' <= Len(outputs')
      BY <2>1, <2>2, <2>3
    <3>. QED
      BY <1>1, <2>1, <2>3, <2>5, <2>6, <2>8, <3>1 DEF TypesCli
  <2>10. SavedInv' /\ AcceptedRootCoversSettled'
    <3>1. \A i \in 1..settled : outputs'[i] = outputs[i]
      BY <2>2, <2>3
    <3>. QED
      BY <2>1, <3>1, SettledStays
  <2>. QED
    BY <2>8, <2>9, <2>10 DEF CliInv
<1>. QED
  BY <1>2, <1>3

\* A finish is accepted: the machine that is saved has this tree in it.
LEMMA AcceptKeepsTree ==
  ASSUME CliInv, NEW p \in Proc, proc[p].at # "gone", Goto(p, "calling"), finish_accept,
         saved' = [taken |-> TRUE, proc |-> proc', file |-> file, lost |-> lost],
         UNCHANGED <<file, lost>>
  PROVE  CliInv'
<1>. DEFINE entry == [at |-> "calling", command |-> "none"]
<1>0. proc' = [proc EXCEPT ![p] = entry] /\ entry.at \notin {"gone", "saved"}
  BY DEF Goto
<1>. HIDE DEF entry
<1>1. TypesCli /\ TreeInv
  BY DEF CliInv
<1>2. /\ UNCHANGED <<merkle, issued, mark, outputs>>
      /\ settled' = Len(outputs)
      /\ claim' = [root |-> root_hash(merkle), mark |-> mark]
      /\ snapshot' = [taken |-> TRUE, merkle |-> merkle, issued |-> issued, mark |-> mark]
  BY DEF finish_accept
<1>3. ~lost => Good(merkle, issued, mark, outputs, Len(outputs))
  BY <1>1 DEF TreeInv, TreeKept, Held
<1>4. TreeInv' /\ proc' = [q \in Proc |-> proc'[q]]
  BY <1>0, <1>2, <1>3, HolderKeepsTree
<1>5. TypesCli'
  <2>1. settled' \in Nat /\ settled' <= Len(outputs')
    BY <1>1, <1>2 DEF TypesCli
  <2>. QED
    BY <1>1, <1>2, <1>4, <2>1 DEF TypesCli
<1>6. SavedInv'
  BY <1>2, <1>4, <1>5 DEF SavedInv, TypesCli, TreeInv
<1>7. AcceptedRootCoversSettled'
  <2>1. SUFFICES ASSUME ~lost, Len(outputs) < mark + Capacity
                 PROVE  root_hash(merkle) = SubSeq(outputs, mark + 1, Len(outputs))
    BY <1>2 DEF AcceptedRootCoversSettled, ClaimCoversSettled
  <2>. QED
    BY <1>1, <1>3, <2>1, GoodRoot DEF TypesCli
<1>. QED
  BY <1>4, <1>5, <1>6, <1>7 DEF CliInv

\* An advance is taken: the tree starts again.
LEMMA ResetKeepsTree ==
  ASSUME CliInv, NEW p \in Proc, proc[p].at # "gone", Goto(p, "returned"),
         cmt_rollup_reset_merkle, lost' = FALSE, UNCHANGED <<file, saved>>
  PROVE  CliInv'
<1>. DEFINE entry == [at |-> "returned", command |-> "none"]
<1>0. proc' = [proc EXCEPT ![p] = entry] /\ entry.at \notin {"gone", "saved"}
  BY DEF Goto
<1>. HIDE DEF entry
<1>1. TypesCli /\ Len(outputs) \in Nat
  BY DEF CliInv, TypesCli
<1>2. /\ merkle' = <<>> /\ issued' = {} /\ mark' = Len(outputs)
      /\ UNCHANGED <<outputs, settled, claim, snapshot>>
  BY DEF cmt_rollup_reset_merkle, host
<1>3. merkle' \in Tree /\ Good(merkle', issued', mark', outputs', Len(outputs'))
  BY <1>1, <1>2, GoodEmpty
<1>4. TreeInv' /\ proc' = [q \in Proc |-> proc'[q]]
  BY <1>0, <1>3, HolderKeepsTree
<1>5. TypesCli'
  BY <1>1, <1>2, <1>3, <1>4 DEF TypesCli, Indexed
<1>6. SavedInv' /\ AcceptedRootCoversSettled'
  BY <1>2, SettledStays
<1>. QED
  BY <1>4, <1>5, <1>6 DEF CliInv

\* The host puts back the machine it saved, with its processes and its file.
LEMMA PutBackKeepsTree ==
  ASSUME CliInv, put_back
  PROVE  CliInv'
<1>1. /\ snapshot.taken
      /\ outputs' = SubSeq(outputs, 1, settled)
      /\ merkle' = snapshot.merkle /\ issued' = snapshot.issued /\ mark' = snapshot.mark
      /\ proc' = saved.proc /\ file' = saved.file /\ lost' = saved.lost
      /\ UNCHANGED <<settled, claim, snapshot, saved>>
  BY DEF put_back, host_revert
<1>2. TypesCli /\ SavedInv
  BY DEF CliInv
<1>3. /\ outputs' \in Seq(Output) /\ Len(outputs') = settled /\ settled \in Nat
      /\ \A i \in 1..settled : outputs'[i] = outputs[i]
  <2>1. settled \in Nat /\ \A i \in 1..settled : outputs[i] \in Output
    BY <1>2 DEF TypesCli
  <2>. QED
    BY <1>1, <2>1, SubSeqProperties
<1>4. SavedInv' /\ AcceptedRootCoversSettled'
  BY <1>1, <1>3, SettledStays
<1>5. TypesCli'
  BY <1>1, <1>2, <1>3 DEF TypesCli, SavedInv
<1>6. TreeInv'
  BY <1>1, <1>3, <1>4 DEF TreeInv, SavedInv
<1>. QED
  BY <1>4, <1>5, <1>6 DEF CliInv

-----------------------------------------------------------------------------
(* The invariant.                                                          *)

\* It holds at the start.
LEMMA InitCliInv == InitCli => CliInv
<1>. SUFFICES ASSUME InitCli PROVE CliInv
  OBVIOUS
<1>1. /\ merkle = <<>> /\ outputs = <<>> /\ issued = {} /\ mark = 0 /\ settled = 0
      /\ ~snapshot.taken /\ claim.root = <<>> /\ claim.mark = 0
      /\ proc = [p \in Proc |-> Gone] /\ file = [state |-> "absent", tree |-> <<>>]
  BY DEF InitCli, Init, NoSnapshot, NoClaim
<1>2. \A p \in Proc : proc[p].at = "gone"
  BY <1>1 DEF Gone
<1>3. <<>> \in Tree /\ Good(<<>>, {}, 0, outputs, 0)
  BY GoodEmpty
<1>4. TypesCli
  BY <1>1, <1>3 DEF TypesCli, Indexed
<1>5. TreeInv
  <2>1. OneAtMost(proc) /\ ~Held(proc) /\ Len(outputs) = 0
    BY <1>1, <1>2 DEF OneAtMost, Held
  <2>. QED
    BY <1>1, <1>2, <1>3, <2>1 DEF TreeInv, TreeKept
<1>6. AcceptedRootCoversSettled
  <2>1. SubSeq(outputs, 1, 0) = <<>>
    BY SubSeqEmpty
  <2>. QED
    BY <1>1, <2>1 DEF AcceptedRootCoversSettled, ClaimCoversSettled
<1>. QED
  BY <1>1, <1>4, <1>5, <1>6 DEF CliInv, SavedInv

\* A process that has the device goes on, and leaves the tree alone.
LEMMA GotoKeepsTree ==
  ASSUME CliInv, NEW p \in Proc, proc[p].at # "gone",
         NEW place \in {"returned", "calling", "finished", "saving"}, Goto(p, place),
         file'.tree \in Tree,
         UNCHANGED <<merkle, issued, mark, outputs, settled, claim, snapshot, saved, lost>>
  PROVE  CliInv'
<1>. DEFINE entry == [at |-> place, command |-> "none"]
<1>1. proc' = [proc EXCEPT ![p] = entry] /\ entry.at \notin {"gone", "saved"}
  BY DEF Goto
<1>. HIDE DEF entry
<1>. QED
  BY <1>1, MoveKeepsTree

\* No step of a process breaks it.
LEMMA ProcessKeepsTree ==
  ASSUME CliInv, NEW p \in Proc,
         \/ \E command \in Commands : start(p, command)
         \/ start_fails(p) \/ bad_input(p) \/ write_output(p) \/ throw_exception(p) \/ gio(p)
         \/ accept_request(p) \/ reject_request(p) \/ take_request(p)
         \/ save_merkle_opens(p) \/ save_merkle_fails(p) \/ save_merkle_writes(p)
         \/ fini(p) \/ killed(p)
  PROVE  CliInv'
<1>0. file.tree \in Tree /\ merkle \in Tree
  BY DEF CliInv, TypesCli
<1>1. ASSUME NEW command \in Commands, start(p, command) PROVE CliInv'
  BY <1>1, StartKeepsTree
<1>2. CASE start_fails(p)
  BY <1>2, StutterKeepsTree DEF start_fails, varsCli, vars, guest, host, tool
<1>3. CASE bad_input(p)
  BY <1>0, <1>3, GotoKeepsTree DEF bad_input, At, vars, guest, host
<1>4. CASE write_output(p)
  <2>1. /\ proc[p].at # "gone" /\ Goto(p, "returned") /\ UNCHANGED <<file, lost, saved>>
        /\ \E payload \in Payload, rc \in ReturnCode :
             \/ \E kind \in OutputKind : emit_output([kind |-> kind, payload |-> payload], rc)
             \/ UNCHANGED vars
    BY <1>4 DEF write_output, Runs, At, cmt_rollup_emit_report
  <2>2. ASSUME NEW payload \in Payload, NEW rc \in ReturnCode, NEW kind \in OutputKind,
               emit_output([kind |-> kind, payload |-> payload], rc)
        PROVE  CliInv'
    <3>1. [kind |-> kind, payload |-> payload] \in Output
      BY DEF Output
    <3>. QED
      BY <2>1, <2>2, <3>1, EmissionKeepsTree
  <2>3. CASE UNCHANGED vars
    BY <1>0, <2>1, <2>3, GotoKeepsTree DEF vars, guest, host
  <2>. QED
    BY <2>1, <2>2, <2>3
<1>5. ASSUME \/ throw_exception(p) \/ gio(p) PROVE CliInv'
  <2>1. /\ proc[p].at # "gone" /\ UNCHANGED <<file, lost, saved>>
        /\ \E place \in {"returned", "calling"} : Goto(p, place)
        /\ UNCHANGED <<guest, host>>
    BY <1>5 DEF throw_exception, gio, Runs, At, StaysOrReturns, cmt_rollup_emit_exception,
                cmt_gio_request, stop
  <2>. QED
    BY <1>0, <2>1, GotoKeepsTree DEF guest, host
<1>6. CASE accept_request(p)
  <2>1. proc[p].at # "gone" /\ UNCHANGED <<file, lost>>
    BY <1>6 DEF accept_request, Runs, At
  <2>2. CASE /\ finish_accept /\ Goto(p, "calling")
             /\ saved' = [taken |-> TRUE, proc |-> proc', file |-> file, lost |-> lost]
    BY <2>1, <2>2, AcceptKeepsTree
  <2>3. CASE finish_accept_inspect /\ Goto(p, "calling") /\ UNCHANGED saved
    BY <1>0, <2>1, <2>3, GotoKeepsTree DEF finish_accept_inspect, host
  <2>4. CASE finish_accept_fails /\ Goto(p, "returned") /\ UNCHANGED saved
    BY <1>0, <2>1, <2>4, GotoKeepsTree DEF finish_accept_fails, host
  <2>. QED
    BY <1>6, <2>2, <2>3, <2>4 DEF accept_request
<1>7. CASE reject_request(p)
  <2>1. /\ proc[p].at # "gone" /\ UNCHANGED <<file, lost, saved>>
        /\ \E place \in {"returned", "calling"} : Goto(p, place)
        /\ UNCHANGED <<merkle, issued, mark, host>>
    BY <1>7 DEF reject_request, Runs, At, StaysOrReturns, finish_reject
  <2>. QED
    BY <1>0, <2>1, GotoKeepsTree DEF host
<1>8. CASE take_request(p)
  <2>1. proc[p].at # "gone" /\ Goto(p, "returned") /\ UNCHANGED <<file, saved>>
    BY <1>8 DEF take_request, At
  <2>2. CASE cmt_rollup_reset_merkle /\ lost' = FALSE
    BY <2>1, <2>2, ResetKeepsTree
  <2>3. CASE UNCHANGED <<vars, lost>>
    BY <1>0, <2>1, <2>3, GotoKeepsTree DEF vars, guest, host
  <2>. QED
    BY <1>8, <2>2, <2>3 DEF take_request
<1>9. CASE save_merkle_opens(p)
  <2>1. file'.tree \in Tree
    BY <1>0, <1>9 DEF save_merkle_opens
  <2>. QED
    BY <1>9, <2>1, GotoKeepsTree DEF save_merkle_opens, At, vars, guest, host
<1>10. CASE save_merkle_fails(p)
  <2>1. proc[p].at # "gone" /\ Goto(p, "saved") /\ UNCHANGED <<vars, file, saved>> /\ Forget
    BY <1>10 DEF save_merkle_fails, At
  <2>2. ~lost' => ~lost /\ file'.state # "cut" /\ file'.tree = merkle
    BY <2>1 DEF Forget
  <2>. QED
    BY <1>0, <2>1, <2>2, SaveKeepsTree DEF vars, guest, host
<1>11. CASE save_merkle_writes(p)
  <2>1. /\ proc[p].at # "gone" /\ Goto(p, "saved") /\ UNCHANGED <<vars, lost, saved>>
        /\ file'.state = "whole" /\ file'.tree = merkle
    BY <1>11 DEF save_merkle_writes, At
  <2>. QED
    BY <1>0, <2>1, SaveKeepsTree DEF vars, guest, host
<1>12. CASE fini(p)
  <2>1. proc[p].at = "saved" /\ LeaveDevice(p) /\ lost' = lost
    BY <1>12 DEF fini, At
  <2>. QED
    BY <2>1, LeaveKeepsTree
<1>13. CASE killed(p)
  <2>1. /\ proc[p].at # "gone" /\ LeaveDevice(p)
        /\ IF proc[p].at = "saved" THEN lost' = lost
           ELSE lost' = (lost \/ file.state = "cut" \/ file.tree # merkle)
    BY <1>13 DEF killed, At, Forget
  <2>2. ~lost' => ~lost /\ (proc[p].at = "saved" \/ (file.state # "cut" /\ file.tree = merkle))
    BY <2>1
  <2>. QED
    BY <2>1, <2>2, LeaveKeepsTree
<1>. QED
  BY <1>1, <1>2, <1>3, <1>4, <1>5, <1>6, <1>7, <1>8, <1>9, <1>10, <1>11, <1>12, <1>13

\* No step breaks it.
LEMMA NextCliInv == CliInv /\ [NextCli]_varsCli => CliInv'
<1>. SUFFICES ASSUME CliInv, [NextCli]_varsCli PROVE CliInv'
  OBVIOUS
<1>0. file.tree \in Tree
  BY DEF CliInv, TypesCli
<1>1. ASSUME NEW p \in Proc,
             \/ \E command \in Commands : start(p, command)
             \/ start_fails(p) \/ bad_input(p) \/ write_output(p) \/ throw_exception(p) \/ gio(p)
             \/ accept_request(p) \/ reject_request(p) \/ take_request(p)
             \/ save_merkle_opens(p) \/ save_merkle_fails(p) \/ save_merkle_writes(p)
             \/ fini(p) \/ killed(p)
      PROVE  CliInv'
  BY <1>1, ProcessKeepsTree
<1>2. ASSUME NEW req \in Request, resume_finish(req) PROVE CliInv'
  <2>1. PICK p \in Proc : At(p, "calling") /\ Goto(p, "finished")
    BY <1>2 DEF resume_finish
  <2>. QED
    BY <1>0, <1>2, <2>1, GotoKeepsTree DEF resume_finish, finish_returns, At
<1>3. ASSUME NEW payload \in Payload, resume_gio(payload) PROVE CliInv'
  <2>1. PICK p \in Proc : At(p, "calling") /\ Goto(p, "returned")
    BY <1>3 DEF resume_gio
  <2>. QED
    BY <1>0, <1>3, <2>1, GotoKeepsTree DEF resume_gio, gio_returns, At, host
<1>4. CASE put_back
  BY <1>4, PutBackKeepsTree
<1>5. CASE host_gives_up /\ UNCHANGED <<tool, saved>>
  BY <1>5, StutterKeepsTree DEF host_gives_up, vars, guest, host, tool
<1>6. CASE UNCHANGED varsCli
  BY <1>6, StutterKeepsTree DEF varsCli, vars, guest, host, tool
<1>. QED
  BY <1>1, <1>2, <1>3, <1>4, <1>5, <1>6 DEF NextCli

\* The inductive invariant holds always.
LEMMA CliInductive == SpecCli => []CliInv
BY InitCliInv, NextCliInv, PTL DEF SpecCli

-----------------------------------------------------------------------------
(* Theorems.                                                               *)

\* From process to process the tree lists the outputs of the advance, unless
\* it was lost with a process (rollup.cpp:38-48, 382-398).
THEOREM TreeSurvivesProcesses == SpecCli => []TreeSurvives
<1>1. ASSUME CliInv PROVE TreeSurvives
  <2>1. SUFFICES ASSUME ~lost
                 PROVE  IF \E p \in Proc : ~At(p, "gone")
                          THEN Lists(merkle, mark, Len(outputs))
                          ELSE FileLists
    BY DEF TreeSurvives
  <2>2. TreeKept(proc, file, lost, merkle, issued, mark, outputs, Len(outputs))
    BY <1>1 DEF CliInv, TreeInv
  <2>3. Held(proc) <=> \E p \in Proc : ~At(p, "gone")
    BY DEF Held, At
  <2>. QED
    BY <2>1, <2>2, <2>3 DEF TreeKept, Good, Lists, FileLists
<1>. QED
  BY CliInductive, <1>1, PTL

\* The index that a process printed is the position of its output
\* (rollup.cpp:229-249).
THEOREM PrintedIndexCorrect == SpecCli => []PrintedIndexIsPosition
<1>1. ASSUME CliInv PROVE PrintedIndexIsPosition
  <2>1. SUFFICES ASSUME ~lost, NEW e \in issued
                 PROVE  /\ mark + e.index < Len(outputs)
                        /\ outputs[mark + e.index + 1] = e.output
    BY DEF PrintedIndexIsPosition, IndexIsPosition
  <2>2. PICK tree \in Tree : Good(tree, issued, mark, outputs, Len(outputs))
    BY <1>1, <2>1 DEF CliInv, TypesCli, TreeInv, TreeKept
  <2>3. e.index \in Nat /\ mark \in Nat /\ Len(outputs) \in Nat
    BY <1>1 DEF CliInv, TypesCli, Indexed
  <2>4. /\ Len(tree) \in Nat /\ e.index < Len(tree) /\ tree[e.index + 1] = e.output
        /\ mark + Len(tree) <= Len(outputs)
        /\ \A i \in 1..Len(tree) : tree[i] = outputs[mark + i]
    BY <2>2, TreeFacts DEF Good, IssuedInTree
  <2>5. e.index + 1 \in 1..Len(tree) /\ mark + (e.index + 1) = mark + e.index + 1
    BY <2>3, <2>4
  <2>. QED
    BY <2>3, <2>4, <2>5
<1>. QED
  BY CliInductive, <1>1, PTL

\* The root hash of an accepted request covers its outputs, unless their tree
\* had been lost when the finish began (rollup.cpp:382-388).
THEOREM AcceptedRootCorrect == SpecCli => []AcceptedRootCoversSettled
<1>1. CliInv => AcceptedRootCoversSettled
  BY DEF CliInv
<1>. QED
  BY CliInductive, <1>1, PTL

-----------------------------------------------------------------------------
(* When a tree may be lost.                                                *)

\* A process that has yet to change the tree has that of the file.
UpToDate(pr, f, l, tree) ==
  \A p \in Proc : pr[p].at \in {"opened", "calling", "finished"} /\ ~l =>
    f.state # "cut" /\ f.tree = tree

\* A process whose call has not returned is in a machine that is stopped; up to
\* the end of its call it has the tree of the file, unless that was lost before;
\* so it is in the saved machine, which has no process but in a call.
StageInv ==
  /\ \A p \in Proc : proc[p].at \in {"gone", "opened", "calling", "finished", "returned",
                                     "saving", "saved"}
  /\ \A p \in Proc : proc[p].at = "calling" => ~Running
  /\ UpToDate(proc, file, lost, merkle)
  /\ snapshot.taken => /\ \A p \in Proc : saved.proc[p].at \in {"gone", "calling"}
                       /\ UpToDate(saved.proc, saved.file, saved.lost, snapshot.merkle)

\* Two good trees are the same.
LEMMA OneTree ==
  ASSUME NEW t \in Tree, NEW u \in Tree, NEW from \in Nat, NEW n \in Nat,
         Lists(t, from, n), Lists(u, from, n)
  PROVE  t = u
<1>1. /\ t \in Seq(Output \cup {NoHash}) /\ Len(t) \in Nat /\ Len(t) <= Capacity
      /\ u \in Seq(Output \cup {NoHash}) /\ Len(u) \in Nat /\ Len(u) <= Capacity
  BY TreeFacts
<1>2. Len(t) = Len(u)
  BY <1>1, CapacityAssumption DEF Lists
<1>3. \A i \in 1..Len(t) : t[i] = u[i]
  BY <1>2 DEF Lists
<1>. QED
  BY <1>1, <1>2, <1>3, SeqEqual

\* A process that has the device goes on from its call.
LEMMA GotoKeepsStage ==
  ASSUME CliInv, StageInv, NEW p \in Proc, proc[p].at # "gone",
         NEW place \in {"returned", "calling", "finished", "saving", "saved"}, Goto(p, place),
         place = "calling" => ~Running',
         place \in {"calling", "finished"} =>
           proc[p].at \in {"opened", "calling"} /\ UNCHANGED <<merkle, file, lost>>,
         \/ UNCHANGED <<snapshot, saved>>
         \/ /\ saved' = [taken |-> TRUE, proc |-> proc', file |-> file, lost |-> lost]
            /\ place = "calling" /\ snapshot'.merkle = merkle
  PROVE  StageInv'
<1>1. proc'[p].at = place /\ \A q \in Proc : q # p => proc'[q].at = "gone"
  BY DEF CliInv, TypesCli, TreeInv, OneAtMost, Goto
<1>2. UpToDate(proc', file', lost', merkle')
  BY <1>1 DEF StageInv, UpToDate
<1>3. snapshot'.taken =>
        /\ \A q \in Proc : saved'.proc[q].at \in {"gone", "calling"}
        /\ UpToDate(saved'.proc, saved'.file, saved'.lost, snapshot'.merkle)
  <2>1. CASE UNCHANGED <<snapshot, saved>>
    BY <2>1 DEF StageInv
  <2>2. CASE /\ saved' = [taken |-> TRUE, proc |-> proc', file |-> file, lost |-> lost]
             /\ place = "calling" /\ snapshot'.merkle = merkle
    BY <1>1, <1>2, <2>2
  <2>. QED
    BY <2>1, <2>2
<1>. QED
  BY <1>1, <1>2, <1>3 DEF StageInv

\* No step of a process breaks the invariant.
LEMMA ProcessKeepsStage ==
  ASSUME CliInv, StageInv, NEW p \in Proc,
         \/ \E command \in Commands : start(p, command)
         \/ start_fails(p) \/ bad_input(p) \/ write_output(p) \/ throw_exception(p) \/ gio(p)
         \/ accept_request(p) \/ reject_request(p) \/ take_request(p)
         \/ save_merkle_opens(p) \/ save_merkle_fails(p) \/ save_merkle_writes(p)
         \/ fini(p) \/ killed(p)
  PROVE  StageInv'
<1>1. ASSUME NEW command \in Commands, start(p, command) PROVE StageInv'
  <2>1. /\ proc' = [proc EXCEPT ![p] = [at |-> "opened", command |-> command]]
        /\ merkle' \in Loads(file) /\ \A q \in Proc : proc[q].at = "gone"
        /\ UNCHANGED <<snapshot, saved, file, lost>>
    BY <1>1 DEF start, DeviceFree, At, host
  <2>2. proc'[p].at = "opened" /\ \A q \in Proc : q # p => proc'[q].at = "gone"
    BY <2>1 DEF CliInv, TypesCli
  <2>3. file.state # "cut" => merkle' = file.tree
    BY <2>1, LoadsTrees DEF CliInv, TypesCli
  <2>4. ~lost => file.state # "cut"
    BY <2>1 DEF CliInv, TreeInv, TreeKept, Held
  <2>. QED
    BY <2>1, <2>2, <2>3, <2>4 DEF StageInv, UpToDate
<1>2. CASE start_fails(p)
  BY <1>2 DEF start_fails, varsCli, vars, guest, host, tool, StageInv, Running
<1>3. CASE bad_input(p) \/ write_output(p) \/ take_request(p)
  <2>1. proc[p].at # "gone" /\ Goto(p, "returned") /\ UNCHANGED <<snapshot, saved>>
    BY <1>3 DEF bad_input, write_output, take_request, Runs, At, emit_output,
                cmt_rollup_emit_report, cmt_rollup_reset_merkle, vars, guest, host
  <2>. QED
    BY <2>1, GotoKeepsStage
<1>4. CASE throw_exception(p) \/ gio(p) \/ reject_request(p)
  <2>1. PICK rc \in ReturnCode :
          /\ proc[p].at = "opened" /\ StaysOrReturns(p, rc)
          /\ UNCHANGED <<merkle, file, lost, snapshot, saved>>
          /\ rc = "stopped" => ~Running'
    BY <1>4 DEF throw_exception, gio, reject_request, Runs, At, cmt_rollup_emit_exception,
                cmt_gio_request, stop, refused, finish_reject, Running, guest, host
  <2>. QED
    BY <2>1, GotoKeepsStage DEF StaysOrReturns
<1>5. CASE accept_request(p)
  <2>1. proc[p].at = "opened" /\ UNCHANGED <<file, lost>>
    BY <1>5 DEF accept_request, Runs, At
  <2>2. CASE /\ finish_accept /\ Goto(p, "calling")
             /\ saved' = [taken |-> TRUE, proc |-> proc', file |-> file, lost |-> lost]
    BY <2>1, <2>2, GotoKeepsStage DEF finish_accept, Running
  <2>3. CASE finish_accept_inspect /\ Goto(p, "calling") /\ UNCHANGED saved
    BY <2>1, <2>3, GotoKeepsStage DEF finish_accept_inspect, Running, host
  <2>4. CASE finish_accept_fails /\ Goto(p, "returned") /\ UNCHANGED saved
    BY <2>1, <2>4, GotoKeepsStage DEF finish_accept_fails, host
  <2>. QED
    BY <1>5, <2>2, <2>3, <2>4 DEF accept_request
<1>6. CASE save_merkle_opens(p) \/ save_merkle_fails(p) \/ save_merkle_writes(p)
  <2>1. /\ proc[p].at # "gone" /\ UNCHANGED <<snapshot, saved>>
        /\ \E place \in {"saving", "saved"} : Goto(p, place)
    BY <1>6 DEF save_merkle_opens, save_merkle_fails, save_merkle_writes, At, vars, host
  <2>. QED
    BY <2>1, GotoKeepsStage
<1>7. CASE fini(p) \/ killed(p)
  <2>1. /\ proc[p].at # "gone" /\ proc' = [proc EXCEPT ![p] = Gone]
        /\ UNCHANGED <<snapshot, saved>>
    BY <1>7 DEF fini, killed, LeaveDevice, At, host
  <2>2. \A q \in Proc : proc'[q].at = "gone"
    BY <2>1 DEF CliInv, TypesCli, TreeInv, OneAtMost, Gone
  <2>. QED
    BY <2>1, <2>2 DEF StageInv, UpToDate
<1>. QED
  BY <1>1, <1>2, <1>3, <1>4, <1>5, <1>6, <1>7

\* No step breaks the invariant.
LEMMA NextStageInv == CliInv /\ StageInv /\ [NextCli]_varsCli => StageInv'
<1>. SUFFICES ASSUME CliInv, StageInv, [NextCli]_varsCli PROVE StageInv'
  OBVIOUS
<1>1. ASSUME NEW p \in Proc,
             \/ \E command \in Commands : start(p, command)
             \/ start_fails(p) \/ bad_input(p) \/ write_output(p) \/ throw_exception(p) \/ gio(p)
             \/ accept_request(p) \/ reject_request(p) \/ take_request(p)
             \/ save_merkle_opens(p) \/ save_merkle_fails(p) \/ save_merkle_writes(p)
             \/ fini(p) \/ killed(p)
      PROVE  StageInv'
  BY <1>1, ProcessKeepsStage
<1>2. ASSUME NEW req \in Request, resume_finish(req) PROVE StageInv'
  <2>1. PICK p \in Proc : At(p, "calling") /\ Goto(p, "finished")
    BY <1>2 DEF resume_finish
  <2>. QED
    BY <1>2, <2>1, GotoKeepsStage DEF resume_finish, finish_returns, At
<1>3. ASSUME NEW payload \in Payload, resume_gio(payload) PROVE StageInv'
  <2>1. PICK p \in Proc : At(p, "calling") /\ Goto(p, "returned")
    BY <1>3 DEF resume_gio
  <2>. QED
    BY <1>3, <2>1, GotoKeepsStage DEF resume_gio, gio_returns, At, host
<1>4. CASE put_back
  BY <1>4 DEF put_back, host_revert, StageInv, Running
<1>5. CASE host_gives_up /\ UNCHANGED <<tool, saved>>
  BY <1>5 DEF host_gives_up, vars, guest, host, tool, StageInv, Running
<1>6. CASE UNCHANGED varsCli
  BY <1>6 DEF varsCli, vars, guest, host, tool, StageInv, Running
<1>. QED
  BY <1>1, <1>2, <1>3, <1>4, <1>5, <1>6 DEF NextCli

\* The tree is lost only by a process that is killed or cannot save: with
\* something that the file does not list, or after fopen has cut the file; or
\* by going back to a machine saved without it (rollup.cpp:38-48).
THEOREM LossExplained == SpecCli => LostOnlyUnsaved
<1>1. InitCli => StageInv
  BY DEF InitCli, Init, NoSnapshot, Gone, StageInv, UpToDate
<1>2. ASSUME CliInv, StageInv, [NextCli]_varsCli, lost', ~lost, ~(yielded # "no" /\ saved.lost)
      PROVE  \E p \in Proc : /\ proc[p].at \in {"returned", "saving"} /\ ~FileLists
                             /\ proc'[p].at \in {"gone", "saved"}
  <2>1. PICK p \in Proc : (save_merkle_fails(p) \/ killed(p)) /\ proc[p].at # "gone"
    BY <1>2 DEF NextCli, varsCli, tool, start, start_fails, bad_input, write_output,
                throw_exception, gio, accept_request, reject_request, take_request,
                save_merkle_opens, save_merkle_fails, save_merkle_writes, fini, killed,
                resume_finish, resume_gio, put_back, host_revert, host_gives_up, Discarded, At
  <2>2. proc[p].at # "saved" /\ Forget
    BY <1>2, <2>1 DEF save_merkle_fails, killed, At
  <2>3. file.state = "cut" \/ file.tree # merkle
    BY <1>2, <2>2 DEF Forget
  <2>4. proc[p].at \in {"returned", "saving"}
    BY <1>2, <2>1, <2>2, <2>3 DEF StageInv, UpToDate, Running, save_merkle_fails, killed
  <2>5. ASSUME file.tree # merkle PROVE ~Lists(file.tree, mark, Len(outputs))
    <3>1. /\ file.tree \in Tree /\ merkle \in Tree /\ mark \in Nat /\ Len(outputs) \in Nat
          /\ Lists(merkle, mark, Len(outputs))
      BY <1>2, <2>1 DEF CliInv, TypesCli, TreeInv, TreeKept, Held, Good, Lists
    <3>. QED
      BY <2>5, <3>1, OneTree
  <2>6. proc'[p].at \in {"gone", "saved"}
    <3>1. proc' = [proc EXCEPT ![p] = Gone] \/ Goto(p, "saved")
      BY <2>1 DEF save_merkle_fails, killed, LeaveDevice
    <3>2. proc = [q \in Proc |-> proc[q]]
      BY <1>2 DEF CliInv, TypesCli
    <3>. QED
      BY <3>1, <3>2 DEF Goto, Gone
  <2>. QED
    BY <2>3, <2>4, <2>5, <2>6 DEF FileLists
<1>3. ASSUME CliInv, StageInv, [NextCli]_varsCli
      PROVE  [ lost' /\ ~lost =>
                 \/ yielded # "no" /\ saved.lost
                 \/ \E p \in Proc : /\ proc[p].at \in {"returned", "saving"} /\ ~FileLists
                                   /\ proc'[p].at \in {"gone", "saved"} ]_varsCli
  BY <1>2, <1>3
<1>. QED
  BY InitCliInv, NextCliInv, NextStageInv, <1>1, <1>3, PTL DEF SpecCli, LostOnlyUnsaved

-----------------------------------------------------------------------------
(* IoMock: the inductive invariant.                                        *)

Input == [name : InputNames, message : Message]

\* What is left of the list: its names are new, and the one that a call has
\* asked for is of its kind.
InputsInv ==
  /\ inputs_left \in Seq(Input)
  /\ \A i, j \in 1..Len(inputs_left) : inputs_left[i].name = inputs_left[j].name => i = j
  /\ \A i \in 1..Len(inputs_left) : inputs_left[i].name # input_filename
  /\ yielded \in {"no", "rx_accepted", "gio"}
  /\ yielded = "rx_accepted" => inputs_left # <<>> /\ Next_input \in Request
  /\ yielded = "gio" => inputs_left # <<>> /\ Next_input.payload \in Payload

\* No input that is left gives a name that is used; the current one gives new
\* names to outputs, and to its root hash until its request is given up.
FilesInv ==
  /\ seq \in [Namespace -> Nat]
  /\ \A f \in DOMAIN files :
       /\ f.ns \in Namespace \cup {RootHash} /\ f.n \in Nat
       /\ f.input = input_filename =>
            IF f.ns = RootHash THEN Running => ~current ELSE f.n < seq[f.ns]
       /\ \A i \in 1..Len(inputs_left) : inputs_left[i].name # f.input

\* The list is as it was, or shorter; the name is as it was, or the next one.
ListGoesOn ==
  \A i \in 1..Len(inputs_left') :
    \E j \in 1..Len(inputs_left) : inputs_left'[i] = inputs_left[j]
NameGoesOn ==
  \/ UNCHANGED input_filename
  \/ inputs_left # <<>> /\ input_filename' = Head(inputs_left).name

\* The request is not current if it was not before.
StaysGivenUp == Running' /\ current' => Running /\ current

\* While they are aligned, the next number is the next index.
NumbersInv ==
  /\ current \in BOOLEAN /\ aligned \in BOOLEAN
  /\ merkle \in Seq(Output) /\ outputs \in Seq(Output) /\ Len(merkle) <= Capacity
  /\ \A e \in issued : e.index \in Nat /\ e.index < Len(merkle)
  /\ aligned /\ Len(merkle) < Capacity => seq["output"] = Len(merkle)
  /\ NumberIsIndex

\* Before the driver is opened there is nothing.
UnopenedInv ==
  device = "never" => yielded = "no" /\ input_filename = "none" /\ files = <<>>

MockInv == InputsInv /\ FilesInv /\ NumbersInv

-----------------------------------------------------------------------------
(* Lemmas on the list of inputs and on the files.                          *)

\* The next input and the rest.
LEMMA NextInputFacts ==
  ASSUME InputsInv, inputs_left # <<>>
  PROVE  /\ Head(inputs_left) = inputs_left[1] /\ Head(inputs_left) \in Input
         /\ Tail(inputs_left) \in Seq(Input)
         /\ \A i \in 1..Len(Tail(inputs_left)) :
              i + 1 \in 1..Len(inputs_left) /\ Tail(inputs_left)[i] = inputs_left[i + 1]
         /\ 1 \in 1..Len(inputs_left)
BY HeadTailProperties DEF InputsInv

\* An input that can be loaded is there.
LEMMA LoadableIsLeft ==
  ASSUME NEW r \in LoadResults, r # "EINVAL"
  PROVE  inputs_left # <<>>
BY DEF LoadResults

\* A list that is left as it is, or loses its head or everything.
LEMMA DropKeepsInputs ==
  ASSUME InputsInv,
         \/ UNCHANGED <<inputs_left, input_filename, yielded>>
         \/ /\ yielded' = "no" /\ inputs_left' = <<>> /\ UNCHANGED input_filename
         \/ /\ yielded' = "no" /\ inputs_left # <<>> /\ inputs_left' = Tail(inputs_left)
            /\ input_filename' \in {input_filename, Head(inputs_left).name}
  PROVE  InputsInv' /\ ListGoesOn
<1>1. CASE UNCHANGED <<inputs_left, input_filename, yielded>>
  BY <1>1 DEF InputsInv, Next_input, ListGoesOn
<1>2. CASE yielded' = "no" /\ inputs_left' = <<>> /\ UNCHANGED input_filename
  BY <1>2 DEF InputsInv, ListGoesOn
<1>3. CASE /\ yielded' = "no" /\ inputs_left # <<>> /\ inputs_left' = Tail(inputs_left)
           /\ input_filename' \in {input_filename, Head(inputs_left).name}
  <2>1. /\ inputs_left' \in Seq(Input) /\ Head(inputs_left) = inputs_left[1]
        /\ \A i \in 1..Len(inputs_left') :
             i + 1 \in 1..Len(inputs_left) /\ inputs_left'[i] = inputs_left[i + 1]
        /\ 1 \in 1..Len(inputs_left)
    BY <1>3, NextInputFacts
  <2>2. \A i, j \in 1..Len(inputs_left') : inputs_left'[i].name = inputs_left'[j].name => i = j
    <3>1. SUFFICES ASSUME NEW i \in 1..Len(inputs_left'), NEW j \in 1..Len(inputs_left'),
                          inputs_left'[i].name = inputs_left'[j].name
                   PROVE  i = j
      OBVIOUS
    <3>2. i + 1 = j + 1
      BY <2>1, <3>1 DEF InputsInv
    <3>. QED
      BY <3>2
  <2>3. \A i \in 1..Len(inputs_left') : inputs_left'[i].name # input_filename'
    <3>1. SUFFICES ASSUME NEW i \in 1..Len(inputs_left')
                   PROVE  inputs_left[i + 1].name \notin {input_filename, inputs_left[1].name}
      BY <1>3, <2>1
    <3>2. i + 1 # 1
      OBVIOUS
    <3>. QED
      BY <2>1, <3>2 DEF InputsInv
  <2>. QED
    BY <1>3, <2>1, <2>2, <2>3 DEF InputsInv, ListGoesOn
<1>. QED
  BY <1>1, <1>2, <1>3

\* What storing does to the files.
LEMMA StoreFacts ==
  ASSUME NEW name, NEW content, NEW stored \in BOOLEAN, store_output(name, content, stored)
  PROVE  /\ DOMAIN files' \subseteq DOMAIN files \cup {name}
         /\ \A f \in DOMAIN files : f # name => f \in DOMAIN files' /\ files'[f] = files[f]
         /\ stored => name \in DOMAIN files' /\ files'[name] = content
BY DEF store_output

\* Names that are new stay new: new files are of the current input, with its
\* numbers or its root hash; and no file is of the next one.
LEMMA FilesMove ==
  ASSUME InputsInv, FilesInv, ListGoesOn, seq' \in [Namespace -> Nat],
         \A f \in DOMAIN files' \ DOMAIN files :
           f.ns \in Namespace \cup {RootHash} /\ f.n \in Nat /\ f.input = input_filename,
         \/ /\ UNCHANGED input_filename /\ StaysGivenUp
            /\ \A ns \in Namespace : seq[ns] <= seq'[ns]
            /\ \A f \in DOMAIN files' \ DOMAIN files :
                 IF f.ns = RootHash THEN Running' => ~current' ELSE f.n < seq'[f.ns]
         \/ inputs_left # <<>> /\ input_filename' = Head(inputs_left).name
  PROVE  FilesInv'
<1>1. ASSUME NEW f \in DOMAIN files'
      PROVE  /\ f.ns \in Namespace \cup {RootHash} /\ f.n \in Nat
             /\ \A j \in 1..Len(inputs_left) : inputs_left[j].name # f.input
  <2>1. CASE f \in DOMAIN files
    BY <2>1 DEF FilesInv
  <2>2. CASE f \notin DOMAIN files
    BY <1>1, <2>2 DEF InputsInv
  <2>. QED
    BY <2>1, <2>2
<1>2. ASSUME NEW f \in DOMAIN files', NEW i \in 1..Len(inputs_left')
      PROVE  inputs_left'[i].name # f.input
  BY <1>1, <1>2 DEF ListGoesOn
<1>3. ASSUME NEW f \in DOMAIN files', f.input = input_filename'
      PROVE  IF f.ns = RootHash THEN Running' => ~current' ELSE f.n < seq'[f.ns]
  <2>1. CASE inputs_left # <<>> /\ input_filename' = Head(inputs_left).name
    <3>1. Head(inputs_left) = inputs_left[1] /\ 1 \in 1..Len(inputs_left)
      BY <2>1, NextInputFacts
    <3>. QED
      BY <1>1, <1>3, <2>1, <3>1
  <2>2. CASE /\ UNCHANGED input_filename /\ StaysGivenUp
             /\ \A ns \in Namespace : seq[ns] <= seq'[ns]
             /\ \A g \in DOMAIN files' \ DOMAIN files :
                  IF g.ns = RootHash THEN Running' => ~current' ELSE g.n < seq'[g.ns]
    <3>1. CASE f \notin DOMAIN files
      BY <2>2, <3>1
    <3>2. CASE f \in DOMAIN files /\ f.ns = RootHash
      BY <1>3, <2>2, <3>2 DEF FilesInv, StaysGivenUp
    <3>3. CASE f \in DOMAIN files /\ f.ns # RootHash
      <4>1. /\ f.ns \in Namespace /\ f.n \in Nat /\ f.n < seq[f.ns]
            /\ seq[f.ns] \in Nat /\ seq'[f.ns] \in Nat /\ seq[f.ns] <= seq'[f.ns]
        BY <1>3, <2>2, <3>3 DEF FilesInv
      <4>. QED
        BY <3>3, <4>1
    <3>. QED
      BY <3>1, <3>2, <3>3
  <2>. QED
    BY <2>1, <2>2
<1>. QED
  BY <1>1, <1>2, <1>3 DEF FilesInv

\* The next number of a namespace is used up.
LEMMA StoreNextKeepsFiles ==
  ASSUME InputsInv, FilesInv, NEW ns \in Namespace, NEW content, NEW stored \in BOOLEAN,
         store_next_output(ns, content, stored), ListGoesOn, NameGoesOn, StaysGivenUp
  PROVE  FilesInv'
<1>1. /\ DOMAIN files' \subseteq DOMAIN files \cup {Name(ns, seq[ns])}
      /\ seq' = [seq EXCEPT ![ns] = @ + 1]
  BY StoreFacts DEF store_next_output
<1>2. /\ seq \in [Namespace -> Nat] /\ seq' \in [Namespace -> Nat]
      /\ seq'[ns] = seq[ns] + 1 /\ \A m \in Namespace : seq[m] <= seq'[m]
  BY <1>1 DEF FilesInv
<1>3. ns # RootHash
  BY DEF Namespace, RootHash
<1>4. ASSUME NEW f \in DOMAIN files' \ DOMAIN files
      PROVE  f.ns = ns /\ f.n = seq[ns] /\ f.input = input_filename
  BY <1>1, <1>4 DEF Name
<1>. QED
  BY <1>2, <1>3, <1>4, FilesMove DEF NameGoesOn

\* No file is new but that of the root hash, whose request is given up.
LEMMA KeptKeepsFiles ==
  ASSUME InputsInv, FilesInv, ListGoesOn, NameGoesOn, StaysGivenUp, UNCHANGED seq,
         \/ UNCHANGED files
         \/ /\ DOMAIN files' \subseteq DOMAIN files \cup {Name(RootHash, 0)}
            /\ Running' => ~current'
  PROVE  FilesInv'
<1>1. seq' \in [Namespace -> Nat] /\ \A ns \in Namespace : seq[ns] <= seq'[ns]
  BY DEF FilesInv
<1>2. ASSUME NEW f \in DOMAIN files' \ DOMAIN files
      PROVE  f.ns = RootHash /\ f.n = 0 /\ f.input = input_filename /\ (Running' => ~current')
  BY <1>2 DEF Name
<1>. QED
  BY <1>1, <1>2, FilesMove DEF NameGoesOn

\* With the next input come new names.
LEMMA LoadKeepsFiles ==
  ASSUME InputsInv, FilesInv, load_next_input("OK"), ListGoesOn, UNCHANGED files
  PROVE  FilesInv'
<1>1. inputs_left # <<>> /\ input_filename' = Head(inputs_left).name /\ seq' = FromZero
  BY LoadableIsLeft DEF load_next_input, take_next_input
<1>2. seq' \in [Namespace -> Nat]
  BY <1>1 DEF FilesInv, FromZero
<1>. QED
  BY <1>1, <1>2, FilesMove

-----------------------------------------------------------------------------
(* Lemmas on numbers.                                                      *)

\* Steps that leave tree, number and the files of outputs as they are.
LEMMA KeptKeepsNumbers ==
  ASSUME NumbersInv, current' \in BOOLEAN, aligned' \in BOOLEAN,
         aligned' => aligned /\ UNCHANGED input_filename,
         UNCHANGED <<merkle, outputs, issued>>, seq'["output"] = seq["output"],
         \A n : Name("output", n) \in DOMAIN files =>
                  /\ Name("output", n) \in DOMAIN files'
                  /\ files'[Name("output", n)] = files[Name("output", n)]
  PROVE  NumbersInv'
BY DEF NumbersInv, NumberIsIndex, Name

\* The next input is loaded: numbers and, if the tree is empty, indices start
\* at 0.
LEMMA LoadKeepsNumbers ==
  ASSUME NumbersInv, current' \in BOOLEAN, load_next_input("OK"), aligned' = (merkle = <<>>),
         UNCHANGED <<merkle, outputs, issued>>
  PROVE  NumbersInv'
<1>1. seq'["output"] = 0
  BY DEF load_next_input, FromZero, Namespace
<1>2. merkle = <<>> => Len(merkle) = 0 /\ issued = {}
  BY DEF NumbersInv
<1>. QED
  BY <1>1, <1>2 DEF NumbersInv, NumberIsIndex

\* An output gets a number, and an index if the tree has room for it.
LEMMA OutputKeepsNumbers ==
  ASSUME MockInv, NEW o \in Output, mock_tx_output(o)
  PROVE  NumbersInv' /\ FilesInv' /\ InputsInv'
<1>. DEFINE name == Name("output", seq["output"])
<1>1. PICK rc \in ReturnCode :
        /\ emit_output(o, rc)
        /\ IF rc = "ENOBUFS" /\ outputs' = outputs
             THEN UNCHANGED <<seq, files, aligned>>
             ELSE /\ store_next_output("output", o, rc # "EIO")
                  /\ aligned' = (aligned /\ rc # "EIO")
  BY DEF mock_tx_output
<1>2. UNCHANGED <<inputs_left, input_filename, current, yielded>>
  BY <1>1 DEF mock_tx_output, emit_output, vars, guest
<1>3. InputsInv' /\ ListGoesOn /\ NameGoesOn /\ StaysGivenUp
  BY <1>2, DropKeepsInputs DEF MockInv, NameGoesOn, StaysGivenUp, Running
<1>4. FilesInv'
  <2>1. CASE rc = "ENOBUFS" /\ outputs' = outputs
    BY <1>1, <1>2, <1>3, <2>1, KeptKeepsFiles DEF MockInv
  <2>2. CASE ~(rc = "ENOBUFS" /\ outputs' = outputs)
    BY <1>1, <1>2, <1>3, <2>2, StoreNextKeepsFiles DEF MockInv, Namespace
  <2>. QED
    BY <2>1, <2>2
<1>5. NumbersInv'
  <2>1. CASE UNCHANGED vars /\ rc = "ENOBUFS"
    BY <1>1, <1>2, <2>1, KeptKeepsNumbers DEF vars, guest, host, MockInv, NumbersInv
  <2>2. CASE UNCHANGED vars /\ rc = "EIO"
    BY <1>1, <1>2, <2>2 DEF vars, guest, host, MockInv, NumbersInv, NumberIsIndex
  <2>3. CASE /\ OutputFits(o) /\ outputs' = Append(outputs, o)
             /\ rc = IF Len(merkle) = Capacity THEN "ENOBUFS" ELSE "OK"
             /\ IF rc = "OK"
                  THEN /\ merkle' = Append(merkle, o)
                       /\ issued' = issued \cup {[index |-> next_index, output |-> o]}
                  ELSE UNCHANGED <<merkle, issued>>
    <3>1. /\ outputs' \in Seq(Output) /\ outputs' # outputs
          /\ merkle \in Seq(Output) /\ Len(merkle) \in Nat /\ Len(merkle) <= Capacity
          /\ \A e \in issued : e.index \in Nat /\ e.index < Len(merkle)
      BY <2>3, AppendProperties DEF MockInv, NumbersInv
    <3>2. store_next_output("output", o, TRUE) /\ (aligned' <=> aligned)
      <4>1. rc # "EIO"
        BY <2>3
      <4>2. store_next_output("output", o, rc # "EIO") /\ aligned' = (aligned /\ rc # "EIO")
        BY <1>1, <3>1
      <4>3. (rc # "EIO") = TRUE
        BY <4>1
      <4>. QED
        BY <4>2, <4>3
    <3>3. /\ seq["output"] \in Nat /\ seq'["output"] = seq["output"] + 1
          /\ name \in DOMAIN files' /\ files'[name] = o
          /\ \A f \in DOMAIN files : f # name => f \in DOMAIN files' /\ files'[f] = files[f]
      BY <3>2, StoreFacts DEF store_next_output, MockInv, FilesInv, Namespace
    <3>4. ASSUME aligned, NEW e \in issued
          PROVE  /\ Name("output", e.index) \in DOMAIN files'
                 /\ files'[Name("output", e.index)] = e.output
      <4>1. /\ Name("output", e.index) \in DOMAIN files
            /\ files[Name("output", e.index)] = e.output
        BY <3>4 DEF MockInv, NumbersInv, NumberIsIndex
      <4>2. e.index < seq["output"]
        BY <4>1 DEF MockInv, FilesInv, Name, RootHash
      <4>3. Name("output", e.index) # name
        BY <3>1, <3>3, <4>2 DEF Name
      <4>. QED
        BY <3>3, <4>1, <4>3
    <3>0. aligned' \in BOOLEAN /\ current' \in BOOLEAN
      <4>1. aligned \in BOOLEAN /\ current \in BOOLEAN /\ current' = current
        BY <1>2 DEF MockInv, NumbersInv
      <4>2. aligned' = aligned \/ aligned' = (aligned /\ rc # "EIO")
        BY <1>1, Zenon
      <4>. QED
        BY <4>1, <4>2, Zenon
    <3>5. CASE Len(merkle) = Capacity
      <4>1. UNCHANGED <<merkle, issued>>
        BY <2>3, <3>5
      <4>2. NumberIsIndex'
        <5>1. SUFFICES ASSUME aligned', NEW e \in issued
                       PROVE  /\ Name("output", e.index)' \in DOMAIN files'
                              /\ files'[Name("output", e.index)'] = e.output
          BY <4>1 DEF NumberIsIndex
        <5>. QED
          BY <1>2, <3>2, <3>4, <5>1 DEF Name
      <4>3. ~(Len(merkle') < Capacity)
        BY <3>5, <4>1, CapacityAssumption
      <4>. QED
        BY <3>0, <3>1, <4>1, <4>2, <4>3 DEF NumbersInv
    <3>6. CASE Len(merkle) # Capacity
      <4>1. /\ merkle' \in Seq(Output) /\ Len(merkle') = Len(merkle) + 1
            /\ issued' = issued \cup {[index |-> Len(merkle), output |-> o]}
            /\ Len(merkle) < Capacity
        <5>1. rc = "OK"
          BY <2>3, <3>6
        <5>2. /\ merkle' = Append(merkle, o)
              /\ issued' = issued \cup {[index |-> Len(merkle), output |-> o]}
          BY <2>3, <5>1 DEF next_index
        <5>3. Len(merkle) < Capacity
          BY <3>1, <3>6, CapacityAssumption
        <5>. QED
          BY <3>1, <5>2, <5>3, AppendProperties
      <4>2. aligned => Len(merkle) = seq["output"]
        BY <4>1 DEF MockInv, NumbersInv
      <4>3. \A e \in issued' : e.index \in Nat /\ e.index < Len(merkle')
        BY <3>1, <4>1
      <4>4. NumberIsIndex'
        <5>1. SUFFICES ASSUME aligned, NEW e \in issued'
                       PROVE  /\ Name("output", e.index) \in DOMAIN files'
                              /\ files'[Name("output", e.index)] = e.output
          BY <1>2, <3>2 DEF NumberIsIndex, Name
        <5>2. CASE e \in issued
          BY <3>4, <5>1, <5>2
        <5>3. CASE e = [index |-> Len(merkle), output |-> o]
          BY <3>3, <4>2, <5>1, <5>3
        <5>. QED
          BY <4>1, <5>2, <5>3
      <4>5. aligned' => seq'["output"] = Len(merkle')
        BY <3>2, <3>3, <4>1, <4>2
      <4>6. Len(merkle') <= Capacity
        BY <3>1, <4>1, CapacityAssumption
      <4>. QED
        BY <3>0, <3>1, <4>1, <4>3, <4>4, <4>5, <4>6 DEF NumbersInv
    <3>. QED
      BY <3>5, <3>6
  <2>. QED
    BY <1>1, <2>1, <2>2, <2>3 DEF emit_output, refused
<1>. QED
  BY <1>3, <1>4, <1>5

-----------------------------------------------------------------------------
(* The invariant.                                                          *)

\* It holds at the start.
LEMMA InitMockInv == InitMock => MockInv
<1>. SUFFICES ASSUME InitMock PROVE MockInv
  OBVIOUS
<1>1. /\ merkle = <<>> /\ outputs = <<>> /\ issued = {} /\ current = FALSE /\ yielded = "no"
      /\ inputs_left = <<>> /\ files = <<>> /\ aligned = TRUE
      /\ seq = [ns \in Namespace |-> 0]
  BY DEF InitMock, Init
<1>2. seq \in [Namespace -> Nat] /\ seq["output"] = 0
  BY <1>1 DEF Namespace
<1>3. InputsInv
  BY <1>1 DEF InputsInv
<1>4. FilesInv
  BY <1>1, <1>2 DEF FilesInv
<1>5. NumbersInv
  <2>1. <<>> \in Seq(Output) /\ Len(<<>>) = 0
    OBVIOUS
  <2>2. NumberIsIndex
    BY <1>1 DEF NumberIsIndex
  <2>3. Len(merkle) = 0 /\ Len(merkle) <= Capacity
    BY <1>1, <2>1, CapacityAssumption
  <2>4. /\ current \in BOOLEAN /\ aligned \in BOOLEAN
        /\ merkle \in Seq(Output) /\ outputs \in Seq(Output)
        /\ \A e \in issued : e.index \in Nat /\ e.index < Len(merkle)
    BY <1>1, <2>1
  <2>. QED
    BY <1>2, <2>2, <2>3, <2>4 DEF NumbersInv
<1>. QED
  BY <1>3, <1>4, <1>5 DEF MockInv

\* No number is given; a file may be written for the root hash.
LEMMA KeptKeepsMock ==
  ASSUME MockInv, InputsInv', ListGoesOn, NameGoesOn, StaysGivenUp,
         current' \in BOOLEAN, aligned' \in BOOLEAN,
         aligned' => aligned /\ UNCHANGED input_filename,
         UNCHANGED <<merkle, outputs, issued, seq>>,
         \/ UNCHANGED files
         \/ /\ Running' => ~current'
            /\ \E content : \E stored \in BOOLEAN : store_output(Name(RootHash, 0), content, stored)
  PROVE  MockInv'
<1>1. /\ DOMAIN files' \subseteq DOMAIN files \cup {Name(RootHash, 0)}
      /\ \A f \in DOMAIN files : f # Name(RootHash, 0) =>
           f \in DOMAIN files' /\ files'[f] = files[f]
  BY StoreFacts
<1>2. Name(RootHash, 0).ns = RootHash /\ \A n : Name("output", n) # Name(RootHash, 0)
  BY DEF Name, RootHash
<1>3. FilesInv'
  BY <1>1, KeptKeepsFiles DEF MockInv
<1>5. NumbersInv'
  BY <1>1, <1>2, KeptKeepsNumbers DEF MockInv
<1>. QED
  BY <1>3, <1>5 DEF MockInv

\* The next input is loaded when its call returns.
LEMMA LoadKeepsMock ==
  ASSUME MockInv, load_next_input("OK"), yielded' = "no", current' \in BOOLEAN,
         aligned' = (merkle = <<>>), UNCHANGED <<merkle, outputs, issued, files>>
  PROVE  MockInv'
<1>1. inputs_left # <<>>
  BY LoadableIsLeft DEF load_next_input, take_next_input
<1>2. InputsInv' /\ ListGoesOn
  BY <1>1, DropKeepsInputs DEF load_next_input, take_next_input, MockInv
<1>3. FilesInv'
  BY <1>2, LoadKeepsFiles DEF MockInv
<1>4. NumbersInv'
  BY LoadKeepsNumbers DEF MockInv
<1>. QED
  BY <1>2, <1>3, <1>4 DEF MockInv

\* A load that fails.
LEMMA LoadFails ==
  ASSUME MockInv, yielded' = "no", NEW r \in LoadResults, r # "OK", take_next_input(r)
  PROVE  /\ InputsInv' /\ ListGoesOn /\ NameGoesOn
         /\ r # "unnamed" => UNCHANGED input_filename
<1>1. CASE r = "EINVAL"
  BY <1>1, DropKeepsInputs DEF MockInv, take_next_input, NameGoesOn
<1>2. CASE r # "EINVAL"
  <2>1. inputs_left # <<>> /\ inputs_left' = Tail(inputs_left)
    BY <1>2, LoadableIsLeft DEF take_next_input
  <2>2. /\ input_filename' \in {input_filename, Head(inputs_left).name}
        /\ r # "unnamed" => UNCHANGED input_filename
    BY DEF take_next_input
  <2>. QED
    BY <2>1, <2>2, DropKeepsInputs DEF MockInv, NameGoesOn
<1>. QED
  BY <1>1, <1>2

\* An accepted finish stores the root hash and asks for the next request.
LEMMA AcceptedKeepsMock ==
  ASSUME MockInv, mock_rx_accepted
  PROVE  MockInv'
<1>0. /\ current \in BOOLEAN /\ aligned \in BOOLEAN
      /\ \E content : \E stored \in BOOLEAN :
           store_output(Name(RootHash, 0), root_hash(merkle), input_seq = 1) =>
             store_output(Name(RootHash, 0), content, stored)
  <2>1. (input_seq = 1) \in BOOLEAN
    OBVIOUS
  <2>. QED
    BY <2>1 DEF MockInv, NumbersInv
<1>1. CASE /\ finish_accept_fails
           /\ UNCHANGED <<inputs_left, input_filename, seq, files, aligned>>
  <2>1. /\ UNCHANGED <<inputs_left, input_filename, yielded, merkle, outputs, issued>>
        /\ current' = FALSE
    BY <1>1 DEF finish_accept_fails, host
  <2>2. InputsInv' /\ ListGoesOn /\ NameGoesOn /\ StaysGivenUp
    BY <2>1, DropKeepsInputs DEF MockInv, NameGoesOn, StaysGivenUp
  <2>. QED
    BY <1>0, <1>1, <2>1, <2>2, KeptKeepsMock
<1>2. CASE /\ store_output(Name(RootHash, 0), root_hash(merkle), input_seq = 1)
           /\ "OK" \in LoadResults /\ finish_accept
           /\ UNCHANGED <<inputs_left, input_filename, seq, aligned>>
  <2>1. inputs_left # <<>>
    BY <1>2, LoadableIsLeft
  <2>2. Next_input \in Message /\ Next_input.type \in RequestType
    BY <2>1, NextInputFacts DEF mock_rx_accepted, AsksInOrder, Next_input, Input, MockInv
  <2>3. Next_input \in Request
    BY <2>2 DEF Message, Request
  <2>4. yielded' = "rx_accepted" /\ UNCHANGED <<merkle, outputs, issued, current>>
    BY <1>2 DEF finish_accept
  <2>5. InputsInv'
    BY <1>2, <2>1, <2>3, <2>4 DEF MockInv, InputsInv, Next_input
  <2>6. ListGoesOn /\ NameGoesOn /\ ~Running'
    BY <1>2, <2>4 DEF ListGoesOn, NameGoesOn, Running
  <2>. QED
    BY <1>0, <1>2, <2>4, <2>5, <2>6, KeptKeepsMock DEF StaysGivenUp
<1>3. ASSUME store_output(Name(RootHash, 0), root_hash(merkle), input_seq = 1), Running,
             NEW r \in LoadResults \ {"OK"}, load_next_input(r),
             aligned' = (aligned /\ r # "unnamed"), current' = FALSE,
             UNCHANGED <<merkle, issued, yielded, host>>
      PROVE  MockInv'
  <2>1. take_next_input(r) /\ UNCHANGED seq
    BY <1>3 DEF load_next_input
  <2>2. /\ InputsInv' /\ ListGoesOn /\ NameGoesOn
        /\ r # "unnamed" => UNCHANGED input_filename
    BY <1>3, <2>1, LoadFails DEF Running
  <2>3. aligned' \in BOOLEAN /\ (aligned' => aligned /\ r # "unnamed")
    BY <1>0, <1>3, Zenon
  <2>4. ~current' /\ current' \in BOOLEAN /\ UNCHANGED outputs
    BY <1>3 DEF host
  <2>. QED
    BY <1>0, <1>3, <2>1, <2>2, <2>3, <2>4, KeptKeepsMock DEF StaysGivenUp
<1>. QED
  BY <1>1, <1>2, <1>3 DEF mock_rx_accepted

\* A rejected finish goes on with the next input, or fails.
LEMMA RejectedKeepsMock ==
  ASSUME MockInv, mock_rx_rejected
  PROVE  MockInv'
<1>0. current \in BOOLEAN /\ aligned \in BOOLEAN
  BY DEF MockInv, NumbersInv
<1>1. PICK r \in LoadResults :
        /\ load_next_input(r)
        /\ current' = (r = "OK" \/ (current /\ r \notin Fills))
        /\ aligned' = IF r = "OK" THEN merkle = <<>> ELSE aligned /\ r # "unnamed"
  BY DEF mock_rx_rejected
<1>2. Running /\ UNCHANGED <<yielded, merkle, issued, outputs, files>>
  BY DEF mock_rx_rejected
<1>3. current' \in BOOLEAN
  BY <1>1, Zenon
<1>4. CASE r = "OK"
  BY <1>1, <1>2, <1>3, <1>4, LoadKeepsMock DEF Running
<1>5. CASE r # "OK"
  <2>1. take_next_input(r) /\ UNCHANGED seq
    BY <1>1, <1>5 DEF load_next_input
  <2>2. /\ InputsInv' /\ ListGoesOn /\ NameGoesOn
        /\ r # "unnamed" => UNCHANGED input_filename
    BY <1>2, <1>5, <2>1, LoadFails DEF Running
  <2>3. aligned' = (aligned /\ r # "unnamed")
    BY <1>1, <1>5
  <2>4. aligned' \in BOOLEAN /\ (aligned' => aligned /\ r # "unnamed")
    BY <1>0, <2>3, Zenon
  <2>5. current' => current
    BY <1>1, <1>5, Zenon
  <2>. QED
    BY <1>2, <1>3, <2>1, <2>2, <2>4, <2>5, KeptKeepsMock DEF StaysGivenUp
<1>. QED
  BY <1>4, <1>5

\* A number for other than outputs.
LEMMA StoreKeepsMock ==
  ASSUME MockInv, InputsInv', ListGoesOn, NameGoesOn, StaysGivenUp,
         current' \in BOOLEAN, aligned' \in BOOLEAN,
         aligned' => aligned /\ UNCHANGED input_filename,
         NEW ns \in Namespace, ns # "output", NEW content, NEW stored \in BOOLEAN,
         store_next_output(ns, content, stored), UNCHANGED <<merkle, outputs, issued>>
  PROVE  MockInv'
<1>1. FilesInv'
  BY StoreNextKeepsFiles DEF MockInv
<1>2. /\ \A f \in DOMAIN files : f # Name(ns, seq[ns]) =>
           f \in DOMAIN files' /\ files'[f] = files[f]
      /\ seq'["output"] = seq["output"]
  BY StoreFacts DEF store_next_output, MockInv, FilesInv, Namespace
<1>3. \A n : Name("output", n) # Name(ns, seq[ns])
  BY DEF Name
<1>4. NumbersInv'
  BY <1>2, <1>3, KeptKeepsNumbers DEF MockInv
<1>. QED
  BY <1>1, <1>4 DEF MockInv

\* A generic request.
LEMMA GioKeepsMock ==
  ASSUME MockInv, NEW payload, mock_tx_gio(payload)
  PROVE  MockInv'
<1>0. "gio" \in Namespace /\ "gio" # "output" /\ current \in BOOLEAN /\ aligned \in BOOLEAN
  BY DEF Namespace, MockInv, NumbersInv
<1>1. ASSUME NEW rc, rc # "stopped", cmt_gio_request(payload, rc),
             UNCHANGED <<inputs_left, input_filename, aligned>>,
             \/ store_next_output("gio", payload, FALSE) \/ UNCHANGED <<seq, files>>
      PROVE  MockInv'
  <2>1. UNCHANGED <<merkle, outputs, issued, current, yielded>>
    BY <1>1 DEF cmt_gio_request, stop, guest, host
  <2>2. InputsInv' /\ ListGoesOn /\ NameGoesOn /\ StaysGivenUp
    BY <1>1, <2>1, DropKeepsInputs DEF MockInv, NameGoesOn, StaysGivenUp, Running
  <2>. QED
    BY <1>0, <1>1, <2>1, <2>2, StoreKeepsMock, KeptKeepsMock
<1>2. CASE /\ "OK" \in LoadResults
           /\ cmt_gio_request(payload, "stopped") /\ store_next_output("gio", payload, TRUE)
           /\ UNCHANGED <<inputs_left, input_filename, aligned>>
  <2>1. inputs_left # <<>>
    BY <1>2, LoadableIsLeft
  <2>2. Next_input.payload \in Payload
    BY <2>1, NextInputFacts DEF Next_input, Input, Message, MockInv
  <2>3. yielded' = "gio" /\ UNCHANGED <<merkle, outputs, issued, current>>
    BY <1>2 DEF cmt_gio_request, stop, refused, guest, host
  <2>4. InputsInv'
    BY <1>2, <2>1, <2>2, <2>3 DEF MockInv, InputsInv, Next_input
  <2>5. ListGoesOn /\ NameGoesOn /\ StaysGivenUp
    BY <1>2, <2>3 DEF ListGoesOn, NameGoesOn, StaysGivenUp, Running
  <2>. QED
    BY <1>0, <1>2, <2>3, <2>4, <2>5, StoreKeepsMock
<1>3. ASSUME Running, store_next_output("gio", payload, TRUE),
             NEW r \in LoadResults \ {"OK"}, take_next_input(r),
             current' = (current /\ r \notin Fills), aligned' = (aligned /\ r # "unnamed"),
             UNCHANGED <<merkle, issued, yielded, host>>
      PROVE  MockInv'
  <2>1. current' \in BOOLEAN /\ (current' => current)
    BY <1>0, <1>3, Zenon
  <2>2. aligned' \in BOOLEAN /\ (aligned' => aligned /\ r # "unnamed")
    BY <1>0, <1>3, Zenon
  <2>3. /\ InputsInv' /\ ListGoesOn /\ NameGoesOn
        /\ r # "unnamed" => UNCHANGED input_filename
    BY <1>3, LoadFails DEF Running
  <2>4. StaysGivenUp /\ UNCHANGED outputs
    BY <1>3, <2>1 DEF StaysGivenUp, host
  <2>. QED
    BY <1>0, <1>3, <2>1, <2>2, <2>3, <2>4, StoreKeepsMock
<1>. QED
  BY <1>1, <1>2, <1>3 DEF mock_tx_gio

\* No step breaks it.
LEMMA NextMockInv == MockInv /\ UnopenedInv /\ [NextMock]_varsMock => MockInv'
<1>. SUFFICES ASSUME MockInv, UnopenedInv, [NextMock]_varsMock PROVE MockInv'
  OBVIOUS
<1>0. InputsInv /\ current \in BOOLEAN /\ aligned \in BOOLEAN
  BY DEF MockInv, NumbersInv
<1>1. CASE cmt_io_init
  <2>1. PICK list \in InputLists : inputs_left' = list
    BY <1>1 DEF cmt_io_init
  <2>2. /\ list \in Seq(Input) /\ \A i \in 1..Len(list) : list[i].name # "none"
        /\ \A i, j \in 1..Len(list) : list[i].name = list[j].name => i = j
    <3>1. list \in Seq(Input)
      <4>1. Input = [name : InputNames, message : Message]
        BY DEF Input
      <4>. QED
        BY <4>1, InputsAssumption
    <3>0. DOMAIN list = 1..Len(list)
      BY <3>1
    <3>2. \A i \in 1..Len(list) : list[i] \in Input
      BY <3>1
    <3>. QED
      BY <3>0, <3>1, <3>2, InputsAssumption DEF Input
  <2>3. yielded = "no" /\ input_filename = "none" /\ files = <<>>
    BY <1>1 DEF cmt_io_init, UnopenedInv
  <2>4. UNCHANGED <<vars, input_filename, seq, files, aligned>>
    BY <1>1 DEF cmt_io_init
  <2>5. InputsInv'
    BY <2>1, <2>2, <2>3, <2>4 DEF InputsInv, vars
  <2>6. FilesInv'
    BY <2>3, <2>4 DEF MockInv, FilesInv
  <2>7. NumbersInv'
    BY <2>4 DEF MockInv, NumbersInv, NumberIsIndex, Name, vars, guest, host
  <2>. QED
    BY <2>5, <2>6, <2>7 DEF MockInv
<1>2. CASE \/ cmt_io_init_fails \/ cmt_io_init_busy \/ cmt_io_fini \/ cmt_io_fini_closed
           \/ mock_progress \/ UNCHANGED varsMock
  <2>1. UNCHANGED <<vars, inputs_left, input_filename, seq, files, aligned>>
    BY <1>2 DEF cmt_io_init_fails, cmt_io_init_busy, cmt_io_fini, cmt_io_fini_closed,
                mock_progress, cmt_rollup_progress, varsMock, driver
  <2>2. UNCHANGED <<current, yielded, merkle, outputs, issued>>
    BY <2>1 DEF vars, guest, host
  <2>3. InputsInv' /\ ListGoesOn /\ NameGoesOn /\ StaysGivenUp
    BY <1>0, <2>1, <2>2, DropKeepsInputs DEF NameGoesOn, StaysGivenUp, Running
  <2>. QED
    BY <1>0, <2>1, <2>2, <2>3, KeptKeepsMock
<1>3. ASSUME NEW o \in Emits, mock_tx_output(o) PROVE MockInv'
  BY <1>3, YieldsAssumption, OutputKeepsNumbers DEF MockInv
<1>4. ASSUME NEW ns \in {"report", "exception"}, NEW payload \in Texts, mock_tx_raw(ns, payload)
      PROVE  MockInv'
  <2>1. \/ UNCHANGED <<seq, files>>
        \/ \E stored \in BOOLEAN : store_next_output(ns, payload, stored)
    BY <1>4 DEF mock_tx_raw
  <2>2. /\ UNCHANGED <<current, yielded, merkle, outputs, issued>>
        /\ UNCHANGED <<inputs_left, input_filename, aligned>>
    BY <1>4 DEF mock_tx_raw, vars, guest, host
  <2>3. InputsInv' /\ ListGoesOn /\ NameGoesOn /\ StaysGivenUp
    BY <1>0, <2>2, DropKeepsInputs DEF NameGoesOn, StaysGivenUp, Running
  <2>4. ns \in Namespace /\ ns # "output"
    BY DEF Namespace
  <2>. QED
    BY <1>0, <2>1, <2>2, <2>3, <2>4, StoreKeepsMock, KeptKeepsMock
<1>5. CASE reset_merkle
  <2>1. /\ merkle' = <<>> /\ issued' = {} /\ aligned' = (seq["output"] = 0)
        /\ UNCHANGED <<outputs, current, yielded, inputs_left, input_filename, seq, files>>
    BY <1>5 DEF reset_merkle, cmt_rollup_reset_merkle, driver, host
  <2>2. InputsInv'
    BY <1>0, <2>1, DropKeepsInputs
  <2>3. FilesInv'
    BY <2>1 DEF MockInv, FilesInv, Running
  <2>4. NumbersInv'
    <3>1. <<>> \in Seq(Output) /\ Len(<<>>) = 0
      OBVIOUS
    <3>2. aligned' \in BOOLEAN /\ NumberIsIndex'
      BY <2>1 DEF NumberIsIndex
    <3>3. aligned' => seq'["output"] = 0
      BY <2>1
    <3>4. UNCHANGED <<outputs, current>> /\ outputs \in Seq(Output) /\ current \in BOOLEAN
      BY <2>1 DEF MockInv, NumbersInv
    <3>. QED
      BY <2>1, <3>1, <3>2, <3>3, <3>4, CapacityAssumption DEF NumbersInv
  <2>. QED
    BY <2>2, <2>3, <2>4 DEF MockInv
<1>6. CASE mock_rx_accepted
  BY <1>6, AcceptedKeepsMock
<1>7. CASE mock_rx_accepted_returns
  BY <1>7, LoadKeepsMock DEF mock_rx_accepted_returns, finish_returns
<1>8. CASE mock_rx_rejected
  BY <1>8, RejectedKeepsMock
<1>9. ASSUME NEW payload \in Texts, mock_tx_gio(payload) PROVE MockInv'
  BY <1>9, GioKeepsMock
<1>10. CASE mock_tx_gio_returns
  BY <1>10, LoadKeepsMock DEF mock_tx_gio_returns, gio_returns, host
<1>. QED
  BY <1>1, <1>2, <1>3, <1>4, <1>5, <1>6, <1>7, <1>8, <1>9, <1>10 DEF NextMock

\* Nothing is stored or loaded before the driver is opened.
LEMMA NextUnopenedInv == UnopenedInv /\ [NextMock]_varsMock => UnopenedInv'
BY DEF UnopenedInv, NextMock, cmt_io_init, cmt_io_init_fails, cmt_io_init_busy, cmt_io_fini,
       cmt_io_fini_closed, mock_tx_output, mock_tx_raw, mock_progress, reset_merkle,
       mock_rx_accepted, mock_rx_accepted_returns, mock_rx_rejected, mock_tx_gio,
       mock_tx_gio_returns, Open, varsMock, vars, driver

\* The inductive invariant holds always.
LEMMA MockInductive == SpecMock => []MockInv
<1>1. InitMock => UnopenedInv
  BY DEF InitMock, Init, UnopenedInv
<1>. QED
  BY InitMockInv, NextMockInv, NextUnopenedInv, <1>1, PTL DEF SpecMock

-----------------------------------------------------------------------------
(* Theorems.                                                               *)

\* A yield writes over a file only when it stores the root hash of one input
\* again (io-mock.c:122-135, 180-191).
THEOREM NamesCorrect == SpecMock => []NextNamesAreNew
<1>1. MockInv => NextNamesAreNew
  BY DEF MockInv, FilesInv, NextNamesAreNew
<1>. QED
  BY MockInductive, <1>1, PTL

\* The output with index n is in the file with number n (rollup.c:109-118).
THEOREM NumbersCorrect == SpecMock => []NumberIsIndex
<1>1. MockInv => NumberIsIndex
  BY DEF MockInv, NumbersInv
<1>. QED
  BY MockInductive, <1>1, PTL

\* What a call does and returns with the mock, it may do and return on the
\* machine, but for the three actions that the property names (io-mock.c:283).
THEOREM MockRefinesMachine == SpecMock => ImplementsMachine
<1>. DEFINE Step == MachineCall \/ ExceptionReturns \/ RejectionReturns \/ LoadsInVain
<1>1. InitMock => Init
  BY DEF InitMock
<1>2. ASSUME MockInv, [NextMock]_varsMock PROVE [Step]_<<vars, told>>
  <2>1. CASE \/ cmt_io_init \/ cmt_io_init_fails \/ cmt_io_init_busy \/ cmt_io_fini
             \/ cmt_io_fini_closed \/ UNCHANGED varsMock
    BY <2>1 DEF cmt_io_init, cmt_io_init_fails, cmt_io_init_busy, cmt_io_fini,
                cmt_io_fini_closed, varsMock
  <2>2. CASE mock_progress
    BY <2>2 DEF mock_progress, MachineCall, ReturnCode
  <2>3. ASSUME NEW o \in Emits, mock_tx_output(o) PROVE MachineCall
    <3>1. PICK rc \in ReturnCode : emit_output(o, rc) /\ Returns("output", rc)
      BY <2>3 DEF mock_tx_output
    <3>2. o \in Output
      BY YieldsAssumption
    <3>. QED
      BY <3>1, <3>2 DEF MachineCall
  <2>4. ASSUME NEW ns \in {"report", "exception"}, NEW payload \in Texts, mock_tx_raw(ns, payload)
        PROVE  MachineCall \/ ExceptionReturns
    <3>1. PICK rc \in {"OK", "EIO", "ENOBUFS"} :
            /\ Returns(ns, rc) /\ Running /\ UNCHANGED vars
            /\ rc = "ENOBUFS" <=> ~RawFits(payload)
      BY <2>4 DEF mock_tx_raw
    <3>2. payload \in Payload /\ rc \in ReturnCode
      BY YieldsAssumption DEF ReturnCode
    <3>3. CASE ns = "report"
      <4>1. cmt_rollup_emit_report(payload, rc)
        BY <3>1 DEF cmt_rollup_emit_report, refused
      <4>. QED
        BY <3>1, <3>2, <3>3, <4>1 DEF MachineCall
    <3>4. CASE ns = "exception" /\ rc # "OK"
      <4>1. cmt_rollup_emit_exception(payload, rc)
        BY <3>1, <3>4 DEF cmt_rollup_emit_exception, stop, refused, vars
      <4>. QED
        BY <3>1, <3>2, <3>4, <4>1 DEF MachineCall
    <3>5. CASE ns = "exception" /\ rc = "OK"
      BY <3>1, <3>5 DEF ExceptionReturns
    <3>. QED
      BY <3>3, <3>4, <3>5
  <2>5. CASE reset_merkle
    BY <2>5 DEF reset_merkle, MachineCall
  <2>6. CASE mock_rx_accepted
    <3>1. CASE finish_accept_fails /\ Returns("finish", "EIO")
      BY <3>1 DEF MachineCall
    <3>2. CASE finish_accept /\ Returns("finish", "stopped")
      BY <3>2 DEF MachineCall
    <3>3. ASSUME Running, NEW r \in LoadResults \ {"OK"},
                 rx' = rx_after(r), Returns("finish", rc_of_load(r)), Call(TRUE),
                 fromhost_data' = CMT_ABI_U256_LENGTH, current' = FALSE,
                 UNCHANGED <<merkle, issued, mark, yielded, host>>
          PROVE  MachineCall \/ LoadsInVain
      <4>1. Returns("finish", "EIO")
        BY <3>3 DEF rc_of_load
      <4>2. CASE r \in Fills
        BY <3>3, <4>1, <4>2, LoadableIsLeft DEF LoadsInVain, rx_after, Fills
      <4>3. CASE r \notin Fills
        BY <3>3, <4>1, <4>3 DEF MachineCall, finish_accept_fails, rx_after
      <4>. QED
        BY <4>2, <4>3
    <3>. QED
      BY <2>6, <3>1, <3>2, <3>3 DEF mock_rx_accepted
  <2>7. CASE mock_rx_accepted_returns
    <3>1. Next_input \in Request
      BY <1>2, <2>7 DEF mock_rx_accepted_returns, MockInv, InputsInv
    <3>. QED
      BY <2>7, <3>1 DEF mock_rx_accepted_returns, MachineCall, rc_of_load
  <2>8. CASE mock_rx_rejected
    <3>1. PICK r \in LoadResults :
            /\ rx' = rx_after(r) /\ Returns("finish", rc_of_load(r))
            /\ request' = IF r = "OK" THEN Next_input ELSE request
            /\ current' = (r = "OK" \/ (current /\ r \notin Fills))
      BY <2>8 DEF mock_rx_rejected
    <3>2. /\ Running /\ Call(FALSE)
          /\ UNCHANGED <<fromhost_data, merkle, issued, mark, yielded, outputs, settled, claim,
                         snapshot>>
      BY <2>8 DEF mock_rx_rejected
    <3>3. CASE r = "OK"
      <4>1. current' = TRUE
        BY <3>1, <3>3, Zenon
      <4>. QED
        BY <3>1, <3>2, <3>3, <4>1, LoadableIsLeft DEF RejectionReturns, rx_after, rc_of_load, Fills
    <3>4. CASE r # "OK" /\ r \in Fills
      <4>1. ~current' /\ current' \in BOOLEAN
        BY <3>1, <3>4, Zenon
      <4>. QED
        BY <3>1, <3>2, <3>4, <4>1, LoadableIsLeft DEF LoadsInVain, rx_after, rc_of_load, Fills, host
    <3>5. CASE r \notin Fills
      <4>1. r # "OK"
        BY <3>5 DEF Fills
      <4>2. current \in BOOLEAN
        BY <1>2 DEF MockInv, NumbersInv
      <4>3. current' = current
        BY <3>1, <3>5, <4>1, <4>2, Zenon
      <4>4. finish_reject("EIO") /\ Returns("finish", "EIO")
        BY <3>1, <3>2, <3>5, <4>1, <4>3 DEF finish_reject, rx_after, rc_of_load, host
      <4>. QED
        BY <4>4 DEF MachineCall, ReturnCode
    <3>. QED
      BY <3>3, <3>4, <3>5
  <2>9. ASSUME NEW payload \in Texts, mock_tx_gio(payload) PROVE MachineCall \/ LoadsInVain
    <3>0. payload \in Payload
      BY YieldsAssumption
    <3>1. ASSUME NEW rc \in {"ENOBUFS", "EIO", "stopped"},
                 cmt_gio_request(payload, rc), Returns("gio", rc)
          PROVE  MachineCall
      BY <3>0, <3>1 DEF MachineCall, ReturnCode
    <3>2. ASSUME Running, RawFits(payload), NEW r \in LoadResults \ {"OK"},
                 rx' = rx_after(r), Returns("gio", rc_of_load(r)),
                 current' = (current /\ r \notin Fills),
                 UNCHANGED <<fromhost_data, merkle, finish, issued, mark, yielded, host>>
          PROVE  MachineCall \/ LoadsInVain
      <4>1. Returns("gio", "EIO")
        BY <3>2 DEF rc_of_load
      <4>2. CASE r \in Fills
        <5>1. ~current' /\ current' \in BOOLEAN
          BY <3>2, <4>2, Zenon
        <5>. QED
          BY <3>2, <4>1, <4>2, <5>1, LoadableIsLeft DEF LoadsInVain, rx_after, Fills
      <4>3. CASE r \notin Fills
        <5>1. current \in BOOLEAN
          BY <1>2 DEF MockInv, NumbersInv
        <5>2. current' = current
          BY <3>2, <4>3, <5>1, Zenon
        <5>3. cmt_gio_request(payload, "EIO")
          BY <3>2, <4>3, <5>2 DEF cmt_gio_request, stop, refused, rx_after, guest
        <5>. QED
          BY <3>1, <4>1, <5>3
      <4>. QED
        BY <4>2, <4>3
    <3>. QED
      BY <2>9, <3>1, <3>2 DEF mock_tx_gio
  <2>10. CASE mock_tx_gio_returns
    <3>1. Next_input.payload \in Payload
      BY <1>2, <2>10 DEF mock_tx_gio_returns, MockInv, InputsInv
    <3>. QED
      BY <2>10, <3>1 DEF mock_tx_gio_returns, MachineCall, rc_of_load
  <2>. QED
    BY <1>2, <2>1, <2>2, <2>3, <2>4, <2>5, <2>6, <2>7, <2>8, <2>9, <2>10 DEF NextMock
<1>. QED
  BY MockInductive, <1>1, <1>2, PTL DEF SpecMock, ImplementsMachine
=============================================================================

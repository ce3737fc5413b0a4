---------------------------- MODULE RollupProofs ----------------------------
(***************************************************************************)
(* Theorems of Rollup.tla, for any payloads, buffer and tree sizes and any *)
(* number of outputs.                                                      *)
(***************************************************************************)
EXTENDS Rollup, TLAPS, SequenceTheorems

(* The inductive invariant.                                                *)

\* An index that was given out names the leaf it was given out for.
IssuedInTree(indices, tree) ==
  \A e \in indices : e.index < Len(tree) /\ tree[e.index + 1] = e.output

\* The saved machine agrees with the settled outputs, which are what the host
\* keeps when it puts that machine back.
SnapshotListsSettled ==
  snapshot.taken =>
    /\ Len(snapshot.merkle) <= Capacity
    /\ Lists(snapshot.merkle, snapshot.mark, settled)
    /\ IssuedInTree(snapshot.issued, snapshot.merkle)

\* The types, and the bound that keeps the outputs a sequence when the host
\* drops those that are not settled.
TypeInv == TypeOK /\ settled <= Len(outputs)

IInv ==
  /\ TypeInv
  /\ Len(merkle) <= Capacity
  /\ TreeListsOutputs
  /\ IssuedInTree(issued, merkle)
  /\ SnapshotListsSettled
  /\ ClaimCoversSettled

-----------------------------------------------------------------------------
(* Lemmas.                                                                 *)

\* The length of a message is a natural number.
LEMMA MessageLengthType ==
  ASSUME NEW m, m.payload \in Payload
  PROVE  MessageLength(m) \in Nat
<1>1. PayloadLength[m.payload] \in Nat
  BY PayloadAssumption
<1>2. align_forward(PayloadLength[m.payload]) \in Nat
  BY <1>1 DEF align_forward, CMT_ABI_U256_LENGTH
<1>. QED
  BY <1>1, <1>2 DEF MessageLength, EncodedLength, BytesStart, FunselLength, EvmAdvanceWords,
                    CMT_ABI_U256_LENGTH

\* What a step that is not a stutter is: the actions, with the emissions of
\* the three kinds of outputs as one case, and the calls that may stop the
\* machine as another.
LEMMA StepCases ==
  ASSUME Next
  PROVE  \/ \E o \in Output, rc \in ReturnCode : emit_output(o, rc)
         \/ \E fits \in BOOLEAN, rc \in ReturnCode, reason \in {"tx_exception", "gio"} :
              stop(fits, reason, rc)
         \/ \E rc \in ReturnCode : finish_reject(rc)
         \/ cmt_rollup_reset_merkle
         \/ finish_accept
         \/ finish_accept_fails
         \/ finish_accept_inspect
         \/ host_revert
         \/ \E req \in Request : finish_returns(req)
         \/ \E p \in Payload : gio_returns(p)
         \/ UNCHANGED vars
<1>1. ASSUME NEW p \in Payload, NEW kind \in OutputKind
      PROVE  [kind |-> kind, payload |-> p] \in Output
  BY <1>1 DEF Output
<1>2. ASSUME NEW p \in Payload PROVE RawFits(p) \in BOOLEAN
  BY DEF RawFits
<1>. QED
  BY <1>1, <1>2
     DEF Next, cmt_rollup_emit_voucher, cmt_rollup_emit_delegate_call_voucher,
         cmt_rollup_emit_notice, cmt_rollup_emit_report, cmt_rollup_progress,
         cmt_rollup_emit_exception, cmt_gio_request, host_gives_up, OutputKind

\* What an emission does when it does anything.
LEMMA EmitCases ==
  ASSUME NEW o, NEW rc, emit_output(o, rc), ~UNCHANGED vars
  PROVE  /\ outputs' = Append(outputs, o)
         /\ \/ /\ Len(merkle) # Capacity
               /\ merkle' = Append(merkle, o)
               /\ issued' = issued \cup {[index |-> next_index, output |-> o]}
            \/ Len(merkle) = Capacity /\ merkle' = merkle /\ issued' = issued
         /\ UNCHANGED <<fromhost_data, finish, mark, current, rx, yielded,
                        request, settled, claim, snapshot>>
BY DEF emit_output

-----------------------------------------------------------------------------
(* Types.                                                                  *)

\* The types hold at the start.
LEMMA InitType == Init => TypeInv
<1>. SUFFICES ASSUME Init PROVE TypeInv
  OBVIOUS
<1>1. <<>> \in Seq(Output) /\ Len(<<>>) = 0
  OBVIOUS
<1>2. finish \in [accept_previous_request : BOOLEAN,
                  next_request_type : RequestType \cup {"none"},
                  next_request_payload_length : Nat]
  BY DEF Init, NoFinish
<1>3. claim \in [root : Seq(Output), mark : Nat]
  BY <1>1 DEF Init, NoClaim
<1>4. rx \in Message \cup {NoMessage} /\ request \in Request \cup {NoMessage}
  BY DEF Init
<1>5. snapshot \in Image \cup {NoSnapshot}
  BY DEF Init
<1>6. /\ fromhost_data \in Nat /\ mark \in Nat /\ settled \in Nat
      /\ current \in BOOLEAN
      /\ yielded \in {"no", "rx_accepted", "gio"} \cup Discarded
  BY DEF Init
<1>7. /\ merkle \in Seq(Output) /\ outputs \in Seq(Output) /\ settled <= Len(outputs)
      /\ issued \in SUBSET [index : Nat, output : Output]
  BY <1>1 DEF Init
<1>. QED
  BY <1>2, <1>3, <1>4, <1>5, <1>6, <1>7 DEF TypeInv, TypeOK

\* No step breaks the types.
LEMMA NextType == TypeInv /\ [Next]_vars => TypeInv'
<1>. SUFFICES ASSUME TypeInv, [Next]_vars PROVE TypeInv'
  OBVIOUS
<1>. USE DEF TypeInv, TypeOK
<1>1. ASSUME NEW o \in Output, NEW rc \in ReturnCode, emit_output(o, rc) PROVE TypeInv'
  <2>1. CASE UNCHANGED vars
    BY <2>1 DEF vars, guest, host
  <2>2. CASE ~UNCHANGED vars
    <3>. /\ outputs' = Append(outputs, o)
         /\ \/ /\ Len(merkle) # Capacity
               /\ merkle' = Append(merkle, o)
               /\ issued' = issued \cup {[index |-> next_index, output |-> o]}
            \/ Len(merkle) = Capacity /\ merkle' = merkle /\ issued' = issued
         /\ UNCHANGED <<fromhost_data, finish, mark, current, rx, yielded,
                        request, settled, claim, snapshot>>
      BY <1>1, <2>2, EmitCases, Zenon
    <3>1. outputs' \in Seq(Output) /\ Len(outputs') = Len(outputs) + 1
      BY AppendProperties
    <3>2. merkle' \in Seq(Output)
      <4>1. Append(merkle, o) \in Seq(Output)
        BY AppendProperties
      <4>. QED
        BY <4>1
    <3>3. [index |-> next_index, output |-> o] \in [index : Nat, output : Output]
      BY DEF next_index
    <3>4. issued' \in SUBSET [index : Nat, output : Output]
      BY <3>3
    <3>. QED
      BY <3>1, <3>2, <3>4
  <2>. QED
    BY <2>1, <2>2
<1>2. ASSUME NEW fits \in BOOLEAN, NEW rc \in ReturnCode, NEW reason \in {"tx_exception", "gio"},
             stop(fits, reason, rc)
      PROVE  TypeInv'
  BY <1>2 DEF stop, Discarded, guest, host
<1>3. ASSUME NEW rc \in ReturnCode, finish_reject(rc) PROVE TypeInv'
  BY <1>3 DEF finish_reject, Call, Discarded, guest, host
<1>4. CASE cmt_rollup_reset_merkle
  BY <1>4 DEF cmt_rollup_reset_merkle, guest, host
<1>5. CASE finish_accept
  <2>1. root_hash(merkle) \in Seq(Output)
    BY DEF root_hash
  <2>2. snapshot' \in Image
    BY <1>5 DEF finish_accept, Image
  <2>3. claim' \in [root : Seq(Output), mark : Nat]
    BY <1>5, <2>1 DEF finish_accept
  <2>4. finish' \in [accept_previous_request : BOOLEAN,
                     next_request_type : RequestType \cup {"none"},
                     next_request_payload_length : Nat]
    BY <1>5 DEF finish_accept, Call
  <2>5. /\ fromhost_data' \in Nat /\ yielded' = "rx_accepted"
        /\ settled' = Len(outputs) /\ outputs' = outputs
        /\ UNCHANGED <<merkle, issued, mark, current, rx, request>>
    BY <1>5 DEF finish_accept, CMT_ABI_U256_LENGTH
  <2>. QED
    BY <2>2, <2>3, <2>4, <2>5
<1>6. CASE finish_accept_fails
  BY <1>6 DEF finish_accept_fails, Call, CMT_ABI_U256_LENGTH, guest, host
<1>7. CASE finish_accept_inspect
  BY <1>7 DEF finish_accept_inspect, Call, CMT_ABI_U256_LENGTH, Discarded, guest, host
<1>8. CASE host_revert
  <2>1. snapshot \in Image
    BY <1>8 DEF host_revert, NoSnapshot
  <2>2. outputs' \in Seq(Output) /\ Len(outputs') = settled
    <3>1. \A i \in 1..settled : outputs[i] \in Output
      OBVIOUS
    <3>. QED
      BY <1>8, <3>1, SubSeqProperties DEF host_revert
  <2>3. finish' \in [accept_previous_request : BOOLEAN,
                     next_request_type : RequestType \cup {"none"},
                     next_request_payload_length : Nat]
    BY <1>8 DEF host_revert, Call
  <2>4. /\ snapshot.merkle \in Seq(Output)
        /\ snapshot.mark \in Nat
        /\ snapshot.issued \in SUBSET [index : Nat, output : Output]
    BY <2>1 DEF Image
  <2>5. /\ fromhost_data' \in Nat
        /\ merkle' \in Seq(Output)
        /\ issued' \in SUBSET [index : Nat, output : Output]
        /\ mark' \in Nat
    BY <1>8, <2>4 DEF host_revert, CMT_ABI_U256_LENGTH
  <2>6. /\ yielded' \in {"no", "rx_accepted", "gio"} \cup Discarded
        /\ settled' \in Nat /\ settled' <= Len(outputs')
    BY <1>8, <2>2 DEF host_revert
  <2>7. UNCHANGED <<current, rx, request, claim, snapshot>>
    BY <1>8 DEF host_revert
  <2>8. /\ current' \in BOOLEAN /\ rx' \in Message \cup {NoMessage}
        /\ request' \in Request \cup {NoMessage}
        /\ claim' \in [root : Seq(Output), mark : Nat]
        /\ snapshot' \in Image \cup {NoSnapshot}
    BY <2>7, Zenon
  <2>. QED
    BY <2>2, <2>3, <2>5, <2>6, <2>8
<1>9. ASSUME NEW req \in Request, finish_returns(req) PROVE TypeInv'
  <2>1. MessageLength(req) \in Nat
    BY MessageLengthType DEF Request
  <2>. QED
    BY <1>9, <2>1 DEF finish_returns, Request, Message, guest, host
<1>10. ASSUME NEW p \in Payload, gio_returns(p) PROVE TypeInv'
  BY <1>10, PayloadAssumption DEF gio_returns, Message, guest, host
<1>11. CASE UNCHANGED vars
  BY <1>11 DEF vars, guest, host
<1>. QED
  BY StepCases, <1>1, <1>2, <1>3, <1>4, <1>5, <1>6, <1>7, <1>8, <1>9, <1>10, <1>11

\* Every variable keeps its type.
THEOREM TypeCorrect == Spec => []TypeOK
<1>1. TypeInv => TypeOK
  BY DEF TypeInv
<1>. QED
  BY InitType, NextType, <1>1, PTL DEF Spec

-----------------------------------------------------------------------------
(* The tree, the outputs and the claim.                                    *)

\* Sequences that agree from m to n have the same subsequence there.
LEMMA SubSeqAgree ==
  ASSUME NEW S, NEW s, NEW t, NEW m \in Int, NEW n \in Int,
         \A i \in m..n : s[i] \in S /\ t[i] = s[i]
  PROVE  SubSeq(s, m, n) = SubSeq(t, m, n)
<1>1. /\ SubSeq(s, m, n) \in Seq(S)
      /\ Len(SubSeq(s, m, n)) = IF m <= n THEN n - m + 1 ELSE 0
      /\ \A i \in 1..(n - m + 1) : SubSeq(s, m, n)[i] = s[m + i - 1]
  BY SubSeqProperties
<1>2. /\ SubSeq(t, m, n) \in Seq(S)
      /\ Len(SubSeq(t, m, n)) = IF m <= n THEN n - m + 1 ELSE 0
      /\ \A i \in 1..(n - m + 1) : SubSeq(t, m, n)[i] = t[m + i - 1]
  BY SubSeqProperties
<1>3. \A i \in 1..Len(SubSeq(s, m, n)) : SubSeq(s, m, n)[i] = SubSeq(t, m, n)[i]
  BY <1>1, <1>2
<1>. QED
  BY <1>1, <1>2, <1>3, SeqEqual

\* The invariant, as the facts that the lemmas below use.
LEMMA Facts ==
  ASSUME IInv
  PROVE  /\ merkle \in Seq(Output) /\ outputs \in Seq(Output)
         /\ mark \in Nat /\ settled \in Nat /\ claim.mark \in Nat
         /\ settled <= Len(outputs) /\ Len(merkle) <= Capacity
         /\ mark + Len(merkle) <= Len(outputs)
         /\ \A i \in 1..Len(merkle) : merkle[i] = outputs[mark + i]
         /\ Len(merkle) < Capacity => mark + Len(merkle) = Len(outputs)
         /\ \A e \in issued : /\ e.index \in Nat /\ e.index < Len(merkle)
                             /\ merkle[e.index + 1] = e.output
BY DEF IInv, TypeInv, TypeOK, TreeListsOutputs, Lists, IssuedInTree

\* The same for the saved machine.
LEMMA SnapshotFacts ==
  ASSUME IInv, snapshot.taken
  PROVE  /\ snapshot.merkle \in Seq(Output) /\ snapshot.mark \in Nat
         /\ Len(snapshot.merkle) <= Capacity
         /\ snapshot.mark + Len(snapshot.merkle) <= settled
         /\ \A i \in 1..Len(snapshot.merkle) :
              snapshot.merkle[i] = outputs[snapshot.mark + i]
         /\ Len(snapshot.merkle) < Capacity =>
              snapshot.mark + Len(snapshot.merkle) = settled
         /\ IssuedInTree(snapshot.issued, snapshot.merkle)
<1>1. snapshot \in Image
  <2>1. snapshot \in Image \cup {NoSnapshot}
    BY DEF IInv, TypeInv, TypeOK
  <2>. QED
    BY <2>1 DEF NoSnapshot
<1>2. snapshot.merkle \in Seq(Output) /\ snapshot.mark \in Nat
  BY <1>1 DEF Image
<1>. QED
  BY <1>2 DEF IInv, SnapshotListsSettled, Lists

\* What the invariant says of the host's own records depends on the settled
\* outputs only, and so is not disturbed by what happens to the others.
LEMMA SettledKept ==
  ASSUME IInv, UNCHANGED <<settled, claim, snapshot>>,
         \A i \in 1..settled : outputs'[i] = outputs[i]
  PROVE  SnapshotListsSettled' /\ ClaimCoversSettled'
<1>1. SnapshotListsSettled'
  <2>1. SUFFICES ASSUME snapshot.taken PROVE SnapshotListsSettled'
    BY DEF SnapshotListsSettled
  <2>2. settled \in Nat
    BY Facts
  <2>3. ASSUME NEW i \in 1..Len(snapshot.merkle)
        PROVE  snapshot.merkle[i] = outputs'[snapshot.mark + i]
    <3>1. /\ snapshot.merkle[i] = outputs[snapshot.mark + i]
          /\ snapshot.merkle \in Seq(Output) /\ snapshot.mark \in Nat
          /\ snapshot.mark + Len(snapshot.merkle) <= settled
      BY <2>1, SnapshotFacts
    <3>2. snapshot.mark + i \in 1..settled
      BY <2>2, <3>1
    <3>. QED
      BY <3>1, <3>2
  <2>. QED
    BY <2>1, <2>3, SnapshotFacts DEF SnapshotListsSettled, Lists, IssuedInTree
<1>2. ClaimCoversSettled'
  <2>1. \A i \in (claim.mark + 1)..settled : outputs[i] \in Output /\ outputs'[i] = outputs[i]
    BY Facts
  <2>2. SubSeq(outputs, claim.mark + 1, settled) = SubSeq(outputs', claim.mark + 1, settled)
    <3>1. claim.mark + 1 \in Int /\ settled \in Int
      BY Facts
    <3>. QED
      BY <2>1, <3>1, SubSeqAgree
  <2>. QED
    BY <2>2 DEF IInv, ClaimCoversSettled
<1>. QED
  BY <1>1, <1>2

\* Steps that touch none of the variables the invariant relates.
LEMMA NothingRelatedChanges ==
  ASSUME IInv, TypeInv', UNCHANGED <<merkle, issued, mark, outputs, settled, claim, snapshot>>
  PROVE  IInv'
<1>1. /\ Len(merkle)' <= Capacity /\ TreeListsOutputs' /\ IssuedInTree(issued, merkle)'
  BY DEF IInv, TreeListsOutputs, Lists, IssuedInTree
<1>2. SnapshotListsSettled' /\ ClaimCoversSettled'
  BY SettledKept
<1>. QED
  BY <1>1, <1>2 DEF IInv

\* An output that is delivered becomes a leaf, or the tree is full.
LEMMA EmissionKeepsIInv ==
  ASSUME NEW o \in Output, NEW rc \in ReturnCode, emit_output(o, rc), ~UNCHANGED vars,
         IInv, TypeInv'
  PROVE  IInv'
<1>1. outputs' = Append(outputs, o) /\ UNCHANGED <<mark, settled, claim, snapshot>>
  BY EmitCases, Zenon
<1>2. /\ Len(outputs') = Len(outputs) + 1
      /\ outputs'[Len(outputs) + 1] = o
      /\ \A i \in 1..Len(outputs) : outputs'[i] = outputs[i]
  <2>1. outputs \in Seq(Output)
    BY Facts
  <2>. QED
    BY <1>1, <2>1, AppendProperties
<1>3. SnapshotListsSettled' /\ ClaimCoversSettled'
  <2>1. \A i \in 1..settled : outputs'[i] = outputs[i]
    BY <1>2, Facts
  <2>. QED
    BY <1>1, <2>1, SettledKept
<1>4. \A i \in 1..Len(merkle) : merkle[i] = outputs'[mark + i]
  <2>1. \A i \in 1..Len(merkle) : mark + i \in 1..Len(outputs)
    BY Facts
  <2>. QED
    BY <1>2, <2>1, Facts
<1>5. ASSUME Len(merkle) # Capacity, merkle' = Append(merkle, o),
             issued' = issued \cup {[index |-> next_index, output |-> o]}
      PROVE  IInv'
  <2>1. /\ Len(merkle') = Len(merkle) + 1
        /\ merkle'[Len(merkle) + 1] = o
        /\ \A i \in 1..Len(merkle) : merkle'[i] = merkle[i]
    <3>1. merkle \in Seq(Output)
      BY Facts
    <3>. QED
      BY <1>5, <3>1, AppendProperties
  <2>2. /\ Len(merkle) \in Nat /\ Len(merkle) < Capacity
        /\ mark \in Nat /\ mark + Len(merkle) = Len(outputs)
    BY <1>5, CapacityAssumption, Facts
  <2>3. TreeListsOutputs'
    <3>1. mark' + Len(merkle') = Len(outputs')
      <4>1. mark' = mark
        BY <1>1
      <4>. QED
        BY <1>2, <2>1, <2>2, <4>1
    <3>2. ASSUME NEW i \in 1..Len(merkle') PROVE merkle'[i] = outputs'[mark' + i]
      <4>1. CASE i \in 1..Len(merkle)
        BY <1>1, <1>4, <2>1, <4>1
      <4>2. CASE i = Len(merkle) + 1
        BY <1>1, <1>2, <2>1, <2>2, <4>2, Facts
      <4>. QED
        BY <2>1, <2>2, <4>1, <4>2
    <3>3. mark' + Len(merkle') <= Len(outputs')
      BY <3>1, <1>2, Facts
    <3>. QED
      BY <3>1, <3>2, <3>3 DEF TreeListsOutputs, Lists
  <2>4. IssuedInTree(issued', merkle')
    <3>1. ASSUME NEW e \in issued PROVE e.index < Len(merkle') /\ merkle'[e.index + 1] = e.output
      <4>1. e.index \in Nat /\ e.index < Len(merkle) /\ merkle[e.index + 1] = e.output
        BY <3>1, Facts
      <4>. QED
        BY <2>1, <2>2, <4>1
    <3>2. next_index < Len(merkle') /\ merkle'[next_index + 1] = o
      BY <2>1, <2>2 DEF next_index
    <3>3. \A e \in issued' : e \in issued \/ (e.index = next_index /\ e.output = o)
      BY <1>5
    <3>. QED
      BY <3>1, <3>2, <3>3 DEF IssuedInTree
  <2>5. Len(merkle') <= Capacity
    BY <2>1, <2>2, CapacityAssumption
  <2>. QED
    BY <1>3, <2>3, <2>4, <2>5 DEF IInv, IssuedInTree
<1>6. ASSUME Len(merkle) = Capacity, merkle' = merkle, issued' = issued PROVE IInv'
  <2>1. TreeListsOutputs'
    BY <1>1, <1>2, <1>4, <1>6, CapacityAssumption, Facts DEF TreeListsOutputs, Lists
  <2>. QED
    BY <1>3, <1>6, <2>1 DEF IInv, IssuedInTree
<1>. QED
  BY <1>5, <1>6, EmitCases, Zenon

\* The tree that is saved, and its root, list what becomes settled.
LEMMA AcceptKeepsIInv ==
  ASSUME IInv, TypeInv', finish_accept
  PROVE  IInv'
<1>1. /\ UNCHANGED <<merkle, issued, mark, outputs>>
      /\ settled' = Len(outputs)
      /\ claim' = [root |-> root_hash(merkle), mark |-> mark]
      /\ snapshot' = [taken |-> TRUE, merkle |-> merkle, issued |-> issued, mark |-> mark]
  BY DEF finish_accept
<1>2. TreeListsOutputs' /\ IssuedInTree(issued, merkle)'
  BY <1>1 DEF IInv, TreeListsOutputs, Lists, IssuedInTree
<1>3. SnapshotListsSettled'
  BY <1>1 DEF IInv, SnapshotListsSettled, TreeListsOutputs, Lists, IssuedInTree
<1>4. ClaimCoversSettled'
  <2>1. SUFFICES ASSUME Len(outputs) < mark + Capacity
                 PROVE  root_hash(merkle) = SubSeq(outputs, mark + 1, Len(outputs))
    BY <1>1 DEF ClaimCoversSettled
  <2>2. /\ Len(merkle) \in Nat /\ Len(merkle) < Capacity
        /\ mark + Len(merkle) = Len(outputs)
    BY <2>1, CapacityAssumption, Facts
  <2>3. /\ SubSeq(outputs, mark + 1, Len(outputs)) \in Seq(Output)
        /\ Len(SubSeq(outputs, mark + 1, Len(outputs))) = Len(merkle)
        /\ \A i \in 1..Len(merkle) :
             SubSeq(outputs, mark + 1, Len(outputs))[i] = outputs[mark + i]
    <3>1. \A i \in (mark + 1)..Len(outputs) : outputs[i] \in Output
      BY Facts
    <3>2. Len(merkle) = IF mark + 1 <= Len(outputs) THEN Len(outputs) - (mark + 1) + 1 ELSE 0
      BY <2>2, Facts
    <3>3. \A i \in 1..Len(merkle) : mark + 1 + i - 1 = mark + i
      BY Facts
    <3>. QED
      BY <2>2, <3>1, <3>2, <3>3, SubSeqProperties, Facts
  <2>4. merkle = SubSeq(outputs, mark + 1, Len(outputs))
    BY <2>3, SeqEqual, Facts
  <2>5. Len(merkle) # Capacity
    BY <2>2, CapacityAssumption
  <2>. QED
    BY <2>4, <2>5 DEF root_hash
<1>. QED
  BY <1>1, <1>2, <1>3, <1>4 DEF IInv

\* The machine that is put back lists the outputs that the host keeps.
LEMMA RevertKeepsIInv ==
  ASSUME IInv, TypeInv', host_revert
  PROVE  IInv'
<1>1. /\ snapshot.taken
      /\ outputs' = SubSeq(outputs, 1, settled)
      /\ merkle' = snapshot.merkle /\ issued' = snapshot.issued /\ mark' = snapshot.mark
      /\ UNCHANGED <<settled, claim, snapshot>>
  BY DEF host_revert
<1>2. Len(outputs') = settled /\ \A i \in 1..settled : outputs'[i] = outputs[i]
  <2>1. \A i \in 1..settled : outputs[i] \in Output
    BY Facts
  <2>. QED
    BY <1>1, <2>1, SubSeqProperties, Facts
<1>3. SnapshotListsSettled' /\ ClaimCoversSettled'
  BY <1>1, <1>2, SettledKept
<1>4. Len(merkle') <= Capacity /\ TreeListsOutputs' /\ IssuedInTree(issued, merkle)'
  BY <1>1, <1>2, <1>3 DEF SnapshotListsSettled, TreeListsOutputs, Lists, IssuedInTree
<1>. QED
  BY <1>3, <1>4 DEF IInv

\* The invariant holds at the start.
LEMMA InitIInv == Init => IInv
<1>. SUFFICES ASSUME Init PROVE IInv
  OBVIOUS
<1>1. TypeInv
  BY InitType
<1>2. /\ merkle = <<>> /\ outputs = <<>> /\ issued = {} /\ mark = 0 /\ settled = 0
      /\ ~snapshot.taken /\ claim.root = <<>> /\ claim.mark = 0
  BY DEF Init, NoSnapshot, NoClaim
<1>3. ClaimCoversSettled
  <2>1. SubSeq(outputs, 1, 0) = <<>>
    BY SubSeqEmpty
  <2>. QED
    BY <1>2, <2>1 DEF ClaimCoversSettled
<1>. QED
  BY <1>1, <1>2, <1>3, CapacityAssumption
     DEF IInv, TreeListsOutputs, Lists, IssuedInTree, SnapshotListsSettled

\* No step breaks the invariant.
LEMMA NextIInv == IInv /\ [Next]_vars => IInv'
<1>. SUFFICES ASSUME IInv, [Next]_vars PROVE IInv'
  OBVIOUS
<1>0. TypeInv'
  BY NextType DEF IInv
<1>1. ASSUME NEW o \in Output, NEW rc \in ReturnCode, emit_output(o, rc), ~UNCHANGED vars
      PROVE  IInv'
  BY <1>0, <1>1, EmissionKeepsIInv
<1>2. ASSUME NEW fits \in BOOLEAN, NEW rc \in ReturnCode, NEW reason \in {"tx_exception", "gio"},
             stop(fits, reason, rc)
      PROVE  IInv'
  BY <1>0, <1>2, NothingRelatedChanges DEF stop, guest, host
<1>3. ASSUME NEW rc \in ReturnCode, finish_reject(rc) PROVE IInv'
  BY <1>0, <1>3, NothingRelatedChanges DEF finish_reject, host
<1>4. CASE cmt_rollup_reset_merkle
  <2>1. /\ merkle' = <<>> /\ issued' = {} /\ mark' = Len(outputs)
        /\ UNCHANGED <<outputs, settled, claim, snapshot>>
    BY <1>4 DEF cmt_rollup_reset_merkle, host
  <2>2. SnapshotListsSettled' /\ ClaimCoversSettled'
    BY <2>1, SettledKept
  <2>3. Len(merkle') <= Capacity /\ TreeListsOutputs' /\ IssuedInTree(issued, merkle)'
    BY <2>1, CapacityAssumption DEF IInv, TypeInv, TypeOK, TreeListsOutputs, Lists, IssuedInTree
  <2>. QED
    BY <1>0, <2>2, <2>3 DEF IInv
<1>5. CASE finish_accept
  BY <1>0, <1>5, AcceptKeepsIInv
<1>6. CASE finish_accept_fails
  BY <1>0, <1>6, NothingRelatedChanges DEF finish_accept_fails, host
<1>7. CASE finish_accept_inspect
  BY <1>0, <1>7, NothingRelatedChanges DEF finish_accept_inspect, host
<1>8. CASE host_revert
  BY <1>0, <1>8, RevertKeepsIInv
<1>9. ASSUME NEW req \in Request, finish_returns(req) PROVE IInv'
  BY <1>0, <1>9, NothingRelatedChanges DEF finish_returns
<1>10. ASSUME NEW p \in Payload, gio_returns(p) PROVE IInv'
  BY <1>0, <1>10, NothingRelatedChanges DEF gio_returns, host
<1>11. CASE UNCHANGED vars
  BY <1>0, <1>11, NothingRelatedChanges DEF vars, guest, host
<1>. QED
  BY StepCases, <1>1, <1>2, <1>3, <1>4, <1>5, <1>6, <1>7, <1>8, <1>9, <1>10, <1>11

\* The inductive invariant holds always.
LEMMA Inductive == Spec => []IInv
BY InitIInv, NextIInv, PTL DEF Spec

-----------------------------------------------------------------------------
(* Theorems.                                                               *)

\* The tree in the machine and the outputs at the host never drift apart.
THEOREM TreeCorrect == Spec => []TreeListsOutputs
<1>1. IInv => TreeListsOutputs
  BY DEF IInv
<1>. QED
  BY Inductive, <1>1, PTL

\* An index stays the position of the output it was given out for.
THEOREM IndexCorrect == Spec => []IndexIsPosition
<1>1. ASSUME IInv PROVE IndexIsPosition
  <2>1. SUFFICES ASSUME NEW e \in issued
                 PROVE  /\ mark + e.index < Len(outputs)
                        /\ outputs[mark + e.index + 1] = e.output
    BY DEF IndexIsPosition
  <2>2. e.index \in Nat /\ e.index < Len(merkle) /\ merkle[e.index + 1] = e.output
    BY <1>1 DEF IInv, TypeInv, TypeOK, IssuedInTree
  <2>3. e.index + 1 \in 1..Len(merkle) /\ mark \in Nat
    BY <1>1, <2>2 DEF IInv, TypeInv, TypeOK
  <2>4. /\ merkle[e.index + 1] = outputs[mark + (e.index + 1)]
        /\ mark + Len(merkle) <= Len(outputs)
    BY <1>1, <2>3 DEF IInv, TreeListsOutputs, Lists
  <2>5. Len(merkle) \in Nat /\ Len(outputs) \in Nat
    BY <1>1 DEF IInv, TypeInv, TypeOK
  <2>6. mark + (e.index + 1) = mark + e.index + 1 /\ mark + e.index < Len(outputs)
    BY <2>2, <2>3, <2>4, <2>5
  <2>. QED
    BY <2>2, <2>4, <2>6
<1>. QED
  BY Inductive, <1>1, PTL

\* The root hash the host took commits to the outputs it has settled.
THEOREM ClaimCorrect == Spec => []ClaimCoversSettled
<1>1. IInv => ClaimCoversSettled
  BY DEF IInv
<1>. QED
  BY Inductive, <1>1, PTL

-----------------------------------------------------------------------------
(* Reading the request.                                                    *)

\* What the reading operations return of a whole request is the request.
LEMMA WholeRead ==
  ASSUME rx \in Request, fromhost_data = MessageLength(rx)
  PROVE  read_request(rx.type) = Whole(rx)
<1>1. PayloadLength[rx.payload] \in Nat /\ rx.type \in RequestType
  BY PayloadAssumption DEF Request
<1>2. CASE rx.type = "advance"
  <2>1. MessageLength(rx) = BytesStart(EvmAdvanceWords) + align_forward(PayloadLength[rx.payload])
    BY <1>2 DEF MessageLength, EncodedLength
  <2>2. align_forward(PayloadLength[rx.payload]) >= PayloadLength[rx.payload]
    BY <1>1 DEF align_forward, CMT_ABI_U256_LENGTH
  <2>3. align_forward(PayloadLength[rx.payload]) \in Nat
    BY <1>1 DEF align_forward, CMT_ABI_U256_LENGTH
  <2>4. fromhost_data >= BytesStart(EvmAdvanceWords) + PayloadLength[rx.payload]
    BY <1>1, <2>1, <2>2, <2>3
       DEF BytesStart, EvmAdvanceWords, FunselLength, CMT_ABI_U256_LENGTH
  <2>. QED
    BY <1>2, <2>4 DEF read_request, read_advance_state, get_rx, Whole
<1>3. CASE rx.type = "inspect"
  BY <1>3 DEF read_request, read_inspect_state, get_rx, Whole, MessageLength
<1>. QED
  BY <1>1, <1>2, <1>3 DEF RequestType

\* While the machine runs and nothing has overwritten it, the request is in rx.
RequestInRx ==
  (Running /\ current) =>
    /\ rx = request /\ rx \in Request
    /\ fromhost_data = MessageLength(rx)
    /\ finish.next_request_type = rx.type

\* No step breaks that.
LEMMA NextRequestInRx == TypeInv /\ RequestInRx /\ [Next]_vars => RequestInRx'
<1>. SUFFICES ASSUME TypeInv, RequestInRx, [Next]_vars, Running', current' PROVE RequestInRx'
  BY DEF RequestInRx
<1>1. ASSUME NEW o \in Output, NEW rc \in ReturnCode, emit_output(o, rc) PROVE RequestInRx'
  BY <1>1 DEF RequestInRx, Running, emit_output, vars, guest, host
<1>2. ASSUME NEW fits \in BOOLEAN, NEW rc \in ReturnCode, NEW reason \in {"tx_exception", "gio"},
             stop(fits, reason, rc)
      PROVE  RequestInRx'
  BY <1>2 DEF RequestInRx, Running, stop, guest, host
<1>3. ASSUME NEW rc \in ReturnCode, finish_reject(rc) PROVE RequestInRx'
  <2>1. finish'.next_request_type = finish.next_request_type
    BY <1>3 DEF finish_reject, Call, TypeInv, TypeOK
  <2>. QED
    BY <1>3, <2>1 DEF RequestInRx, Running, finish_reject, host
<1>4. CASE cmt_rollup_reset_merkle
  BY <1>4 DEF RequestInRx, Running, cmt_rollup_reset_merkle, host
<1>5. CASE finish_accept
  BY <1>5 DEF finish_accept, Running
<1>6. CASE finish_accept_fails
  BY <1>6 DEF finish_accept_fails
<1>7. CASE finish_accept_inspect
  BY <1>7 DEF finish_accept_inspect, Running
<1>8. CASE host_revert
  BY <1>8 DEF host_revert, Running
<1>9. ASSUME NEW req \in Request, finish_returns(req) PROVE RequestInRx'
  <2>1. finish'.next_request_type = req.type
    BY <1>9 DEF finish_returns, TypeInv, TypeOK
  <2>. QED
    BY <1>9, <2>1 DEF RequestInRx, finish_returns
<1>10. ASSUME NEW p \in Payload, gio_returns(p) PROVE RequestInRx'
  BY <1>10 DEF gio_returns
<1>11. CASE UNCHANGED vars
  BY <1>11 DEF RequestInRx, Running, vars, guest, host
<1>. QED
  BY StepCases, <1>1, <1>2, <1>3, <1>4, <1>5, <1>6, <1>7, <1>8, <1>9, <1>10, <1>11

\* The request can be read until something replaces it.
THEOREM ReadCorrect == Spec => []CurrentRequestReadable
<1>1. Init => RequestInRx
  BY DEF Init, RequestInRx
<1>2. ASSUME RequestInRx PROVE CurrentRequestReadable
  <2>1. SUFFICES ASSUME Running, current
                 PROVE  read_request(finish.next_request_type) = Whole(request)
    BY DEF CurrentRequestReadable
  <2>. QED
    BY <1>2, <2>1, WholeRead DEF RequestInRx
<1>. QED
  BY InitType, NextType, NextRequestInRx, <1>1, <1>2, PTL DEF Spec

-----------------------------------------------------------------------------
(* Rollup implements Ledger, and settles requests whole.                   *)

\* When the host answers an accepted finish, all outputs are settled; and the
\* tree of the machine, as that of the saved one, starts where the last claim's
\* does, or later.
BaseInv ==
  /\ yielded = "rx_accepted" => settled = Len(outputs)
  /\ claim.mark <= settled
  /\ claim.mark <= mark
  /\ snapshot.taken => snapshot.mark = claim.mark

LedgerInv == IInv /\ BaseInv

-----------------------------------------------------------------------------
(* Lemmas.                                                                 *)

\* The first settled outputs, as a sequence.
LEMMA SettledType ==
  ASSUME IInv
  PROVE  /\ Settled \in Seq(Output)
         /\ Len(Settled) = settled
         /\ \A i \in 1..settled : Settled[i] = outputs[i] /\ outputs[i] \in Output
<1>1. \A i \in 1..settled : outputs[i] \in Output
  BY Facts
<1>. QED
  BY <1>1, SubSeqProperties, Facts DEF Settled

\* The invariant holds at the start.
LEMMA InitLedgerInv == Init => LedgerInv
<1>. SUFFICES ASSUME Init PROVE LedgerInv
  OBVIOUS
<1>1. IInv
  BY InitIInv
<1>2. BaseInv
  BY DEF Init, BaseInv, NoClaim, NoSnapshot
<1>. QED
  BY <1>1, <1>2 DEF LedgerInv

\* Steps after which the host answers nothing, or nothing new.
LEMMA BaseKept ==
  ASSUME LedgerInv, UNCHANGED <<mark, settled, claim, snapshot>>,
         yielded' = "rx_accepted" => yielded = "rx_accepted" /\ outputs' = outputs
  PROVE  BaseInv'
BY DEF LedgerInv, BaseInv

\* No step breaks the invariant.
LEMMA NextLedgerInv == LedgerInv /\ [Next]_vars => LedgerInv'
<1>. SUFFICES ASSUME LedgerInv, [Next]_vars PROVE BaseInv'
  BY NextIInv DEF LedgerInv
<1>0. IInv /\ BaseInv
  BY DEF LedgerInv
<1>1. ASSUME NEW o \in Output, NEW rc \in ReturnCode, emit_output(o, rc) PROVE BaseInv'
  <2>1. /\ UNCHANGED <<mark, settled, claim, snapshot>>
        /\ yielded' = "no"
    BY <1>1 DEF emit_output, Running, vars, guest, host
  <2>. QED
    BY <2>1, BaseKept
<1>2. ASSUME NEW fits \in BOOLEAN, NEW rc \in ReturnCode, NEW reason \in {"tx_exception", "gio"},
             stop(fits, reason, rc)
      PROVE  BaseInv'
  BY <1>2, BaseKept DEF stop, Running, guest, host
<1>3. ASSUME NEW rc \in ReturnCode, finish_reject(rc) PROVE BaseInv'
  BY <1>3, BaseKept DEF finish_reject, Running, host
<1>4. CASE cmt_rollup_reset_merkle
  <2>1. /\ UNCHANGED <<settled, claim, snapshot, outputs>>
        /\ yielded' = "no" /\ mark' = Len(outputs)
    BY <1>4 DEF cmt_rollup_reset_merkle, Running, host
  <2>2. claim.mark <= mark'
    BY <1>0, <2>1, Facts DEF BaseInv
  <2>. QED
    BY <1>0, <2>1, <2>2 DEF BaseInv
<1>5. CASE finish_accept
  <2>1. /\ UNCHANGED <<mark, outputs>> /\ settled' = Len(outputs)
        /\ claim'.mark = mark /\ snapshot'.mark = mark
    BY <1>5 DEF finish_accept
  <2>2. mark <= Len(outputs) /\ mark \in Nat
    BY <1>0, Facts
  <2>. QED
    BY <2>1, <2>2 DEF BaseInv
<1>6. CASE finish_accept_fails
  BY <1>6, BaseKept DEF finish_accept_fails, Running, host
<1>7. CASE finish_accept_inspect
  BY <1>7, BaseKept DEF finish_accept_inspect, host
<1>8. CASE host_revert
  <2>1. /\ snapshot.taken /\ mark' = snapshot.mark
        /\ UNCHANGED <<settled, claim, snapshot>>
        /\ outputs' = Settled
    BY <1>8 DEF host_revert, Settled
  <2>2. Len(outputs') = settled
    BY <1>0, <2>1, SettledType
  <2>3. claim.mark \in Nat
    BY <1>0, Facts
  <2>. QED
    BY <1>0, <2>1, <2>2, <2>3 DEF BaseInv
<1>9. ASSUME NEW req \in Request, finish_returns(req) PROVE BaseInv'
  BY <1>9, BaseKept DEF finish_returns
<1>10. ASSUME NEW p \in Payload, gio_returns(p) PROVE BaseInv'
  BY <1>10, BaseKept DEF gio_returns, host
<1>11. CASE UNCHANGED vars
  BY <1>11, BaseKept DEF vars, guest, host
<1>. QED
  BY StepCases, <1>1, <1>2, <1>3, <1>4, <1>5, <1>6, <1>7, <1>8, <1>9, <1>10, <1>11

\* The invariant holds always.
LEMMA LedgerInductive == Spec => []LedgerInv
BY InitLedgerInv, NextLedgerInv, PTL DEF Spec

\* Every step but an accepted finish leaves the settled outputs and the claim
\* alone, and keeps the first settled outputs.
LEMMA OnlyAcceptSettles ==
  ASSUME LedgerInv, [Next]_vars, ~finish_accept
  PROVE  /\ UNCHANGED <<settled, claim>>
         /\ \A i \in 1..settled : outputs'[i] = outputs[i]
<1>0. IInv
  BY DEF LedgerInv
<1>1. ASSUME NEW o \in Output, NEW rc \in ReturnCode, emit_output(o, rc), ~UNCHANGED vars
      PROVE  /\ UNCHANGED <<settled, claim>>
             /\ \A i \in 1..settled : outputs'[i] = outputs[i]
  <2>1. outputs' = Append(outputs, o) /\ UNCHANGED <<settled, claim>>
    BY <1>1, EmitCases, Zenon
  <2>. QED
    BY <1>0, <2>1, AppendProperties, Facts
<1>2. CASE host_revert
  <2>1. outputs' = Settled /\ UNCHANGED <<settled, claim>>
    BY <1>2 DEF host_revert, Settled
  <2>. QED
    BY <1>0, <2>1, SettledType
<1>3. CASE UNCHANGED vars
  BY <1>3 DEF vars, guest, host
<1>4. ASSUME \/ \E fits \in BOOLEAN, rc \in ReturnCode, reason \in {"tx_exception", "gio"} :
                  stop(fits, reason, rc)
             \/ \E rc \in ReturnCode : finish_reject(rc)
             \/ cmt_rollup_reset_merkle
             \/ finish_accept_fails
             \/ finish_accept_inspect
             \/ \E req \in Request : finish_returns(req)
             \/ \E p \in Payload : gio_returns(p)
      PROVE  UNCHANGED <<settled, claim, outputs>>
  BY <1>4 DEF stop, finish_reject, cmt_rollup_reset_merkle, finish_accept_fails,
              finish_accept_inspect, finish_returns, gio_returns, host
<1>. QED
  BY StepCases, <1>1, <1>2, <1>3, <1>4

-----------------------------------------------------------------------------
(* Theorems.                                                               *)

\* Outputs become settled only when their request is accepted, all at once,
\* and stay; those of a request that was not accepted are gone when the next
\* one comes (rollup.c:346-379, 247-272).
THEOREM SettleCorrect == Spec => RequestsSettleWhole
<1>. DEFINE Whole_step ==
       /\ settled' >= settled
       /\ SubSeq(outputs', 1, settled) = SubSeq(outputs, 1, settled)
       /\ settled' # settled =>
            settled' = Len(outputs) /\ finish'.accept_previous_request
       /\ yielded = "rx_accepted" /\ yielded' = "no" => settled' = Len(outputs')
<1>1. ASSUME LedgerInv, LedgerInv', [Next]_vars PROVE Whole_step
  <2>0. IInv /\ BaseInv /\ BaseInv' /\ settled \in Nat /\ settled <= Len(outputs)
    BY <1>1, Facts DEF LedgerInv
  <2>1. CASE finish_accept
    <3>1. /\ settled' = Len(outputs) /\ outputs' = outputs /\ yielded' = "rx_accepted"
          /\ finish' = [finish EXCEPT !.accept_previous_request = TRUE]
      BY <2>1 DEF finish_accept, Call
    <3>2. finish'.accept_previous_request
      BY <2>0, <3>1 DEF IInv, TypeInv, TypeOK
    <3>. QED
      BY <2>0, <3>1, <3>2
  <2>2. CASE ~finish_accept
    <3>1. settled' = settled /\ \A i \in 1..settled : outputs'[i] = outputs[i]
      BY <1>1, <2>2, OnlyAcceptSettles
    <3>2. SubSeq(outputs, 1, settled) = SubSeq(outputs', 1, settled)
      <4>1. \A i \in 1..settled : outputs[i] \in Output /\ outputs'[i] = outputs[i]
        BY <2>0, <3>1, SettledType
      <4>. QED
        BY <2>0, <4>1, SubSeqAgree
    <3>3. ASSUME yielded = "rx_accepted", yielded' = "no" PROVE outputs' = outputs
      <4>1. CASE UNCHANGED vars
        BY <4>1 DEF vars, host
      <4>2. ASSUME NEW req \in Request, finish_returns(req) PROVE outputs' = outputs
        BY <4>2 DEF finish_returns
      <4>3. ASSUME NEW p \in Payload, gio_returns(p) PROVE outputs' = outputs
        BY <4>3 DEF gio_returns, host
      <4>4. ~host_revert
        BY <3>3 DEF host_revert
      <4>5. ASSUME NEW o \in Output, NEW rc \in ReturnCode PROVE ~emit_output(o, rc)
        BY <3>3 DEF emit_output, Running
      <4>6. ASSUME NEW fits \in BOOLEAN, NEW rc \in ReturnCode, NEW reason \in {"tx_exception", "gio"}
            PROVE  ~stop(fits, reason, rc) /\ ~finish_reject(rc)
        BY <3>3 DEF stop, finish_reject, Running
      <4>7. /\ ~cmt_rollup_reset_merkle /\ ~finish_accept_fails /\ ~finish_accept_inspect
        BY <3>3 DEF cmt_rollup_reset_merkle, finish_accept_fails, finish_accept_inspect, Running
      <4>. QED
        BY <1>1, <2>2, StepCases, <4>1, <4>2, <4>3, <4>4, <4>5, <4>6, <4>7
    <3>. QED
      BY <2>0, <3>1, <3>2, <3>3 DEF BaseInv
  <2>. QED
    BY <2>1, <2>2
<1>2. ASSUME LedgerInv, LedgerInv', [Next]_vars PROVE [Whole_step]_vars
  BY <1>1, <1>2
<1>. QED
  BY <1>2, LedgerInductive, PTL DEF Spec, RequestsSettleWhole

\* A claim commits to the ledger as it does to the outputs.
ClaimCommitted ==
  /\ Settled \in Seq(Output) /\ Len(Settled) = settled
  /\ \A i \in 1..settled : Settled[i] = outputs[i]
  /\ claim.mark \in Nat /\ claim.mark <= settled
  /\ Abstract!Commits(claim.root, Settled, claim.mark)

\* It does so in every state.
LEMMA ClaimCommits == LedgerInv => ClaimCommitted
<1>. SUFFICES ASSUME LedgerInv PROVE ClaimCommitted
  OBVIOUS
<1>1. IInv /\ BaseInv
  BY DEF LedgerInv
<1>2. /\ Settled \in Seq(Output) /\ Len(Settled) = settled
      /\ claim.mark \in Nat /\ settled \in Nat /\ claim.mark <= settled
  BY <1>1, SettledType, Facts DEF BaseInv
<1>3. \A i \in (claim.mark + 1)..settled :
        Settled[i] \in Output /\ outputs[i] = Settled[i]
  BY <1>1, <1>2, SettledType
<1>4. SubSeq(Settled, claim.mark + 1, settled) = SubSeq(outputs, claim.mark + 1, settled)
  <2>1. claim.mark + 1 \in Int /\ settled \in Int
    BY <1>2
  <2>. QED
    BY <1>3, <2>1, SubSeqAgree
<1>. QED
  BY <1>1, <1>2, <1>3, <1>4, SettledType
     DEF ClaimCommitted, IInv, ClaimCoversSettled, Abstract!Commits

\* What the application and its host do together is a ledger that grows by whole
\* requests, with a root that commits to it (rollup.c:346-379).
THEOREM LedgerImplemented == Spec => ImplementsLedger
<1>1. Init => Abstract!Init
  <2>1. SUFFICES ASSUME Init PROVE Abstract!Init
    OBVIOUS
  <2>2. SubSeq(outputs, 1, 0) = <<>>
    BY SubSeqEmpty
  <2>. QED
    BY <2>1, <2>2 DEF Init, Settled, NoClaim, Abstract!Init
<1>2. ASSUME LedgerInv, LedgerInv', [Next]_vars
      PROVE  [Abstract!Accept]_<<Settled, claim.root, claim.mark>>
  <2>1. CASE finish_accept
    <3>1. /\ settled' = Len(outputs) /\ outputs' = outputs /\ claim'.mark = mark
      BY <2>1 DEF finish_accept
    <3>2. ClaimCommitted'
      BY <1>2, ClaimCommits, PTL
    <3>3. /\ IInv /\ IInv' /\ claim.mark <= mark /\ claim.mark \in Nat /\ mark \in Nat
          /\ settled \in Nat /\ settled <= Len(outputs)
      BY <1>2, Facts DEF LedgerInv, BaseInv
    <3>4. SubSeq(Settled', 1, Len(Settled)) = Settled
      <4>1. Len(Settled) = settled /\ \A i \in 1..settled : Settled[i] = outputs[i] /\ outputs[i] \in Output
        BY <3>3, SettledType
      <4>2. \A i \in 1..settled' : Settled'[i] = outputs'[i]
        BY <3>2 DEF ClaimCommitted
      <4>3. \A i \in 1..settled : outputs[i] \in Output /\ Settled'[i] = outputs[i]
        BY <3>1, <3>3, <4>1, <4>2
      <4>4. SubSeq(outputs, 1, settled) = SubSeq(Settled', 1, settled)
        BY <3>3, <4>3, SubSeqAgree
      <4>. QED
        BY <4>1, <4>4 DEF Settled
    <3>5. claim'.mark \in claim.mark..Len(Settled')
      BY <3>1, <3>2, <3>3 DEF ClaimCommitted
    <3>. QED
      BY <3>2, <3>4, <3>5 DEF ClaimCommitted, Abstract!Accept
  <2>2. CASE ~finish_accept
    <3>1. /\ UNCHANGED <<settled, claim>>
          /\ \A i \in 1..settled : outputs'[i] = outputs[i]
      BY <1>2, <2>2, OnlyAcceptSettles
    <3>2. IInv /\ settled \in Nat
      BY <1>2, Facts DEF LedgerInv
    <3>3. \A i \in 1..settled : outputs[i] \in Output /\ outputs'[i] = outputs[i]
      BY <3>1, <3>2, SettledType
    <3>4. SubSeq(outputs, 1, settled) = SubSeq(outputs', 1, settled)
      BY <3>2, <3>3, SubSeqAgree
    <3>. QED
      BY <3>1, <3>4 DEF Settled
  <2>. QED
    BY <2>1, <2>2
<1>. QED
  BY <1>1, <1>2, LedgerInductive, PTL DEF Spec, ImplementsLedger, Abstract!Spec
=============================================================================

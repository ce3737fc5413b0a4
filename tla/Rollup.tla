------------------------------- MODULE Rollup -------------------------------
(***************************************************************************)
(* One user of libcmt's rollup API (sys-utils/libcmt/src/rollup.c over     *)
(* io.c) inside a Cartesi machine, and the host that runs the machine.     *)
(*                                                                         *)
(* Every request to the host is a yield.  An automatic yield resumes by    *)
(* itself.  A manual yield stops the whole machine until the host has      *)
(* written the rx buffer and resumes it, or has put back the machine it    *)
(* saved when the last request was accepted (io.h: "Reject and revert").   *)
(* The host is not in this repository: it is modelled from what the code   *)
(* here asks of it.                                                        *)
(***************************************************************************)
EXTENDS Integers, Sequences

CONSTANTS
  Payload,           \* payloads of requests, outputs, reports and replies
  PayloadLength,     \* their lengths in bytes
  TxLength,          \* size of the tx buffer in bytes
  Capacity,          \* leaves a Merkle tree holds, 2^63 in the code
  MaxOutputs         \* bound on the outputs the host may hold

ASSUME PayloadAssumption == Payload # {} /\ PayloadLength \in [Payload -> Nat]
ASSUME TxAssumption == TxLength \in Nat
ASSUME CapacityAssumption == Capacity \in Nat \ {0}
ASSUME MaxOutputsAssumption == MaxOutputs \in Nat

CMT_ABI_U256_LENGTH == 32
FunselLength == 4

RequestType == {"advance", "inspect"}
OutputKind == {"voucher", "delegate_call_voucher", "notice"}
Request == [type : RequestType, payload : Payload]
Output == [kind : OutputKind, payload : Payload]
Message == [type : RequestType \cup {"gio"}, payload : Payload]
NoMessage == [type |-> "none"]

-----------------------------------------------------------------------------
(* Encoding.  Only lengths matter here.                                    *)

align_forward(n) == ((n + CMT_ABI_U256_LENGTH - 1) \div CMT_ABI_U256_LENGTH) * CMT_ABI_U256_LENGTH

\* A selector, the words of the head, then the length and the padded bytes.
BytesStart(words) == FunselLength + (words + 1) * CMT_ABI_U256_LENGTH
EncodedLength(words, p) == BytesStart(words) + align_forward(PayloadLength[p])

OutputWords == [voucher |-> 3, delegate_call_voucher |-> 2, notice |-> 1]
EvmAdvanceWords == 8

\* cmt_abi_put_* succeed one after the other iff the whole output fits.
OutputFits(o) == EncodedLength(OutputWords[o.kind], o.payload) <= TxLength
RawFits(p) == PayloadLength[p] <= TxLength

MessageLength(m) ==
  IF m.type = "advance" THEN EncodedLength(EvmAdvanceWords, m.payload)
  ELSE PayloadLength[m.payload]

\* The hash of a tree's leaves stands for the leaves; Merkle.tla shows that
\* the code computes it, and that a full tree gets the root of an empty one.
root_hash(s) == IF Len(s) = Capacity THEN <<>> ELSE s

-----------------------------------------------------------------------------
VARIABLES
  (* The machine.                                                          *)
  fromhost_data,     \* cmt_rollup_t.fromhost_data
  merkle,            \* cmt_rollup_t.merkle, as the list of its leaves
  finish,            \* the cmt_rollup_finish_t passed in and out of finish
  issued,            \* history: the indices given out since the last reset
  mark,              \* history: outputs the host held at the last reset
  current,           \* history: nothing has overwritten the request in rx
  rx,                \* the rx buffer
  yielded,           \* "no", or the manual yield the machine is stopped in
  (* The host.                                                             *)
  request,           \* the request the machine is processing
  outputs,           \* the outputs it has received,
  settled,           \* how many of them belong to accepted requests,
  claim,             \* and the last root hash it accepted
  snapshot           \* the machine when the last request was accepted

guest == <<fromhost_data, merkle, finish, issued, mark, current>>
host == <<request, outputs, settled, claim, snapshot>>
vars == <<guest, rx, yielded, host>>

NoFinish == [accept_previous_request |-> TRUE, next_request_type |-> "none",
             next_request_payload_length |-> 0]
NoSnapshot == [taken |-> FALSE]
NoClaim == [root |-> <<>>, mark |-> 0]

\* cmt_rollup_init, and nothing done since.
Init ==
  /\ fromhost_data = 0
  /\ merkle = <<>>
  /\ finish = NoFinish
  /\ issued = {}
  /\ mark = 0
  /\ current = FALSE
  /\ rx = NoMessage
  /\ yielded = "no"
  /\ request = NoMessage
  /\ outputs = <<>>
  /\ settled = 0
  /\ claim = NoClaim
  /\ snapshot = NoSnapshot

Running == yielded = "no"

-----------------------------------------------------------------------------
(* The calls.  rc is what one returns: EINVAL is left out, ENOBUFS stands  *)
(* for a lack of room, EIO for any error of the driver.                    *)

ReturnCode == {"OK", "ENOBUFS", "EIO", "stopped"}

\* Writing the tx buffer and asking the driver for the yield: what can go wrong
\* before the host knows of anything.
refused(fits, rc) == rc = IF fits THEN "EIO" ELSE "ENOBUFS"

(* Automatic yields: outputs, reports, progress.                           *)

\* Mutant of next_index: the count of leaves is read after the push.
next_index_late == Len(merkle) + 1

\* The index of an output is the number of leaves before it.
next_index == Len(merkle)

\* Mutant of emit_output: the leaf is pushed before the host has the output.
emit_output_leaf_first(o, rc) ==
  /\ Running /\ OutputFits(o) /\ Len(merkle) < Capacity
  /\ merkle' = Append(merkle, o)
  /\ \/ rc = "EIO" /\ UNCHANGED <<outputs, issued>>
     \/ /\ rc = "OK" /\ Len(outputs) < MaxOutputs
        /\ outputs' = Append(outputs, o)
        /\ issued' = issued \cup {[index |-> next_index, output |-> o]}
  /\ UNCHANGED <<fromhost_data, finish, mark, current, rx, yielded,
                 request, settled, claim, snapshot>>

\* The host has the output before the tree gets its leaf: a full tree makes
\* the call fail with the output delivered.
emit_output(o, rc) ==
  /\ Running
  /\ \/ refused(OutputFits(o), rc) /\ UNCHANGED vars
     \/ /\ OutputFits(o) /\ Len(outputs) < MaxOutputs
        /\ outputs' = Append(outputs, o)
        /\ rc = IF Len(merkle) = Capacity THEN "ENOBUFS" ELSE "OK"
        /\ IF rc = "OK"
             THEN /\ merkle' = Append(merkle, o)
                  /\ issued' = issued \cup {[index |-> next_index, output |-> o]}
             ELSE UNCHANGED <<merkle, issued>>
        /\ UNCHANGED <<fromhost_data, finish, mark, current, rx, yielded,
                       request, settled, claim, snapshot>>

cmt_rollup_emit_voucher(p, rc) == emit_output([kind |-> "voucher", payload |-> p], rc)

\* Mutant of cmt_rollup_emit_delegate_call_voucher: the new kind of output is
\* not pushed to the tree.
emit_delegate_call_voucher_unlisted(p, rc) ==
  LET o == [kind |-> "delegate_call_voucher", payload |-> p]
  IN  /\ Running /\ rc = "OK" /\ OutputFits(o) /\ Len(outputs) < MaxOutputs
      /\ outputs' = Append(outputs, o)
      /\ UNCHANGED <<guest, rx, yielded, request, settled, claim, snapshot>>

cmt_rollup_emit_delegate_call_voucher(p, rc) ==
  emit_output([kind |-> "delegate_call_voucher", payload |-> p], rc)
cmt_rollup_emit_notice(p, rc) == emit_output([kind |-> "notice", payload |-> p], rc)

\* A report, or the progress, reaches the host and leaves no trace here.
cmt_rollup_emit_report(p, rc) ==
  /\ Running
  /\ refused(RawFits(p), rc) \/ (RawFits(p) /\ rc = "OK")
  /\ UNCHANGED vars
cmt_rollup_progress(rc) == Running /\ rc \in {"OK", "EIO"} /\ UNCHANGED vars

cmt_rollup_reset_merkle ==
  /\ Running
  /\ merkle' = <<>>
  /\ mark' = Len(outputs)
  /\ issued' = {}
  /\ UNCHANGED <<fromhost_data, finish, current, rx, yielded, host>>

-----------------------------------------------------------------------------
(* Manual yields: the machine stops, or the driver refuses the request.    *)

Call(accept) == finish' = [finish EXCEPT !.accept_previous_request = accept]

\* fromhost_data holds the length of the root hash from here until accepted()
\* writes the length of the next request into it; an error leaves it there.
finish_accept_fails ==
  /\ Running
  /\ Call(TRUE)
  /\ fromhost_data' = CMT_ABI_U256_LENGTH
  /\ current' = FALSE
  /\ UNCHANGED <<merkle, issued, mark, rx, yielded, host>>

\* Mutant of finish_accept: the tree is reset before its root is taken.
finish_accept_reset ==
  /\ Running
  /\ Call(TRUE)
  /\ fromhost_data' = CMT_ABI_U256_LENGTH
  /\ yielded' = "rx_accepted"
  /\ merkle' = <<>>
  /\ claim' = [root |-> <<>>, mark |-> mark]
  /\ settled' = Len(outputs)
  /\ snapshot' = [taken |-> TRUE, merkle |-> <<>>, issued |-> issued, mark |-> mark]
  /\ UNCHANGED <<issued, mark, current, rx, request, outputs>>

\* The host takes the root hash, settles the outputs and saves the machine;
\* what finish_returns will overwrite need not be saved.
finish_accept ==
  /\ Running
  /\ Call(TRUE)
  /\ fromhost_data' = CMT_ABI_U256_LENGTH
  /\ yielded' = "rx_accepted"
  /\ claim' = [root |-> root_hash(merkle), mark |-> mark]
  /\ settled' = Len(outputs)
  /\ snapshot' = [taken |-> TRUE, merkle |-> merkle, issued |-> issued, mark |-> mark]
  /\ UNCHANGED <<merkle, issued, mark, current, rx, request, outputs>>

\* The inspection succeeded, but the host drops what it did to the machine.
finish_accept_inspect ==
  /\ Running /\ request.type = "inspect"
  /\ Call(TRUE)
  /\ fromhost_data' = CMT_ABI_U256_LENGTH
  /\ yielded' = "inspect_dropped"
  /\ UNCHANGED <<merkle, issued, mark, current, rx, host>>

\* Mutant of finish_reject: the request is announced as accepted.
finish_reject_as_accept(rc) ==
  /\ Running /\ rc = "stopped"
  /\ Call(FALSE)
  /\ yielded' = "rx_accepted"
  /\ settled' = Len(outputs)
  /\ snapshot' = [taken |-> TRUE, merkle |-> merkle, issued |-> issued, mark |-> mark]
  /\ UNCHANGED <<fromhost_data, merkle, issued, mark, current, rx, request, outputs, claim>>

finish_reject(rc) ==
  /\ Running
  /\ Call(FALSE)
  /\ \/ rc = "EIO" /\ UNCHANGED yielded
     \/ rc = "stopped" /\ yielded' = "rx_rejected"
  /\ UNCHANGED <<fromhost_data, merkle, issued, mark, current, rx, host>>

\* A call that stops the machine has not returned yet.
stop(fits, reason, rc) ==
  /\ Running
  /\ \/ refused(fits, rc) /\ UNCHANGED yielded
     \/ fits /\ rc = "stopped" /\ yielded' = reason
  /\ UNCHANGED <<guest, rx, host>>

cmt_rollup_emit_exception(p, rc) == stop(RawFits(p), "tx_exception", rc)

\* Mutant of cmt_gio_request: fromhost_data is written before the return code
\* of the yield is looked at.
gio_request_unchecked(p, rc) ==
  /\ Running
  /\ \/ refused(RawFits(p), rc) /\ UNCHANGED yielded
     \/ RawFits(p) /\ rc = "stopped" /\ yielded' = "gio"
  /\ fromhost_data' = 0
  /\ UNCHANGED <<merkle, finish, issued, mark, current, rx, host>>

cmt_gio_request(p, rc) == stop(RawFits(p), "gio", rc)

-----------------------------------------------------------------------------
(* The host resumes the machine.                                           *)

Discarded == {"rx_rejected", "tx_exception", "inspect_dropped"}

\* It drops the outputs and puts the saved machine back, stopped where it was
\* saved: in the yield of finish_accept.
host_revert ==
  /\ yielded \in Discarded /\ snapshot.taken
  /\ yielded' = "rx_accepted"
  /\ outputs' = SubSeq(outputs, 1, settled)
  /\ Call(TRUE)
  /\ fromhost_data' = CMT_ABI_U256_LENGTH
  /\ merkle' = snapshot.merkle
  /\ issued' = snapshot.issued
  /\ mark' = snapshot.mark
  /\ UNCHANGED <<current, rx, request, settled, claim, snapshot>>

\* Before the first accepted finish there is no machine to put back.
host_gives_up ==
  yielded \in Discarded /\ ~snapshot.taken /\ UNCHANGED vars

\* The next request comes, and cmt_rollup_finish returns with it.
finish_returns(req) ==
  /\ yielded = "rx_accepted"
  /\ yielded' = "no"
  /\ request' = req
  /\ rx' = req
  /\ fromhost_data' = MessageLength(req)
  /\ finish' = [finish EXCEPT !.next_request_type = req.type,
                              !.next_request_payload_length = MessageLength(req)]
  /\ current' = TRUE
  /\ UNCHANGED <<merkle, issued, mark, outputs, settled, claim, snapshot>>

\* Mutant of gio_returns: the reply is taken for the next request.
gio_returns_as_request(p) ==
  /\ yielded = "gio"
  /\ yielded' = "no"
  /\ rx' = [type |-> "gio", payload |-> p]
  /\ fromhost_data' = PayloadLength[p]
  /\ finish' = [finish EXCEPT !.next_request_type = "gio"]
  /\ current' = FALSE
  /\ UNCHANGED <<merkle, issued, mark, host>>

\* The reply comes over the request in rx, and cmt_gio_request returns.
gio_returns(p) ==
  /\ yielded = "gio"
  /\ yielded' = "no"
  /\ rx' = [type |-> "gio", payload |-> p]
  /\ fromhost_data' = PayloadLength[p]
  /\ current' = FALSE
  /\ UNCHANGED <<merkle, finish, issued, mark, host>>

-----------------------------------------------------------------------------
(* Reading the request back: what the two read operations return.          *)

\* The first fromhost_data bytes of the rx buffer.
get_rx == [of |-> rx, length |-> fromhost_data]

\* The selector, and room for the bytes; their padding is not looked at.
read_advance_state ==
  IF rx.type = "advance" /\ get_rx.length >= BytesStart(EvmAdvanceWords) + PayloadLength[rx.payload]
    THEN [rc |-> "OK", payload |-> [of |-> rx, length |-> PayloadLength[rx.payload]]]
    ELSE [rc |-> "ENOBUFS"]

read_inspect_state == [rc |-> "OK", payload |-> get_rx]

Whole(m) == [rc |-> "OK", payload |-> [of |-> m, length |-> PayloadLength[m.payload]]]

\* The callers choose the operation by the type that finish returned.
read_request(type) ==
  IF type = "advance" THEN read_advance_state ELSE read_inspect_state

Next ==
  \/ \E rc \in ReturnCode :
       \/ \E p \in Payload :
            \/ cmt_rollup_emit_voucher(p, rc)
            \/ cmt_rollup_emit_delegate_call_voucher(p, rc)
            \/ cmt_rollup_emit_notice(p, rc)
            \/ cmt_rollup_emit_report(p, rc)
            \/ cmt_rollup_emit_exception(p, rc)
            \/ cmt_gio_request(p, rc)
       \/ cmt_rollup_progress(rc)
       \/ finish_reject(rc)
  \/ cmt_rollup_reset_merkle
  \/ finish_accept
  \/ finish_accept_fails
  \/ finish_accept_inspect
  \/ host_revert
  \/ host_gives_up
  \/ \E req \in Request : finish_returns(req)
  \/ \E p \in Payload : gio_returns(p)

Spec == Init /\ [][Next]_vars

-----------------------------------------------------------------------------
(* Correctness.                                                            *)

Image == [taken : {TRUE}, merkle : Seq(Output), mark : Nat,
          issued : SUBSET [index : Nat, output : Output]]

TypeOK ==
  /\ fromhost_data \in Nat
  /\ merkle \in Seq(Output)
  /\ finish \in [accept_previous_request : BOOLEAN,
                 next_request_type : RequestType \cup {"none"},
                 next_request_payload_length : Nat]
  /\ issued \in SUBSET [index : Nat, output : Output]
  /\ mark \in Nat
  /\ current \in BOOLEAN
  /\ rx \in Message \cup {NoMessage}
  /\ yielded \in {"no", "rx_accepted", "gio"} \cup Discarded
  /\ request \in Request \cup {NoMessage}
  /\ outputs \in Seq(Output)
  /\ settled \in Nat
  /\ claim \in [root : Seq(Output), mark : Nat]
  /\ snapshot \in Image \cup {NoSnapshot}

\* A tree lists, in the order in which the host received them, the outputs
\* from position "from" on: all of the first n, unless it is full.
Lists(tree, from, n) ==
  /\ from + Len(tree) <= n
  /\ \A i \in 1..Len(tree) : tree[i] = outputs[from + i]
  /\ Len(tree) < Capacity => from + Len(tree) = n

\* The tree in the machine and the outputs at the host never drift apart:
\* whatever is emitted, refused, reset, accepted, rejected and reverted, an
\* output is a leaf iff the host has it (rollup.c emit_*, finish).
TreeListsOutputs == Lists(merkle, mark, Len(outputs))

\* The index a successful emission returned is the position of that very
\* output among those the host holds, for as long as the program can
\* remember it, also after rejections (rollup.c:109-117).
IndexIsPosition ==
  \A e \in issued : /\ mark + e.index < Len(outputs)
                    /\ outputs[mark + e.index + 1] = e.output

\* The root hash the host took last commits to exactly the outputs it has
\* settled since the tree was last reset; the one exception is a full tree
\* (rollup.c:370, merkle.c:179).
ClaimCoversSettled ==
  settled < claim.mark + Capacity =>
    claim.root = SubSeq(outputs, claim.mark + 1, settled)

\* Until a generic request or a failed finish, reading the request returns
\* what the host sent last, whole, by the operation that finish.type selects:
\* failed calls in between do not disturb it (rollup.c:274-330).
CurrentRequestReadable ==
  (Running /\ current) =>
    read_request(finish.next_request_type) = Whole(request)

\* Outputs become settled only by a finish whose caller accepted, all at once;
\* settled ones stay for ever; and those of a request whose caller rejected or
\* raised an exception are gone before another request is delivered
\* (rollup.c:346-379, 247-272).
RequestsSettleWhole ==
  [][ /\ settled' >= settled
      /\ SubSeq(outputs', 1, settled) = SubSeq(outputs, 1, settled)
      /\ settled' # settled =>
           settled' = Len(outputs) /\ finish'.accept_previous_request
      /\ yielded = "rx_accepted" /\ yielded' = "no" => settled' = Len(outputs')
    ]_vars

Settled == SubSeq(outputs, 1, settled)
Abstract == INSTANCE Ledger WITH ledger <- Settled, root <- claim.root, base <- claim.mark
ImplementsLedger == Abstract!Spec
=============================================================================

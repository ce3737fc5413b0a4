-------------------------------- MODULE IoMock --------------------------------
(***************************************************************************)
(* The mock driver (sys-utils/libcmt/src/io-mock.c) under a program that   *)
(* uses rollup.c: inputs come from a list of files, what is yielded goes   *)
(* to files named after the input, and no yield stops anything.            *)
(*                                                                         *)
(* The calls of rollup.c are those of Rollup.tla, which also says what the *)
(* machine's driver does; a call of the mock is one or two of its steps.   *)
(* The program asks in the order of its list: a finish when a request is   *)
(* next, a generic request when a reply is.                                *)
(***************************************************************************)
EXTENDS Rollup

CONSTANTS
  InputNames,        \* names of input files
  InputLists,        \* CMT_INPUTS: sequences of [name, message], names distinct
  LoadErrors,        \* how reading an input may fail
  Emits, Texts,      \* the outputs, and the contents of all else, it yields
  MaxSeq             \* bound on each counter, in its namespace

ASSUME InputsAssumption ==
  /\ "none" \notin InputNames
  /\ InputLists \subseteq Seq([name : InputNames, message : Message])
  /\ \A list \in InputLists : \A i, j \in DOMAIN list : list[i].name = list[j].name => i = j
ASSUME YieldsAssumption == Emits \subseteq Output /\ Texts \subseteq Payload
ASSUME LoadErrorsAssumption == LoadErrors \subseteq {"missing", "too_long", "unnamed"}

VARIABLES
  open_count,
  device,            \* history: "never" opened, "open" or "closed"
  inputs_left, input_filename,
  input_seq,         \* 0, or 1 for any number of accepted finishes
  seq,               \* output_seq, report_seq, exception_seq and gio_seq
  files,             \* the files written, by name
  aligned,           \* history: see NumberIsIndex
  told               \* history: the last call of the API, and what it returned

driver == <<open_count, device, inputs_left, input_filename, input_seq, seq, files>>
varsMock == <<vars, driver, aligned, told>>

Namespace == {"output", "report", "exception", "gio"}
RootHash == "outputs_root_hash"
Name(ns, n) == [input |-> input_filename, ns |-> ns, n |-> n]

\* "stopped" is what a call has returned that has not returned yet.
Returns(call, rc) == told' = [call |-> call, rc |-> rc]

InitMock ==
  /\ Init
  /\ open_count = 0
  /\ device = "never"
  /\ inputs_left = <<>>
  /\ input_filename = "none"
  /\ input_seq = 0
  /\ seq = [ns \in Namespace |-> 0]
  /\ files = <<>>
  /\ aligned = TRUE
  /\ told = [call |-> "none", rc |-> "OK"]

Open == device = "open"

-----------------------------------------------------------------------------
(* Opening and closing.  One session: a second one would start over.       *)

cmt_io_init ==
  /\ open_count = 0 /\ device = "never"
  /\ open_count' = 1
  /\ device' = "open"
  /\ inputs_left' \in InputLists
  /\ UNCHANGED <<vars, input_filename, input_seq, seq, files, aligned, told>>

\* -ENOMEM: the buffers are freed and the count stays.
cmt_io_init_fails ==
  /\ open_count = 0 /\ device = "never"
  /\ open_count' = 1
  /\ UNCHANGED <<vars, device, inputs_left, input_filename, input_seq, seq, files, aligned,
                 told>>

\* -EBUSY
cmt_io_init_busy == open_count > 0 /\ UNCHANGED varsMock

cmt_io_fini ==
  /\ Open /\ Running
  /\ open_count' = open_count - 1
  /\ device' = "closed"
  /\ UNCHANGED <<vars, inputs_left, input_filename, input_seq, seq, files, aligned, told>>

cmt_io_fini_closed == open_count = 0 /\ UNCHANGED varsMock

-----------------------------------------------------------------------------
(* Inputs and outputs.                                                     *)

Next_input == Head(inputs_left).message

\* Whether the next input can be read is found out when it is read.
LoadResults == IF inputs_left = <<>> THEN {"EINVAL"} ELSE {"OK"} \cup LoadErrors

\* The results with which the contents of the file are in rx: it was read, or
\* was too long, or was read and has no extension in its name.
Fills == {"OK", "too_long", "unnamed"}
rx_after(r) == IF r \in Fills THEN Next_input ELSE rx

\* The list advances, whether or not the file can be read; and a name without
\* an extension is taken before it is found to have none.
take_next_input(r) ==
  /\ r \in LoadResults
  /\ inputs_left' = IF r = "EINVAL" THEN <<>> ELSE Tail(inputs_left)
  /\ input_filename' = IF r \in {"OK", "unnamed"} THEN Head(inputs_left).name
                                                 ELSE input_filename

FromZero == [ns \in Namespace |-> IF ns = "gio" THEN seq[ns] ELSE 0]

\* Mutant of load_next_input: the counters start over though nothing is loaded.
load_next_input_resets_first(r) == take_next_input(r) /\ seq' = FromZero

\* Mutant of load_next_input: the count of outputs goes on over the inputs.
load_next_input_counts_on(r) == take_next_input(r) /\ UNCHANGED seq

load_next_input(r) == take_next_input(r) /\ seq' = IF r = "OK" THEN FromZero ELSE seq

\* Mutant of rc_of_load: what load_next_input returns is not looked at.
rc_of_load_ignored(r) == "OK"

rc_of_load(r) == IF r = "OK" THEN "OK" ELSE "EIO"

store_output(name, content, stored) ==
  files' = IF stored THEN [f \in DOMAIN files \cup {name} |-> IF f = name THEN content ELSE files[f]]
                     ELSE files

\* The number is used up, stored or not.
store_next_output(ns, content, stored) ==
  /\ store_output(Name(ns, seq[ns]), content, stored)
  /\ seq' = [seq EXCEPT ![ns] = @ + 1]

-----------------------------------------------------------------------------
(* Automatic yields and exceptions.                                        *)

mock_tx_output(o) ==
  /\ Open
  /\ \E rc \in ReturnCode :
       /\ emit_output(o, rc)
       /\ Returns("output", rc)
       /\ IF rc = "ENOBUFS" /\ outputs' = outputs
            THEN UNCHANGED <<seq, files, aligned>>
            ELSE /\ store_next_output("output", o, rc # "EIO")
                 /\ aligned' = (aligned /\ rc # "EIO")
  /\ seq["output"] < MaxSeq["output"]
  /\ UNCHANGED <<open_count, device, inputs_left, input_filename, input_seq>>

\* Reports and exceptions reach their files; the program goes on after both.
mock_tx_raw(ns, payload) ==
  /\ Open /\ Running
  /\ \/ ~RawFits(payload) /\ Returns(ns, "ENOBUFS") /\ UNCHANGED <<seq, files>>
     \/ /\ RawFits(payload) /\ seq[ns] < MaxSeq[ns]
        /\ \E stored \in BOOLEAN : /\ store_next_output(ns, payload, stored)
                                  /\ Returns(ns, IF stored THEN "OK" ELSE "EIO")
  /\ UNCHANGED <<vars, open_count, device, inputs_left, input_filename, input_seq, aligned>>

mock_progress ==
  Open /\ cmt_rollup_progress("OK") /\ Returns("progress", "OK") /\ UNCHANGED <<driver, aligned>>

reset_merkle ==
  /\ Open
  /\ cmt_rollup_reset_merkle
  /\ aligned' = (seq["output"] = 0)
  /\ UNCHANGED <<driver, told>>

-----------------------------------------------------------------------------
(* Manual yields.                                                          *)

AsksInOrder(types) == inputs_left # <<>> => Next_input.type \in types

\* The root hash goes to a file, but for the first finish; then the next
\* input is loaded, or the finish fails.
mock_rx_accepted ==
  /\ Open /\ AsksInOrder(RequestType)
  /\ input_seq' = 1
  /\ \/ /\ input_seq = 1                                    \* store_output fails
        /\ finish_accept_fails /\ Returns("finish", "EIO")
        /\ UNCHANGED <<inputs_left, input_filename, seq, files, aligned>>
     \/ /\ store_output(Name(RootHash, 0), root_hash(merkle), input_seq = 1)
        /\ \/ "OK" \in LoadResults /\ finish_accept /\ Returns("finish", "stopped")
              /\ UNCHANGED <<inputs_left, input_filename, seq, aligned>>
           \/ /\ Running
              /\ \E r \in LoadResults \ {"OK"} :
                   /\ load_next_input(r) /\ rx' = rx_after(r)
                   /\ Returns("finish", rc_of_load(r))
                   /\ aligned' = (aligned /\ r # "unnamed")
              /\ Call(TRUE)
              /\ fromhost_data' = CMT_ABI_U256_LENGTH
              /\ current' = FALSE
              /\ UNCHANGED <<merkle, issued, mark, yielded, host>>
  /\ UNCHANGED <<open_count, device>>

mock_rx_accepted_returns ==
  /\ Open
  /\ yielded = "rx_accepted"
  /\ load_next_input("OK")
  /\ finish_returns(Next_input) /\ Returns("finish", rc_of_load("OK"))
  /\ aligned' = (merkle = <<>>)
  /\ UNCHANGED <<open_count, device, input_seq, files>>

\* "no revert for the mock implementation": the next input is loaded, and
\* cmt_rollup_finish returns what the yield returned, 0, and nothing else.
mock_rx_rejected ==
  /\ Open /\ Running /\ AsksInOrder(RequestType)
  /\ Call(FALSE)
  /\ \E r \in LoadResults :
       /\ load_next_input(r) /\ rx' = rx_after(r)
       /\ Returns("finish", rc_of_load(r))
       /\ request' = IF r = "OK" THEN Next_input ELSE request
       /\ current' = (r = "OK" \/ (current /\ r \notin Fills))
       /\ aligned' = IF r = "OK" THEN merkle = <<>> ELSE aligned /\ r # "unnamed"
  /\ UNCHANGED <<fromhost_data, merkle, issued, mark, yielded, outputs, settled, claim,
                 snapshot, open_count, device, input_seq, files>>

\* The request goes to a file, then the reply is loaded.
mock_tx_gio(payload) ==
  /\ Open /\ AsksInOrder({"gio"})
  /\ \/ cmt_gio_request(payload, "ENOBUFS") /\ Returns("gio", "ENOBUFS")
        /\ UNCHANGED <<inputs_left, input_filename, seq, files, aligned>>
     \/ /\ seq["gio"] < MaxSeq["gio"]
        /\ \/ cmt_gio_request(payload, "EIO") /\ store_next_output("gio", payload, FALSE)
              /\ Returns("gio", "EIO") /\ UNCHANGED <<inputs_left, input_filename, aligned>>
           \/ /\ "OK" \in LoadResults
              /\ cmt_gio_request(payload, "stopped") /\ store_next_output("gio", payload, TRUE)
              /\ Returns("gio", "stopped") /\ UNCHANGED <<inputs_left, input_filename, aligned>>
           \/ /\ Running /\ RawFits(payload)
              /\ store_next_output("gio", payload, TRUE)
              /\ \E r \in LoadResults \ {"OK"} :
                   /\ take_next_input(r) /\ rx' = rx_after(r)
                   /\ Returns("gio", rc_of_load(r))
                   /\ current' = (current /\ r \notin Fills)
                   /\ aligned' = (aligned /\ r # "unnamed")
              /\ UNCHANGED <<fromhost_data, merkle, finish, issued, mark, yielded, host>>
  /\ UNCHANGED <<open_count, device, input_seq>>

mock_tx_gio_returns ==
  /\ Open
  /\ yielded = "gio"
  /\ load_next_input("OK")
  /\ gio_returns(Next_input.payload) /\ Returns("gio", rc_of_load("OK"))
  /\ aligned' = (merkle = <<>>)
  /\ UNCHANGED <<open_count, device, input_seq, files>>

NextMock ==
  \/ cmt_io_init \/ cmt_io_init_fails \/ cmt_io_init_busy
  \/ cmt_io_fini \/ cmt_io_fini_closed
  \/ \E o \in Emits : mock_tx_output(o)
  \/ \E ns \in {"report", "exception"}, payload \in Texts : mock_tx_raw(ns, payload)
  \/ mock_progress \/ reset_merkle
  \/ mock_rx_accepted \/ mock_rx_accepted_returns \/ mock_rx_rejected
  \/ \E payload \in Texts : mock_tx_gio(payload)
  \/ mock_tx_gio_returns

SpecMock == InitMock /\ [][NextMock]_varsMock

-----------------------------------------------------------------------------
(* Correctness.                                                            *)

\* A yield writes over a file in one case only: an accepted finish could not
\* load the next input, and is repeated for the same one, whose root hash it
\* then stores again.  The counters start over with each input, and are used up
\* by stores that fail, yet the numbers they give next are new; and the root
\* hash of the current input is not stored before that finish, as its request
\* is given up by then (io-mock.c:122-135, 158-163, 180-191).
NextNamesAreNew ==
  \A f \in DOMAIN files :
    f.input = input_filename =>
      IF f.ns = RootHash THEN Running => ~current ELSE f.n < seq[f.ns]

\* The output with index n is in the file with number n of the request, which
\* is what the tests and their users compare, if the tree was reset when the
\* request began and since then no store failed, no reply came and no load
\* failed on a name it had taken (io-mock.c:122-135, rollup.c:109-118).
NumberIsIndex ==
  aligned => \A e \in issued : /\ Name("output", e.index) \in DOMAIN files
                               /\ files[Name("output", e.index)] = e.output

\* What a call may do and return on the machine.
MachineCall ==
  \/ \E rc \in ReturnCode :
       \/ Returns("output", rc) /\ \E o \in Output : emit_output(o, rc)
       \/ Returns("report", rc) /\ \E p \in Payload : cmt_rollup_emit_report(p, rc)
       \/ Returns("exception", rc) /\ \E p \in Payload : cmt_rollup_emit_exception(p, rc)
       \/ Returns("gio", rc) /\ \E p \in Payload : cmt_gio_request(p, rc)
       \/ Returns("progress", rc) /\ cmt_rollup_progress(rc)
       \/ Returns("finish", rc) /\ finish_reject(rc)
  \/ Returns("finish", "stopped") /\ finish_accept
  \/ Returns("finish", "EIO") /\ finish_accept_fails
  \/ Returns("finish", "OK") /\ \E req \in Request : finish_returns(req)
  \/ Returns("gio", "OK") /\ \E p \in Payload : gio_returns(p)
  \/ UNCHANGED told /\ cmt_rollup_reset_merkle

\* An exception "halts execution" (io.h:80); here it returns 0.
ExceptionReturns == Running /\ Returns("exception", "OK") /\ UNCHANGED vars

\* So does a rejection, with the next input in rx, and neither its type nor its
\* length in finish and fromhost_data.
RejectionReturns ==
  /\ Running /\ inputs_left # <<>>
  /\ Call(FALSE) /\ Returns("finish", "OK")
  /\ rx' = Next_input /\ request' = Next_input /\ current' = TRUE
  /\ UNCHANGED <<fromhost_data, merkle, issued, mark, yielded, outputs, settled, claim,
                 snapshot>>

\* A call fails as it may on the machine, but for an input that was read in
\* vain: rx has that, and not what was there.
LoadsInVain ==
  /\ Running /\ inputs_left # <<>>
  /\ rx' = Next_input /\ current' = FALSE
  /\ \/ Call(TRUE) /\ fromhost_data' = CMT_ABI_U256_LENGTH /\ Returns("finish", "EIO")
     \/ Call(FALSE) /\ UNCHANGED fromhost_data /\ Returns("finish", "EIO")
     \/ UNCHANGED <<finish, fromhost_data>> /\ Returns("gio", "EIO")
  /\ UNCHANGED <<merkle, issued, mark, yielded, host>>

\* "emulate io.c:cmt_io_yield behavior" (io-mock.c:283): what a call does to the
\* program and the host, and what it returns, it may do and return on the
\* machine, whichever loads and stores fail.  The three exceptions are the
\* actions above (io-mock.c:106-128, 195-205, 223-229; rollup.c:366-368).
ImplementsMachine ==
  Init /\ [][MachineCall \/ ExceptionReturns \/ RejectionReturns \/ LoadsInVain]_<<vars, told>>
=============================================================================

------------------------------ MODULE RollupCli ------------------------------
(***************************************************************************)
(* The rollup command-line tool (sys-utils/rollup/rollup.cpp): a process   *)
(* for each call of the API.  The Merkle tree lives in a file between two  *)
(* processes.  The device has one user at a time; the constructor opens it *)
(* and loads the file, the destructor saves the file and closes it.        *)
(*                                                                         *)
(* A process may be killed between any two steps, and writing the file may *)
(* fail.  Processes and file are in the machine of Rollup.tla, and go back *)
(* with it when the host puts it back.                                     *)
(***************************************************************************)
EXTENDS Rollup

CONSTANTS
  Proc,              \* processes of the tool that may exist at once
  Commands           \* the commands they are started with

Command == OutputKind \cup {"report", "exception", "accept", "reject", "gio"}
ASSUME CommandsAssumption == Commands \subseteq Command

VARIABLES
  proc,              \* where each process is, and its command
  file,              \* /tmp/merkle.dat
  lost,              \* history: outputs the tree in the file will not list
  saved              \* these variables, in the machine the host saved

tool == <<proc, file, lost>>
varsCli == <<vars, tool, saved>>

Gone == [at |-> "gone", command |-> "none"]

InitCli ==
  /\ Init
  /\ proc = [p \in Proc |-> Gone]
  /\ file = [state |-> "absent", tree |-> <<>>]
  /\ lost = FALSE
  /\ saved = NoSnapshot

At(p, place) == proc[p].at = place
Goto(p, place) == proc' = [proc EXCEPT ![p] = [at |-> place, command |-> "none"]]
Runs(p, command) == At(p, "opened") /\ proc[p].command = command

\* Mutant of DeviceFree: the destructor closes the device, then saves.
DeviceFree_before_save == \A p \in Proc : proc[p].at \in {"gone", "returned", "saving", "saved"}

\* cmt_io_init fails with EBUSY while another process has the device.
DeviceFree == \A p \in Proc : At(p, "gone")

-----------------------------------------------------------------------------
(* Constructor.                                                            *)

\* A file cut short has lost all of the tree, or its count of leaves is there
\* and the hashes are not.
NoHash == [kind |-> "none"]
Torn(tree) == [i \in 1..Len(tree) |-> NoHash]

Loads(f) == IF f.state = "cut" THEN {<<>>, f.tree, Torn(f.tree)} ELSE {f.tree}

\* Mutant of start: opening the file for the load truncates it.
start_truncates(p, command) ==
  /\ Running /\ At(p, "gone") /\ DeviceFree
  /\ proc' = [proc EXCEPT ![p] = [at |-> "opened", command |-> command]]
  /\ merkle' \in Loads(file)
  /\ file' = [file EXCEPT !.state = "cut"]
  /\ UNCHANGED <<fromhost_data, finish, issued, mark, current, rx, yielded, host,
                 lost, saved>>

\* Mutant of start: a finish does not load the tree, as it will be reset.
start_finish_without_tree(p, command) ==
  /\ Running /\ At(p, "gone") /\ DeviceFree
  /\ proc' = [proc EXCEPT ![p] = [at |-> "opened", command |-> command]]
  /\ merkle' \in IF command = "accept" THEN {<<>>} ELSE Loads(file)
  /\ UNCHANGED <<fromhost_data, finish, issued, mark, current, rx, yielded, host,
                 file, lost, saved>>

\* What cmt_rollup_load_merkle returns is ignored.
start(p, command) ==
  /\ Running /\ At(p, "gone") /\ DeviceFree
  /\ proc' = [proc EXCEPT ![p] = [at |-> "opened", command |-> command]]
  /\ merkle' \in Loads(file)
  /\ UNCHANGED <<fromhost_data, finish, issued, mark, current, rx, yielded, host,
                 file, lost, saved>>

\* The constructor throws: there is no object, hence no destructor.
start_fails(p) == Running /\ At(p, "gone") /\ UNCHANGED varsCli

-----------------------------------------------------------------------------
(* The commands.  A call that stops the machine leaves its process in it.  *)

StaysOrReturns(p, rc) == Goto(p, IF rc = "stopped" THEN "calling" ELSE "returned")

\* JSON or hex that does not parse throws with the device open.
bad_input(p) ==
  /\ Running /\ At(p, "opened") /\ proc[p].command \notin {"accept", "reject"}
  /\ Goto(p, "returned")
  /\ UNCHANGED <<vars, file, lost, saved>>

\* write_voucher, write_delegate_call_voucher, write_notice, write_report
write_output(p) ==
  /\ \E payload \in Payload, rc \in ReturnCode :
       \/ \E kind \in OutputKind : Runs(p, kind)
                                   /\ emit_output([kind |-> kind, payload |-> payload], rc)
       \/ Runs(p, "report") /\ cmt_rollup_emit_report(payload, rc)
  /\ Goto(p, "returned")
  /\ UNCHANGED <<file, lost, saved>>

throw_exception(p) ==
  /\ Runs(p, "exception")
  /\ \E payload \in Payload, rc \in ReturnCode :
       cmt_rollup_emit_exception(payload, rc) /\ StaysOrReturns(p, rc)
  /\ UNCHANGED <<file, lost, saved>>

gio(p) ==
  /\ Runs(p, "gio")
  /\ \E payload \in Payload, rc \in ReturnCode :
       cmt_gio_request(payload, rc) /\ StaysOrReturns(p, rc)
  /\ UNCHANGED <<file, lost, saved>>

\* finish_request_and_get_next, up to the yield.  The machine the host saves
\* has this process in it, and the file as the last process left it.
accept_request(p) ==
  /\ Runs(p, "accept")
  /\ \/ finish_accept /\ Goto(p, "calling")
        /\ saved' = [taken |-> TRUE, proc |-> proc', file |-> file, lost |-> lost]
     \/ finish_accept_inspect /\ Goto(p, "calling") /\ UNCHANGED saved
     \/ finish_accept_fails /\ Goto(p, "returned") /\ UNCHANGED saved
  /\ UNCHANGED <<file, lost>>

reject_request(p) ==
  /\ Runs(p, "reject")
  /\ \E rc \in ReturnCode : finish_reject(rc) /\ StaysOrReturns(p, rc)
  /\ UNCHANGED <<file, lost, saved>>

resume_finish(req) ==
  /\ finish_returns(req)
  /\ \E p \in Proc : At(p, "calling") /\ Goto(p, "finished")
  /\ UNCHANGED <<file, lost, saved>>

resume_gio(payload) ==
  /\ gio_returns(payload)
  /\ \E p \in Proc : At(p, "calling") /\ Goto(p, "returned")
  /\ UNCHANGED <<file, lost, saved>>

\* Mutant of take_request: an advance goes on with the tree of the last one.
take_request_without_reset(p) ==
  /\ Running /\ At(p, "finished")
  /\ IF finish.next_request_type = "advance"
       THEN /\ mark' = Len(outputs) /\ issued' = {} /\ lost' = FALSE
            /\ UNCHANGED <<fromhost_data, merkle, finish, current, rx, yielded, host>>
       ELSE UNCHANGED <<vars, lost>>
  /\ Goto(p, "returned")
  /\ UNCHANGED <<file, saved>>

\* The rest of finish_request_and_get_next: an advance starts a new tree.
take_request(p) ==
  /\ Running /\ At(p, "finished")
  /\ IF finish.next_request_type = "advance"
       THEN cmt_rollup_reset_merkle /\ lost' = FALSE
       ELSE UNCHANGED <<vars, lost>>
  /\ Goto(p, "returned")
  /\ UNCHANGED <<file, saved>>

-----------------------------------------------------------------------------
(* Destructor.  The return code of the save is ignored.                    *)

\* The process forgets the tree; it is lost unless the file has it.
Forget == lost' = (lost \/ file.state = "cut" \/ file.tree # merkle)

\* fopen("wb") truncates the file, or fails.
save_merkle_opens(p) ==
  /\ Running /\ At(p, "returned")
  /\ file' = [state |-> "cut", tree |-> merkle]
  /\ Goto(p, "saving")
  /\ UNCHANGED <<vars, lost, saved>>

save_merkle_fails(p) ==
  /\ Running /\ (At(p, "returned") \/ At(p, "saving"))
  /\ Goto(p, "saved")
  /\ Forget
  /\ UNCHANGED <<vars, file, saved>>

save_merkle_writes(p) ==
  /\ Running /\ At(p, "saving")
  /\ file' = [state |-> "whole", tree |-> merkle]
  /\ Goto(p, "saved")
  /\ UNCHANGED <<vars, lost, saved>>

LeaveDevice(p) ==
  /\ proc' = [proc EXCEPT ![p] = Gone]
  /\ merkle' = <<>>
  /\ UNCHANGED <<fromhost_data, finish, issued, mark, current, rx, yielded, host, file, saved>>

fini(p) == Running /\ At(p, "saved") /\ LeaveDevice(p) /\ UNCHANGED lost

\* A signal ends the process; the kernel closes the device.
killed(p) ==
  /\ Running /\ ~At(p, "gone")
  /\ LeaveDevice(p)
  /\ IF At(p, "saved") THEN UNCHANGED lost ELSE Forget

put_back ==
  /\ host_revert
  /\ proc' = saved.proc
  /\ file' = saved.file
  /\ lost' = saved.lost
  /\ UNCHANGED saved

NextCli ==
  \/ \E p \in Proc :
       \/ \E command \in Commands : start(p, command)
       \/ start_fails(p) \/ bad_input(p) \/ write_output(p) \/ throw_exception(p) \/ gio(p)
       \/ accept_request(p) \/ reject_request(p) \/ take_request(p)
       \/ save_merkle_opens(p) \/ save_merkle_fails(p) \/ save_merkle_writes(p)
       \/ fini(p) \/ killed(p)
  \/ \E req \in Request : resume_finish(req)
  \/ \E payload \in Payload : resume_gio(payload)
  \/ put_back
  \/ host_gives_up /\ UNCHANGED <<tool, saved>>

SpecCli == InitCli /\ [][NextCli]_varsCli

-----------------------------------------------------------------------------
(* Correctness.                                                            *)

FileLists == file.state # "cut" /\ Lists(file.tree, mark, Len(outputs))

\* From process to process, over rejections, inspections, bad input, refused
\* calls and two processes at once, the tree (in the process that has the
\* device, or else in the file) lists the outputs the host got since the last
\* advance, unless it was lost since; LostOnlyUnsaved says when it can be
\* (rollup.cpp:38-48, 382-398).
TreeSurvives ==
  ~lost => IF \E p \in Proc : ~At(p, "gone") THEN Lists(merkle, mark, Len(outputs)) ELSE FileLists

\* The index that a process printed is the position of its output among those
\* of the advance, whichever processes made the others (rollup.cpp:229-249).
PrintedIndexIsPosition == ~lost => IndexIsPosition

\* The root hash of an accepted request covers its outputs though each was
\* made by a process of its own, unless their tree had been lost when the
\* finish began (rollup.cpp:382-388).
AcceptedRootCoversSettled == (saved.taken => ~saved.lost) => ClaimCoversSettled

\* A process loses the tree in two ways only.  One: it has something that the
\* file does not list (an output it sent, or the tree that an advance starts)
\* and is killed, or fails to open the file, before fopen has cut it.  Two: it
\* is killed, or fails to write, after that; this loses the tree with any
\* process, also one that only reported, had bad input or was refused.  No
\* other step loses it, but the return to a machine that was saved without it
\* (rollup.cpp:38-48, 382-398).
LostOnlyUnsaved ==
  [][ lost' /\ ~lost =>
        \/ yielded # "no" /\ saved.lost
        \/ \E p \in Proc : /\ proc[p].at \in {"returned", "saving"} /\ ~FileLists
                          /\ proc'[p].at \in {"gone", "saved"} ]_varsCli
=============================================================================

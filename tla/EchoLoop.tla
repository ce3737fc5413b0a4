------------------------------ MODULE EchoLoop ------------------------------
(***************************************************************************)
(* ioctl-echo-loop (sys-utils/ioctl-echo-loop): one process that has the   *)
(* device to itself and ends at the first copy or finish that fails.       *)
(***************************************************************************)
EXTENDS Echo

\* cmt_rollup_init fails, or the arguments do not parse.
start_fails == Running /\ At("starting") /\ Goto("ended") /\ UNCHANGED <<vars, inputs, accepted, saved>>

cmt_rollup_init == Running /\ At("starting") /\ Goto("finishing") /\ UNCHANGED <<vars, inputs, accepted, saved>>

finish_request ==
  /\ At("finishing")
  /\ \/ app.accept /\ Accepts
     \/ app.accept /\ finish_accept_inspect /\ Goto("calling")
        /\ UNCHANGED <<inputs, accepted, saved>>
     \/ app.accept /\ finish_accept_fails /\ Goto("ended")
        /\ UNCHANGED <<inputs, accepted, saved>>
     \/ /\ ~app.accept
        /\ \E rc \in ReturnCode : /\ finish_reject(rc)
                                  /\ Goto(IF rc = "stopped" THEN "calling" ELSE "ended")
        /\ UNCHANGED <<inputs, accepted, saved>>

\* The payload is a pointer into rx.
handle_request ==
  /\ Running /\ At("returned")
  /\ LET r == read_request(finish.next_request_type)
     IN  app' = IF r.rc = "OK" THEN [app EXCEPT !.at = "echoing", !.given = r.payload.of, !.done = 0]
                               ELSE [app EXCEPT !.at = "ended"]
  /\ UNCHANGED <<vars, inputs, accepted, saved>>

\* write_vouchers, write_notices, write_reports
write_copy ==
  /\ At("echoing") /\ ~Copied
  /\ \E rc \in ReturnCode :
       /\ Emit(rx.payload, rc)
       /\ app' = IF rc = "OK" THEN [app EXCEPT !.done = @ + 1] ELSE [app EXCEPT !.at = "ended"]
  /\ UNCHANGED <<inputs, accepted, saved>>

\* advance_index is the index of the last advance, also in an inspection.
main_decides ==
  LET advance == app.given.type = "advance"
  IN  /\ Running /\ At("echoing") /\ Copied
      /\ app' = [app EXCEPT
           !.accept = ~(IF advance THEN Index = Reject ELSE RejectInspects),
           !.at = IF advance /\ Index = Exception THEN "throwing" ELSE "finishing"]
      /\ UNCHANGED <<vars, inputs, accepted, saved>>

\* If the exception is refused, the loop goes on to the finish.
main_throws ==
  /\ At("throwing")
  /\ \E payload \in Payload, rc \in ReturnCode :
       /\ cmt_rollup_emit_exception(payload, rc)
       /\ app' = IF rc = "stopped" THEN [app EXCEPT !.at = "calling"]
                 ELSE [app EXCEPT !.at = "finishing", !.missed = TRUE]
  /\ UNCHANGED <<inputs, accepted, saved>>

loop ==
  /\ Runs("ioctl-echo-loop")
  /\ handle_request \/ write_copy \/ main_decides \/ main_throws \/ finish_request
starts == Runs("ioctl-echo-loop") /\ (cmt_rollup_init \/ start_fails)
=============================================================================

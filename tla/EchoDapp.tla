------------------------------ MODULE EchoDapp ------------------------------
(***************************************************************************)
(* echo-dapp (rollup-http/echo-dapp) over the client library               *)
(* (rollup-http-client/src/client.rs) and the server.  It is the server's  *)
(* only client, so the locks of RollupHttp.tla are always free: a post is  *)
(* a call of the API, or gets no answer because nothing was called (no     *)
(* connection, a handler that panicked).                                   *)
(***************************************************************************)
EXTENDS Echo

Unanswered == Running /\ UNCHANGED vars

\* Mutant of send_finish_request: the status is always "accept".
send_finish_request_accepting ==
  /\ At("finishing")
  /\ \/ Accepts
     \/ finish_accept_inspect /\ Goto("calling") /\ UNCHANGED <<inputs, accepted, saved>>
     \/ finish_accept_fails /\ Goto("exited") /\ UNCHANGED <<inputs, accepted, saved>>
     \/ Unanswered /\ Goto("exited") /\ UNCHANGED <<inputs, accepted, saved>>

\* An error of the client or a status of the server ends the dapp.
send_finish_request ==
  /\ At("finishing")
  /\ \/ app.accept /\ Accepts
     \/ app.accept /\ finish_accept_inspect /\ Goto("calling")
        /\ UNCHANGED <<inputs, accepted, saved>>
     \/ app.accept /\ finish_accept_fails /\ Goto("exited")
        /\ UNCHANGED <<inputs, accepted, saved>>
     \/ /\ ~app.accept
        /\ \E rc \in ReturnCode : /\ finish_reject(rc)
                                  /\ Goto(IF rc = "stopped" THEN "calling" ELSE "exited")
        /\ UNCHANGED <<inputs, accepted, saved>>
     \/ Unanswered /\ Goto("exited") /\ UNCHANGED <<inputs, accepted, saved>>

\* The response with the next request, which the dapp has a copy of.
receive_request ==
  /\ Running /\ At("returned")
  /\ LET r == read_request(finish.next_request_type)
     IN  app' = IF r.rc = "OK" THEN [app EXCEPT !.at = "echoing", !.given = r.payload.of, !.done = 0]
                               ELSE [app EXCEPT !.at = "exited"]
  /\ UNCHANGED <<vars, inputs, accepted, saved>>

\* Mutant of send_copy: a post that fails is sent again.
send_copy_again ==
  /\ At("echoing") /\ ~Copied
  /\ \/ \E rc \in ReturnCode : /\ Emit(app.given.payload, rc)
                               /\ app' = IF rc = "OK" THEN [app EXCEPT !.done = @ + 1] ELSE app
     \/ Unanswered /\ UNCHANGED app
  /\ UNCHANGED <<inputs, accepted, saved>>

\* Mutant of send_copy: the payload of another request is sent.
send_copy_of_another ==
  /\ At("echoing") /\ ~Copied
  /\ \E p \in Payload, rc \in ReturnCode :
       /\ Emit(p, rc)
       /\ app' = [app EXCEPT !.done = @ + 1, !.missed = @ \/ rc # "OK"]
  /\ UNCHANGED <<inputs, accepted, saved>>

\* send_voucher, send_notice, send_report: an error is logged, a status is
\* not looked at.
send_copy ==
  /\ At("echoing") /\ ~Copied
  /\ \/ \E rc \in ReturnCode : /\ Emit(app.given.payload, rc)
                               /\ app' = [app EXCEPT !.done = @ + 1, !.missed = @ \/ rc # "OK"]
     \/ Unanswered /\ app' = [app EXCEPT !.done = @ + 1, !.missed = TRUE]
  /\ UNCHANGED <<inputs, accepted, saved>>

\* "input_index as i32" keeps the low bits.
IsNth(n) == Index % IntValues = n

decide ==
  LET advance == app.given.type = "advance"
  IN  /\ Running /\ At("echoing") /\ Copied
      /\ app' = [app EXCEPT
           !.accept = ~(IF advance THEN IsNth(Reject) ELSE RejectInspects),
           !.at = IF advance /\ IsNth(Exception) THEN "throwing" ELSE "finishing"]
      /\ UNCHANGED <<vars, inputs, accepted, saved>>

\* Whatever comes of the post, the dapp panics.
throw_exception ==
  /\ At("throwing")
  /\ \/ \E payload \in Payload, rc \in ReturnCode :
          /\ cmt_rollup_emit_exception(payload, rc)
          /\ Goto(IF rc = "stopped" THEN "calling" ELSE "exited")
     \/ Unanswered /\ Goto("exited")
  /\ UNCHANGED <<inputs, accepted, saved>>

\* dapp_process::run starts the dapp when the server is ready ...
start ==
  /\ Running /\ At("starting")
  /\ Goto("finishing") \/ Goto("exited")
  /\ UNCHANGED <<vars, inputs, accepted, saved>>

\* ... and throws an exception when it has exited.
dapp_exited ==
  /\ At("exited")
  /\ \E payload \in Payload, rc \in ReturnCode :
       /\ cmt_rollup_emit_exception(payload, rc)
       /\ Goto(IF rc = "stopped" THEN "calling" ELSE "ended")
  /\ UNCHANGED <<inputs, accepted, saved>>

dapp ==
  /\ Runs("echo-dapp")
  /\ \/ start \/ receive_request \/ send_copy \/ decide
     \/ throw_exception \/ send_finish_request \/ dapp_exited
=============================================================================
